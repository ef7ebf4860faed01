---------------------------- MODULE SavesProofs ----------------------------
(***************************************************************************)
(* Proofs about RegisterOutbox, for any number of rows and texts, any      *)
(* chunk, any number of faults, and with and without the unique index.     *)
(*                                                                         *)
(* PromiseKept speaks of the file and the server.  It needs what the grid  *)
(* shows once the file was read (Held), since the grid is what the file is *)
(* overwritten with; that a row is cleared only when the server has it     *)
(* (Sending); and that ids are unique, so that the row which Save captured *)
(* is the one it marks (Rows, Captures).                                   *)
(***************************************************************************)
EXTENDS RegisterOutbox, FiniteSetTheorems, TLAPS

(* Rows that somebody asked to save, or that nobody is owed any more.      *)
Owed == promised \cup excused

SoundRows(g) ==
  \A p \in Slots :
    /\ HasData(g[p]) => g[p].id # NoId
    /\ g[p].id # NoId => g[p].id <= issued
    /\ g[p].queued /\ g[p].id # NoId => g[p].id \in Owed
    /\ \A q \in Slots : g[p].id = g[q].id /\ g[p].id # NoId => p = q

Rows ==
  /\ SoundRows(grid) /\ SoundRows(file)
  /\ \A p \in Slots : file[p].id # NoId => HasData(file[p])
  /\ \A i \in Owed : i <= issued

(* Save holds the grid: what it captured keeps its text until it ends.     *)
Captures ==
  /\ ~saving => captured = {}
  /\ saving => page = "open"
  /\ \A c \in captured :
       /\ c.id <= issued
       /\ \A p \in Slots : grid[p].id = c.id => HasData(grid[p])

(* A promised row is stored or in the file, and in a grid that was read.   *)
Held ==
  /\ PromiseKept
  /\ loaded => \A i \in promised \ excused : Stored(i) \/ i \in IdsOf(Drafts(grid))
  /\ \A i \in Ids : fetched[i] # <<>> => Stored(i)

(* What the drain and the requests nobody waits for may bring.             *)
Sending ==
  /\ \A p \in Slots :
       /\ batch[p].out = "none" => batch[p].id = NoId
       /\ batch[p].out # "none" => batch[p].id \in Owed /\ batch[p].text \in Texts
       /\ batch[p].out = "saved" => Stored(batch[p].id)
  /\ \A x \in call.items : \E p \in Slots : batch[p].id = x.id /\ batch[p].text = x.text
  /\ \A i \in call.found : Stored(i)
  /\ call.phase = "done" => \A i \in ItemIds(call) \ call.refused : Stored(i)
  /\ \A r \in strays : ItemIds(r) \subseteq Owed
  /\ \A i \in Ids : Stored(i) => i \in Owed

(* Only a request that was given up on stores a row beside the drain.      *)
Alone ==
  /\ OneDocPerRow
  /\ call.phase = "looked" => \A i \in Missing(call) : Stored(i) => i \in abandoned
  /\ \A r \in strays : ItemIds(r) \subseteq abandoned

(* Text t of row i has left the client.                                    *)
Told(i, t) ==
  \/ \E n \in DOMAIN docs[i] : docs[i][n] = t
  \/ \E p \in Slots : batch[p].id = i /\ batch[p].text = t
  \/ \E r \in strays : \E x \in r.items : x.id = i /\ x.text = t

Agree ==
  \A i \in Ids \ edited : \A t \in Texts : Told(i, t) =>
    \A p \in Slots : /\ grid[p].id = i => grid[p].text = t
                     /\ file[p].id = i => file[p].text = t

SInv == SavesTypeOK /\ Rows /\ Captures /\ Held /\ Sending /\ Alone /\ Agree

-----------------------------------------------------------------------------
(* What most steps leave alone.                                            *)

LEMMA Texting == SavesTypeOK => /\ \A p \in Slots : /\ grid[p] \in Slot /\ file[p] \in Slot
                                                    /\ grid[p].id \in Ids \cup {NoId}
                                                    /\ file[p].id \in Ids \cup {NoId}
                                                    /\ batch[p].id \in Ids \cup {NoId}
                                /\ issued \in Nat /\ promised \subseteq Ids /\ excused \subseteq Ids
                                /\ NoId \notin Ids /\ Ids \subseteq Nat
  BY SavesAssumption DEF SavesTypeOK, Slot, Ids, NoId

LEMMA SendingKept ==
  ASSUME SInv, UNCHANGED <<batch, call, strays, docs>>, Owed \subseteq Owed'
  PROVE  Sending'
  BY DEF SInv, Sending, Stored, ItemIds

LEMMA AloneKept ==
  ASSUME SInv, UNCHANGED <<call, strays, docs, abandoned>>
  PROVE  Alone'
  BY DEF SInv, Alone, OneDocPerRow, Stored, ItemIds, Missing

LEMMA FileSound ==
  ASSUME SInv, UNCHANGED file, issued' \in Nat, issued <= issued', Owed \subseteq Owed'
  PROVE  SoundRows(file)'
  BY Texting DEF SInv, Rows, SoundRows, HasData

(* A row that is told of says in the grid and in the file what it said.    *)
Says(row, i, t) == row.id = i => row.text = t

LEMMA AgreeKept ==
  ASSUME SInv, edited \subseteq edited',
         \A i \in Ids, t \in Texts : Told(i, t)' => Told(i, t),
         \A i \in Ids \ edited' : \A t \in Texts, p \in Slots :
            /\ Told(i, t) /\ (\A q \in Slots : Says(grid[q], i, t) /\ Says(file[q], i, t)) =>
                  /\ Says(grid'[p], i, t) /\ Says(file'[p], i, t)
  PROVE  Agree'
  BY DEF SInv, Agree, Says

(* A step that only changes the grid, while Save does not hold it.         *)
LEMMA GridStep ==
  ASSUME SInv, SavesTypeOK', ~saving,
         UNCHANGED <<file, page, loaded, fetched, batch, call, strays, docs, saving, captured,
                     promised, abandoned>>,
         issued <= issued', excused \subseteq excused', edited \subseteq edited',
         \A i \in excused' : i <= issued',
         SoundRows(grid)',
         \A i \in Ids \ excused' : i \in IdsOf(Drafts(grid)) => i \in IdsOf(Drafts(grid))',
         \A p \in Slots : \/ grid'[p].id \in edited' \cup {NoId}
                          \/ \E q \in Slots : grid[q].id = grid'[p].id /\ grid[q].text = grid'[p].text
                          \/ \A t \in Texts : ~Told(grid'[p].id, t)
  PROVE  SInv'
  <1>1. Rows'
    <2>1. issued' \in Nat /\ Owed \subseteq Owed'
      BY Texting DEF SavesTypeOK, Ids, Owed
    <2>2. SoundRows(file)'
      BY <2>1, FileSound
    <2> QED
      BY <2>1, <2>2, Texting DEF SInv, Rows, Owed, HasData
  <1>2. Captures'
    BY DEF SInv, Captures
  <1>3. Held'
    BY Texting DEF SInv, Held, PromiseKept, Stored, IdsOf
  <1>4. Sending' /\ Alone'
    BY SendingKept, AloneKept DEF Owed
  <1>5. Agree'
    <2>1. \A i \in Ids, t \in Texts : Told(i, t)' => Told(i, t)
      BY DEF Told
    <2> QED
      BY <2>1, AgreeKept, Texting DEF Says, SInv
  <1> QED
    BY <1>1, <1>2, <1>3, <1>4, <1>5 DEF SInv

LEMMA DraftIds ==
  ASSUME NEW i, NEW g PROVE i \in IdsOf(Drafts(g)) =>
             i # NoId /\ \E p \in Slots : g[p].id = i /\ HasData(g[p])
  BY DEF IdsOf, Drafts, Empty

LEMMA DraftIdsNext ==
  ASSUME NEW i \in Ids PROVE (\E p \in Slots : grid'[p].id = i /\ HasData(grid'[p]))
                              => i \in IdsOf(Drafts(grid))'
  BY SavesAssumption DEF IdsOf, Drafts, Ids, NoId, HasData

(* An id that was not issued yet is told nowhere.                          *)
LEMMA Fresh ==
  ASSUME SInv, issued + 1 \in Ids PROVE \A u \in Texts : ~Told(issued + 1, u)
  <1>1. issued + 1 \notin Owed
    BY Texting DEF SInv, Rows
  <1>2. DOMAIN docs[issued + 1] = {}
    BY <1>1 DEF SInv, Sending, Stored
  <1>3. \A q \in Slots : batch[q].id # issued + 1
    BY <1>1, Texting DEF SInv, Sending
  <1> QED
    BY <1>1, <1>2, <1>3 DEF Told, SInv, Sending, ItemIds

(* Rows that only moved down, and a new one, are as sound as before.       *)
LEMMA Shifted ==
  ASSUME SInv, SoundRows(grid), NEW p \in Slots, NEW row \in Slot, grid'[p] = row, ~row.queued,
         \A q \in Slots \ {p} : \E r \in Slots : r = (IF q < p THEN q ELSE q - 1) /\ grid'[q] = grid[r],
         issued' \in Nat, issued <= issued', Owed \subseteq Owed',
         HasData(row) => row.id # NoId,
         row.id # NoId => row.id <= issued' /\ \A q \in Slots : grid[q].id # row.id
  PROVE  SoundRows(grid)'
  <1>1. \A q, s, r \in Slots : r = (IF q < p THEN q ELSE q - 1) /\ r = (IF s < p THEN s ELSE s - 1)
                               /\ q # p /\ s # p => q = s
    BY SavesAssumption DEF Slots
  <1>2. \A q \in Slots : grid[q].id \in Nat
    BY Texting DEF SInv, NoId
  <1>3. issued \in Nat
    BY Texting DEF SInv
  <1>4. ASSUME NEW q \in Slots
        PROVE  /\ HasData(grid'[q]) => grid'[q].id # NoId
               /\ grid'[q].id # NoId => grid'[q].id <= issued'
               /\ grid'[q].queued /\ grid'[q].id # NoId => grid'[q].id \in Owed'
               /\ grid'[q].id = grid'[p].id => grid'[q].id = NoId \/ q = p
    <2>1. CASE q = p
      BY <2>1
    <2>2. CASE q # p
      <3>1. PICK r \in Slots : grid'[q] = grid[r]
        BY <2>2
      <3> QED
        BY <1>2, <1>3, <3>1 DEF SoundRows, HasData
    <2> QED
      BY <2>1, <2>2
  <1>5. \A q, s \in Slots : grid'[q].id = grid'[s].id /\ grid'[q].id # NoId /\ q # p /\ s # p => q = s
    BY <1>1 DEF SoundRows
  <1> QED
    BY <1>4, <1>5 DEF SoundRows, HasData

-----------------------------------------------------------------------------
(* Typing                                                                  *)

LEMMA TypeStep ==
  ASSUME SInv, NEW p \in Slots, NEW t \in Texts, Type(p, t) PROVE SInv'
  <1>1. /\ ~saving /\ ~HasData(grid[p]) /\ grid[p].id = NoId /\ issued < MaxRows /\ issued' = issued + 1
        /\ grid' = [grid EXCEPT ![p].id = issued + 1, ![p].text = t]
        /\ excused' = excused \cup (IF grid[p].queued THEN {issued + 1} ELSE {})
    BY DEF Type, AtTheGrid
  <1>u. UNCHANGED <<file, page, loaded, fetched, armed, online, draining, cancelled, batch, call,
                    replayed, saving, captured, acts, docs, strays, faults, promised, edited, abandoned>>
    BY DEF Type, pageVars, drainVars, saveVars, serverVars
  <1>2. /\ issued + 1 \in Ids /\ issued \in Nat /\ grid \in [Slots -> Slot]
    <2>1. issued \in Nat /\ MaxRows \in Nat /\ issued < MaxRows
      BY <1>1, Texting, SavesAssumption DEF SInv
    <2> QED
      BY <2>1 DEF Ids, SInv, SavesTypeOK
  <1>3. /\ grid' \in [Slots -> Slot]
        /\ grid'[p].id = issued + 1 /\ grid'[p].text = t /\ grid'[p].queued = grid[p].queued
        /\ \A q \in Slots \ {p} : grid'[q] = grid[q]
    BY <1>1, <1>2 DEF Slot
  <1>4. SavesTypeOK'
    <2>1. issued' \in 0..MaxRows /\ excused' \subseteq Ids
      BY <1>1, <1>2, Texting DEF Ids, SInv
    <2> QED
      BY <1>3, <1>u, <2>1 DEF SInv, SavesTypeOK
  <1>5. SoundRows(grid)'
    BY <1>1, <1>2, <1>3, <1>u, Texting DEF SInv, Rows, SoundRows, HasData, Owed
  <1>6. \A i \in IdsOf(Drafts(grid)) : i \in IdsOf(Drafts(grid))'
    BY <1>1, <1>3 DEF IdsOf, Drafts, HasData, Empty, NoId
  <1>7. \A u \in Texts : ~Told(issued + 1, u)
    BY <1>2, Fresh
  <1>8. \A i \in excused' : i <= issued'
    BY <1>1, <1>2, <1>u, Texting DEF SInv, Rows, Owed
  <1>9. \A q \in Slots : \/ grid'[q].id \in edited' \cup {NoId}
                         \/ \E r \in Slots : grid[r].id = grid'[q].id /\ grid[r].text = grid'[q].text
                         \/ \A u \in Texts : ~Told(grid'[q].id, u)
    BY <1>3, <1>7
  <1>10. /\ issued <= issued' /\ excused \subseteq excused' /\ edited \subseteq edited' /\ ~saving
    BY <1>1, <1>2, <1>u, Texting DEF SInv
  <1> QED
    BY <1>4, <1>5, <1>6, <1>8, <1>9, <1>10, <1>u, GridStep

LEMMA EditStep ==
  ASSUME SInv, NEW p \in Slots, NEW t \in Texts \cup {Blank}, Edit(p, t) PROVE SInv'
  <1>1. /\ ~saving /\ grid[p].id # NoId
        /\ grid' = [grid EXCEPT ![p].text = t]
        /\ acts < MaxActs /\ acts' = acts + 1
        /\ edited' = IF Reached(grid[p].id) THEN edited \cup {grid[p].id} ELSE edited
        /\ excused' = IF t = Blank THEN excused \cup {grid[p].id} ELSE excused
    BY DEF Edit, Act, AtTheGrid
  <1>u. UNCHANGED <<file, page, loaded, fetched, issued, armed, online, draining, cancelled, batch, call,
                    replayed, saving, captured, docs, strays, faults, promised, abandoned>>
    BY DEF Edit, pageVars, drainVars, serverVars
  <1>2. grid[p].id \in Ids /\ grid \in [Slots -> Slot]
    BY <1>1, Texting DEF SInv, SavesTypeOK
  <1>3. /\ grid' \in [Slots -> Slot]
        /\ grid'[p].id = grid[p].id /\ grid'[p].text = t /\ grid'[p].queued = grid[p].queued
        /\ \A q \in Slots \ {p} : grid'[q] = grid[q]
    BY <1>1, <1>2 DEF Slot
  <1>4. SavesTypeOK'
    <2>1. acts' \in 0..MaxActs
      BY <1>1, SavesAssumption DEF SInv, SavesTypeOK
    <2>2. edited' \subseteq Ids /\ excused' \subseteq Ids
      BY <1>1, <1>2 DEF SInv, SavesTypeOK
    <2> QED
      BY <1>3, <1>u, <2>1, <2>2 DEF SInv, SavesTypeOK
  <1>5. SoundRows(grid)'
    BY <1>1, <1>2, <1>3, <1>u, Texting DEF SInv, Rows, SoundRows, HasData, Owed
  <1>6. \A i \in Ids \ excused' : i \in IdsOf(Drafts(grid)) => i \in IdsOf(Drafts(grid))'
    BY <1>1, <1>3 DEF IdsOf, Drafts, HasData, Empty, NoId
  <1>7. grid[p].id \in edited' \/ \A u \in Texts : ~Told(grid[p].id, u)
    <2> SUFFICES ASSUME ~Reached(grid[p].id) PROVE \A u \in Texts : ~Told(grid[p].id, u)
      BY <1>1
    <2>1. DOMAIN docs[grid[p].id] = {}
      BY DEF Reached, Stored
    <2> QED
      BY <2>1 DEF Told, Reached, ItemIds
  <1>8. \A i \in excused' : i <= issued'
    BY <1>1, <1>2, <1>u, Texting DEF SInv, Rows, SoundRows, Owed
  <1>9. \A q \in Slots : \/ grid'[q].id \in edited' \cup {NoId}
                         \/ \E r \in Slots : grid[r].id = grid'[q].id /\ grid[r].text = grid'[q].text
                         \/ \A u \in Texts : ~Told(grid'[q].id, u)
    BY <1>3, <1>7
  <1>10. /\ issued <= issued' /\ excused \subseteq excused' /\ edited \subseteq edited' /\ ~saving
    BY <1>1, <1>2, <1>u, Texting DEF SInv
  <1> QED
    BY <1>4, <1>5, <1>6, <1>8, <1>9, <1>10, <1>u, GridStep

(* The rows from p on move down by one.                                    *)
LEMMA Moved ==
  ASSUME SInv, NEW p \in Slots, NEW row \in Slot, grid[MaxSlots] = Empty,
         grid' = RowsInsertedAt(p, row)
  PROVE  /\ grid' \in [Slots -> Slot] /\ grid'[p] = row
         /\ \A q \in Slots \ {p} : \E r \in Slots : /\ r = (IF q < p THEN q ELSE q - 1)
                                                     /\ grid'[q] = grid[r]
         /\ \A r \in Slots : r = MaxSlots \/ \E q \in Slots : grid'[q] = grid[r]
  <1>1. MaxSlots \in Nat /\ grid \in [Slots -> Slot] /\ p \in 1..MaxSlots
    BY SavesAssumption DEF SInv, SavesTypeOK, Slots
  <1>2. \A q \in Slots : grid'[q] = IF q < p THEN grid[q] ELSE IF q = p THEN row ELSE grid[q - 1]
    BY DEF RowsInsertedAt
  <1>3. \A q \in Slots \ {p} : (IF q < p THEN q ELSE q - 1) \in Slots
    BY <1>1 DEF Slots
  <1>4. grid' \in [Slots -> Slot]
    BY <1>1, <1>2, <1>3 DEF RowsInsertedAt
  <1>5. \A r \in Slots : r = MaxSlots \/ \E q \in Slots : grid'[q] = grid[r]
    <2> SUFFICES ASSUME NEW r \in Slots, r # MaxSlots PROVE \E q \in Slots : grid'[q] = grid[r]
      OBVIOUS
    <2>1. CASE r < p
      BY <1>2, <2>1
    <2>2. CASE r >= p
      <3>1. r + 1 \in Slots /\ r + 1 # p /\ ~(r + 1 < p) /\ (r + 1) - 1 = r
        BY <1>1, <2>2 DEF Slots
      <3> QED
        BY <1>2, <3>1
    <2> QED
      BY <1>1, <2>1, <2>2 DEF Slots
  <1>6. grid'[p] = row
    BY <1>1, <1>2
  <1>7. \A q \in Slots \ {p} : \E r \in Slots : r = (IF q < p THEN q ELSE q - 1) /\ grid'[q] = grid[r]
    BY <1>2, <1>3
  <1> QED
    BY <1>4, <1>5, <1>6, <1>7

LEMMA InsertStep ==
  ASSUME SInv, NEW p \in Slots, InsertAbove(p) PROVE SInv'
  <1>1. /\ ~saving /\ grid[MaxSlots] = Empty /\ grid' = RowsInsertedAt(p, Empty)
        /\ acts < MaxActs /\ acts' = acts + 1
    BY DEF InsertAbove, Act, AtTheGrid
  <1>u. UNCHANGED <<file, page, loaded, fetched, issued, armed, online, draining, cancelled, batch, call,
                    replayed, saving, captured, docs, strays, faults, promised, excused, edited, abandoned>>
    BY DEF InsertAbove, pageVars, drainVars, serverVars, historyVars
  <1>2. /\ Empty \in Slot /\ Empty.id = NoId /\ ~HasData(Empty) /\ ~Empty.queued
    BY DEF Empty, Slot, HasData
  <1>3. /\ grid' \in [Slots -> Slot] /\ grid'[p] = Empty
        /\ \A q \in Slots \ {p} : \E r \in Slots : r = (IF q < p THEN q ELSE q - 1) /\ grid'[q] = grid[r]
        /\ \A r \in Slots : r = MaxSlots \/ \E q \in Slots : grid'[q] = grid[r]
    BY <1>1, <1>2, Moved
  <1>4. SavesTypeOK'
    <2>1. acts' \in 0..MaxActs
      BY <1>1, SavesAssumption DEF SInv, SavesTypeOK
    <2> QED
      BY <1>3, <1>u, <2>1 DEF SInv, SavesTypeOK
  <1>5. SoundRows(grid)'
    <2>1. issued' \in Nat /\ issued <= issued' /\ Owed \subseteq Owed' /\ SoundRows(grid)
      BY <1>u, Texting DEF SInv, Rows, Owed
    <2> QED
      BY <1>2, <1>3, <2>1, Shifted
  <1>6. \A i \in Ids \ excused' : i \in IdsOf(Drafts(grid)) => i \in IdsOf(Drafts(grid))'
    <2> SUFFICES ASSUME NEW i \in Ids, i \in IdsOf(Drafts(grid)) PROVE i \in IdsOf(Drafts(grid))'
      OBVIOUS
    <2>1. PICK r \in Slots : grid[r].id = i /\ HasData(grid[r])
      BY DraftIds
    <2>2. PICK q \in Slots : grid'[q] = grid[r]
      BY <1>1, <1>2, <1>3, <2>1
    <2> QED
      BY <2>1, <2>2, DraftIdsNext DEF HasData
  <1>7. \A q \in Slots : grid'[q].id = NoId \/ \E r \in Slots : grid[r] = grid'[q]
    BY <1>2, <1>3
  <1>8. \A i \in excused' : i <= issued'
    BY <1>u DEF SInv, Rows, Owed
  <1>9. \A q \in Slots : \/ grid'[q].id \in edited' \cup {NoId}
                         \/ \E r \in Slots : grid[r].id = grid'[q].id /\ grid[r].text = grid'[q].text
                         \/ \A u \in Texts : ~Told(grid'[q].id, u)
    BY <1>7
  <1>10. issued <= issued' /\ excused \subseteq excused' /\ edited \subseteq edited' /\ ~saving
    BY <1>1, <1>u, Texting DEF SInv
  <1> QED
    BY <1>4, <1>5, <1>6, <1>8, <1>9, <1>10, <1>u, GridStep

LEMMA CopyStep ==
  ASSUME SInv, NEW p \in Slots, Copy(p) PROVE SInv'
  <1> PICK row : row = [Empty EXCEPT !.id = issued + 1, !.text = grid[p].text]
    OBVIOUS
  <1>1. /\ ~saving /\ grid[MaxSlots] = Empty /\ grid' = RowsInsertedAt(p + 1, row)
        /\ acts < MaxActs /\ acts' = acts + 1 /\ HasData(grid[p]) /\ p < MaxSlots
        /\ issued < MaxRows /\ issued' = issued + 1
    BY DEF Copy, Act, AtTheGrid
  <1>u. UNCHANGED <<file, page, loaded, fetched, armed, online, draining, cancelled, batch, call,
                    replayed, saving, captured, docs, strays, faults, promised, excused, edited, abandoned>>
    BY DEF Copy, pageVars, drainVars, serverVars, historyVars
  <1>0. issued \in Nat /\ MaxRows \in Nat /\ MaxSlots \in Nat /\ grid[p] \in Slot
    BY Texting, SavesAssumption DEF SInv
  <1>2. /\ row \in Slot /\ row.id = issued + 1 /\ ~row.queued
        /\ Empty.id = NoId /\ ~HasData(Empty) /\ issued + 1 \in Ids /\ issued + 1 # NoId
    <2>1. /\ row.id = issued + 1 /\ row.text = grid[p].text /\ row.queued = FALSE
          /\ row = [id |-> issued + 1, text |-> grid[p].text, queued |-> FALSE]
      BY DEF Empty
    <2>2. grid[p].text \in Texts \cup {Blank} /\ issued + 1 \in Ids /\ issued + 1 # NoId
      BY <1>0, <1>1 DEF Slot, Ids, NoId
    <2> QED
      BY <2>1, <2>2 DEF Slot, Empty, HasData
  <1>a. p + 1 \in Slots
    BY <1>0, <1>1 DEF Slots
  <1>3. /\ grid' \in [Slots -> Slot] /\ grid'[p + 1] = row
        /\ \A q \in Slots \ {p + 1} : \E r \in Slots : r = (IF q < p + 1 THEN q ELSE q - 1) /\ grid'[q] = grid[r]
        /\ \A r \in Slots : r = MaxSlots \/ \E q \in Slots : grid'[q] = grid[r]
    BY <1>1, <1>2, <1>a, Moved
  <1>4. SavesTypeOK'
    <2>1. acts' \in 0..MaxActs /\ issued' \in 0..MaxRows
      BY <1>0, <1>1, SavesAssumption DEF SInv, SavesTypeOK
    <2> QED
      BY <1>3, <1>u, <2>1 DEF SInv, SavesTypeOK
  <1>5. SoundRows(grid)'
    <2>1. issued' \in Nat /\ issued <= issued' /\ Owed \subseteq Owed'
      BY <1>0, <1>1, <1>u DEF Owed
    <2>2. row.id <= issued' /\ \A q \in Slots : grid[q].id # row.id
      BY <1>0, <1>1, <1>2, Texting DEF SInv, Rows, SoundRows
    <2> QED
      BY <1>2, <1>3, <1>a, <2>1, <2>2, Shifted DEF SInv, Rows
  <1>6. \A i \in Ids \ excused' : i \in IdsOf(Drafts(grid)) => i \in IdsOf(Drafts(grid))'
    <2> SUFFICES ASSUME NEW i \in Ids, i \in IdsOf(Drafts(grid)) PROVE i \in IdsOf(Drafts(grid))'
      OBVIOUS
    <2>1. PICK r \in Slots : grid[r].id = i /\ HasData(grid[r])
      BY DraftIds
    <2>2. PICK q \in Slots : grid'[q] = grid[r]
      BY <1>1, <1>2, <1>3, <2>1
    <2> QED
      BY <2>1, <2>2, DraftIdsNext DEF HasData
  <1>7. \A q \in Slots : grid'[q] = row \/ \E r \in Slots : grid[r] = grid'[q]
    BY <1>3
  <1>8. \A i \in excused' : i <= issued'
    BY <1>0, <1>1, <1>u, Texting DEF SInv, Rows, Owed
  <1>9. \A q \in Slots : \/ grid'[q].id \in edited' \cup {NoId}
                         \/ \E r \in Slots : grid[r].id = grid'[q].id /\ grid[r].text = grid'[q].text
                         \/ \A u \in Texts : ~Told(grid'[q].id, u)
    BY <1>2, <1>7, Fresh
  <1>10. issued <= issued' /\ excused \subseteq excused' /\ edited \subseteq edited' /\ ~saving
    BY <1>0, <1>1, <1>u
  <1> QED
    BY <1>4, <1>5, <1>6, <1>8, <1>9, <1>10, <1>u, GridStep

LEMMA DeleteStep ==
  ASSUME SInv, NEW p \in Slots, Delete(p) PROVE SInv'
  <1>1. /\ ~saving /\ acts < MaxActs /\ acts' = acts + 1
        /\ excused' = excused \cup ({grid[p].id} \ {NoId})
        /\ \A q \in Slots : grid'[q] = IF q < p THEN grid[q] ELSE IF q < MaxSlots THEN grid[q + 1] ELSE Empty
        /\ grid' = [q \in Slots |-> grid'[q]]
    BY DEF Delete, Act, AtTheGrid
  <1>u. UNCHANGED <<file, page, loaded, fetched, issued, armed, online, draining, cancelled, batch, call,
                    replayed, saving, captured, docs, strays, faults, promised, edited, abandoned>>
    BY DEF Delete, pageVars, drainVars, serverVars
  <1>2. /\ Empty \in Slot /\ Empty.id = NoId /\ ~HasData(Empty) /\ ~Empty.queued
    BY DEF Empty, Slot, HasData
  <1>0. /\ MaxSlots \in Nat /\ grid \in [Slots -> Slot] /\ Slots = 1..MaxSlots
        /\ grid[p].id \in Ids \cup {NoId} /\ NoId \notin Ids
    BY SavesAssumption, Texting DEF SInv, SavesTypeOK, Slots
  <1>3. /\ \A q \in Slots : \/ grid'[q] = Empty
                            \/ \E r \in Slots : r = (IF q < p THEN q ELSE q + 1) /\ grid'[q] = grid[r]
        /\ \A r \in Slots : r = p \/ \E q \in Slots : grid'[q] = grid[r]
    <2>1. \A q \in Slots : q < p \/ ~(q < MaxSlots) \/ (q + 1 \in Slots /\ grid'[q] = grid[q + 1])
      BY <1>0, <1>1
    <2>2. \A r \in Slots : r > p => r - 1 \in Slots /\ ~(r - 1 < p) /\ r - 1 < MaxSlots /\ (r - 1) + 1 = r
      BY <1>0
    <2>3. \A r \in Slots : r > p => grid'[r - 1] = grid[r]
      BY <1>1, <2>2
    <2>4. \A r \in Slots : r = p \/ r < p \/ r > p
      BY <1>0
    <2> QED
      BY <1>1, <2>1, <2>2, <2>3, <2>4
  <1>a. grid' \in [Slots -> Slot]
    BY <1>0, <1>1, <1>2, <1>3
  <1>4. SavesTypeOK'
    <2>1. acts' \in 0..MaxActs
      BY <1>1, SavesAssumption DEF SInv, SavesTypeOK
    <2>2. excused' \subseteq Ids
      BY <1>0, <1>1 DEF SInv, SavesTypeOK
    <2> QED
      BY <1>a, <1>u, <2>1, <2>2 DEF SInv, SavesTypeOK
  <1>5. SoundRows(grid)'
    <2>1. \A q, s, r \in Slots : r = (IF q < p THEN q ELSE q + 1) /\ r = (IF s < p THEN s ELSE s + 1) => q = s
      BY SavesAssumption DEF Slots
    <2>2. \A q \in Slots : /\ HasData(grid'[q]) => grid'[q].id # NoId
                           /\ grid'[q].id # NoId => grid'[q].id <= issued'
                           /\ grid'[q].queued /\ grid'[q].id # NoId => grid'[q].id \in Owed'
      <3> TAKE q \in Slots
      <3>1. CASE grid'[q] = Empty
        BY <1>2, <3>1 DEF HasData
      <3>2. CASE \E r \in Slots : grid'[q] = grid[r]
        <4>1. PICK r \in Slots : grid'[q] = grid[r]
          BY <3>2
        <4>2. Owed \subseteq Owed' /\ issued' = issued
          BY <1>1, <1>u DEF Owed
        <4> QED
          BY <4>1, <4>2 DEF SInv, Rows, SoundRows, HasData
      <3> QED
        BY <1>3, <3>1, <3>2
    <2>3. \A q, s \in Slots : grid'[q].id = grid'[s].id /\ grid'[q].id # NoId => q = s
      BY <1>2, <1>3, <2>1 DEF SInv, Rows, SoundRows
    <2> QED
      BY <2>2, <2>3 DEF SoundRows, HasData
  <1>6. \A i \in Ids \ excused' : i \in IdsOf(Drafts(grid)) => i \in IdsOf(Drafts(grid))'
    <2> SUFFICES ASSUME NEW i \in Ids \ excused', i \in IdsOf(Drafts(grid)) PROVE i \in IdsOf(Drafts(grid))'
      OBVIOUS
    <2>1. PICK r \in Slots : grid[r].id = i /\ HasData(grid[r])
      BY DraftIds
    <2>2. PICK q \in Slots : grid'[q] = grid[r]
      BY <1>0, <1>1, <1>3, <2>1
    <2> QED
      BY <2>1, <2>2, DraftIdsNext DEF HasData
  <1>8. \A i \in excused' : i <= issued'
    BY <1>0, <1>1, <1>u DEF SInv, Rows, SoundRows, Owed
  <1>9. \A q \in Slots : \/ grid'[q].id \in edited' \cup {NoId}
                         \/ \E r \in Slots : grid[r].id = grid'[q].id /\ grid[r].text = grid'[q].text
                         \/ \A u \in Texts : ~Told(grid'[q].id, u)
    BY <1>2, <1>3
  <1>10. issued <= issued' /\ excused \subseteq excused' /\ edited \subseteq edited' /\ ~saving
    BY <1>1, <1>u, Texting DEF SInv
  <1> QED
    BY <1>4, <1>5, <1>6, <1>8, <1>9, <1>10, <1>u, GridStep

-----------------------------------------------------------------------------
(* Writing the file                                                        *)

LEMMA DraftsOf ==
  ASSUME NEW g \in [Slots -> Slot]
  PROVE  /\ Drafts(g) \in [Slots -> Slot]
         /\ \A p \in Slots : Drafts(g)[p] = IF HasData(g[p]) THEN g[p] ELSE Empty
         /\ Empty.id = NoId /\ ~HasData(Empty) /\ ~Empty.queued
  BY DEF Drafts, Slot, Empty, HasData

LEMMA OverwrittenIds ==
  ASSUME SInv, NEW g PROVE Overwritten(g) \subseteq Ids /\ \A i \in Overwritten(g) : i <= issued
  BY Texting DEF Overwritten, IdsOf, SInv, Rows, SoundRows

(* The rows of the grid stay or are cleared, and the file follows.         *)
Marks == \A p \in Slots : \/ grid'[p] = Empty
                          \/ grid'[p].id = grid[p].id /\ grid'[p].text = grid[p].text

LEMMA FlushedRows ==
  ASSUME SInv, grid' \in [Slots -> Slot], file' = Drafts(grid'), Marks, UNCHANGED issued,
         Owed \subseteq Owed', \A i \in Owed' : i <= issued,
         \A p \in Slots : grid'[p].queued /\ grid'[p].id # NoId => grid[p].queued \/ grid'[p].id \in Owed'
  PROVE  Rows'
  <1>1. Empty.id = NoId /\ ~HasData(Empty) /\ ~Empty.queued
    BY DEF Empty, HasData
  <1>2. ASSUME NEW p \in Slots
        PROVE  /\ HasData(grid'[p]) => grid'[p].id # NoId
               /\ grid'[p].id # NoId => grid'[p].id <= issued'
               /\ grid'[p].queued /\ grid'[p].id # NoId => grid'[p].id \in Owed'
    BY <1>1 DEF SInv, Rows, SoundRows, Marks, HasData
  <1>3. \A p, q \in Slots : grid'[p].id = grid'[q].id /\ grid'[p].id # NoId => p = q
    BY <1>1 DEF SInv, Rows, SoundRows, Marks
  <1>4. SoundRows(grid)'
    BY <1>2, <1>3 DEF SoundRows, HasData
  <1>5. \A p \in Slots : file'[p] = grid'[p] \/ file'[p] = Empty
    BY DraftsOf
  <1>6. SoundRows(file)'
    BY <1>1, <1>2, <1>3, <1>5 DEF SoundRows, HasData
  <1>7. \A p \in Slots : file'[p].id # NoId => HasData(file'[p])
    BY DraftsOf
  <1> QED
    BY <1>4, <1>6, <1>7 DEF Rows, HasData

LEMMA FlushedHeld ==
  ASSUME SInv, grid' \in [Slots -> Slot], file' = Drafts(grid'), Marks, UNCHANGED <<loaded, fetched, docs>>,
         excused \subseteq excused', Overwritten(grid') \subseteq excused', promised' \subseteq Ids,
         \A i \in promised' \ excused' : i \in promised \/ i \in IdsOf(Drafts(grid')),
         \A p \in Slots : grid'[p] = Empty /\ grid[p].id # NoId =>
             Stored(grid[p].id) \/ grid[p].id \in excused'
  PROVE  Held'
  <1>1. \A i \in promised' \ excused' : Stored(i) \/ i \in IdsOf(Drafts(grid'))
    <2> SUFFICES ASSUME NEW i \in promised' \ excused', i \in promised, ~Stored(i)
                 PROVE  i \in IdsOf(Drafts(grid'))
      OBVIOUS
    <2>1. CASE loaded
      <3>1. PICK p \in Slots : grid[p].id = i /\ HasData(grid[p]) /\ i # NoId
        BY <2>1, DraftIds DEF SInv, Held
      <3>2. grid'[p].id = i /\ HasData(grid'[p])
        BY <3>1 DEF Marks, HasData
      <3> QED
        BY <3>1, <3>2, DraftsOf DEF IdsOf
    <2>2. CASE ~loaded
      BY <2>2 DEF SInv, Held, PromiseKept, Overwritten
    <2> QED
      BY <2>1, <2>2
  <1> QED
    BY <1>1 DEF SInv, Held, PromiseKept, Stored

LEMMA FlushedAgree ==
  ASSUME SInv, grid' \in [Slots -> Slot], file' = Drafts(grid'), Marks, edited \subseteq edited',
         \A i \in Ids, t \in Texts : Told(i, t)' => Told(i, t) \/ \E q \in Slots : grid[q].id = i /\ grid[q].text = t
  PROVE  Agree'
  <1> SUFFICES ASSUME NEW i \in Ids \ edited', NEW t \in Texts, Told(i, t)', NEW p \in Slots
               PROVE  (grid'[p].id = i => grid'[p].text = t) /\ (file'[p].id = i => file'[p].text = t)
    BY DEF Agree
  <1>1. i # NoId /\ Empty.id = NoId
    BY SavesAssumption DEF Empty, Ids, NoId
  <1>2. grid[p].id = i => grid[p].text = t
    BY <1>1 DEF SInv, Agree, Rows, SoundRows
  <1>3. grid'[p].id = i => grid'[p].text = t
    BY <1>1, <1>2 DEF Marks
  <1> QED
    BY <1>1, <1>3, DraftsOf

LEMMA AutosaveStep == ASSUME SInv, Autosave PROVE SInv'
  <1>1. file' = Drafts(grid') /\ excused' = excused \cup Overwritten(grid')
    BY DEF Autosave, Flush
  <1>u. UNCHANGED <<grid, page, loaded, fetched, issued, armed, online, draining, cancelled, batch, call,
                    replayed, saving, captured, acts, docs, strays, faults, promised, edited, abandoned>>
    BY DEF Autosave, pageVars, drainVars, saveVars, serverVars
  <1>2. grid' \in [Slots -> Slot] /\ file' \in [Slots -> Slot] /\ Marks
    BY <1>1, <1>u, DraftsOf DEF SInv, SavesTypeOK, Marks
  <1>3. excused' \subseteq Ids /\ \A i \in Owed' : i <= issued
    BY <1>1, <1>u, OverwrittenIds DEF SInv, SavesTypeOK, Rows, Owed
  <1>4. SavesTypeOK'
    BY <1>2, <1>3, <1>u DEF SInv, SavesTypeOK
  <1>5. Owed \subseteq Owed'
    BY <1>1, <1>u DEF Owed
  <1>6. Rows'
    BY <1>1, <1>2, <1>3, <1>5, <1>u, FlushedRows
  <1>7. Held'
    <2>1. \A p \in Slots : grid'[p] = Empty => grid[p].id = NoId
      BY <1>u DEF Empty
    <2> QED
      BY <1>1, <1>2, <1>4, <1>u, <2>1, FlushedHeld DEF SavesTypeOK
  <1>8. Agree'
    BY <1>1, <1>2, <1>u, FlushedAgree DEF Told
  <1>9. Captures' /\ Sending' /\ Alone'
    BY <1>5, <1>u, SendingKept, AloneKept DEF SInv, Captures
  <1> QED
    BY <1>4, <1>6, <1>7, <1>8, <1>9 DEF SInv

-----------------------------------------------------------------------------
(* Save                                                                    *)

LEMMA OfflineSaveStep == ASSUME SInv, OfflineSave PROVE SInv'
  <1> PICK typed : typed = {p \in Slots : HasData(grid[p])}
    OBVIOUS
  <1>1. /\ ~saving /\ acts < MaxActs /\ acts' = acts + 1
        /\ grid' = [p \in Slots |-> [grid[p] EXCEPT !.queued = @ \/ p \in typed]]
        /\ file' = Drafts(grid')
        /\ promised' = promised \cup {grid[p].id : p \in typed}
        /\ excused' = excused \cup Overwritten(grid')
    BY DEF OfflineSave, Flush, AtTheGrid, Act
  <1>u. UNCHANGED <<page, loaded, fetched, issued, armed, online, draining, cancelled, batch, call,
                    replayed, saving, captured, docs, strays, faults, edited, abandoned>>
    BY DEF OfflineSave, pageVars, drainVars, serverVars
  <1>2. \A p \in Slots : /\ grid'[p] \in Slot /\ grid'[p].id = grid[p].id /\ grid'[p].text = grid[p].text
                         /\ grid'[p].queued => grid[p].queued \/ p \in typed
    <2> TAKE p \in Slots
    <2>1. PICK b \in BOOLEAN : b = (grid[p].queued \/ p \in typed)
      OBVIOUS
    <2>2. grid'[p] = [grid[p] EXCEPT !.queued = b]
      BY <1>1, <2>1
    <2> QED
      BY <2>1, <2>2, Texting DEF Slot, SInv
  <1>3. grid' \in [Slots -> Slot] /\ file' \in [Slots -> Slot] /\ Marks
    <2>1. grid' \in [Slots -> Slot]
      BY <1>1, <1>2
    <2> QED
      BY <1>1, <1>2, <2>1, DraftsOf DEF Marks
  <1>4. \A p \in typed : grid[p].id \in Ids /\ grid[p].id <= issued
    BY Texting DEF SInv, Rows, SoundRows
  <1>5. promised' \subseteq Ids /\ excused' \subseteq Ids /\ (\A i \in Owed' : i <= issued) /\ Owed \subseteq Owed'
    BY <1>1, <1>4, OverwrittenIds DEF SInv, SavesTypeOK, Rows, Owed
  <1>6. SavesTypeOK'
    <2>1. acts' \in 0..MaxActs
      BY <1>1, SavesAssumption DEF SInv, SavesTypeOK
    <2> QED
      BY <1>3, <1>5, <1>u, <2>1 DEF SInv, SavesTypeOK
  <1>7. Rows'
    <2>1. \A p \in Slots : grid'[p].queued /\ grid'[p].id # NoId => grid[p].queued \/ grid'[p].id \in Owed'
      BY <1>1, <1>2 DEF Owed
    <2> QED
      BY <1>1, <1>3, <1>5, <1>u, <2>1, FlushedRows
  <1>8. Held'
    <2>1. \A p \in Slots : grid'[p] = Empty => grid[p].id = NoId
      BY <1>2 DEF Empty
    <2>2. \A p \in typed : grid[p].id \in IdsOf(Drafts(grid'))
      BY <1>2, <1>3, <1>4, DraftsOf, SavesAssumption DEF IdsOf, HasData, Ids, NoId
    <2>3. \A i \in promised' \ excused' : i \in promised \/ i \in IdsOf(Drafts(grid'))
      BY <1>1, <2>2
    <2> QED
      BY <1>1, <1>3, <1>5, <1>u, <2>1, <2>3, FlushedHeld
  <1>9. Agree'
    BY <1>1, <1>3, <1>u, FlushedAgree DEF Told
  <1>10. Captures' /\ Sending' /\ Alone'
    BY <1>1, <1>5, <1>u, SendingKept, AloneKept DEF SInv, Captures
  <1> QED
    BY <1>6, <1>7, <1>8, <1>9, <1>10 DEF SInv

(* What is neither the grid, the file, a request nor a document.           *)
LEMMA RestKept ==
  ASSUME SInv, UNCHANGED <<grid, file, loaded, fetched, issued, batch, call, docs, strays, promised,
                           excused, edited, abandoned>>
  PROVE  Rows' /\ Held' /\ Sending' /\ Alone' /\ Agree'
  <1>1. Rows'
    BY DEF SInv, Rows, SoundRows, HasData, Owed
  <1>2. Held'
    BY DEF SInv, Held, PromiseKept, Stored, IdsOf, Drafts, HasData
  <1>3. Sending' /\ Alone'
    BY SendingKept, AloneKept DEF Owed
  <1>4. Agree'
    BY DEF SInv, Agree, Told
  <1> QED
    BY <1>1, <1>2, <1>3, <1>4

LEMMA BeginSaveStep == ASSUME SInv, BeginSave PROVE SInv'
  <1>1. /\ saving' = TRUE /\ page = "open" /\ acts < MaxActs /\ acts' = acts + 1
        /\ captured' = {[pos |-> p, id |-> grid[p].id] : p \in {q \in Slots : HasData(grid[q])}}
    BY DEF BeginSave, AtTheGrid, Act
  <1>u. UNCHANGED <<grid, file, page, loaded, fetched, issued, armed, online, draining, cancelled, batch,
                    call, replayed, docs, strays, faults, promised, excused, edited, abandoned>>
    BY DEF BeginSave, pageVars, drainVars, serverVars, historyVars
  <1>2. \A q \in Slots : HasData(grid[q]) => /\ grid[q].id \in Ids /\ grid[q].id <= issued
                                             /\ \A p \in Slots : grid[p].id = grid[q].id => p = q
    BY Texting DEF SInv, Rows, SoundRows
  <1>3. SavesTypeOK'
    <2>1. acts' \in 0..MaxActs
      BY <1>1, SavesAssumption DEF SInv, SavesTypeOK
    <2>2. captured' \subseteq [pos : Int, id : Ids]
      BY <1>1, <1>2 DEF Slots
    <2> QED
      BY <1>1, <1>u, <2>1, <2>2 DEF SInv, SavesTypeOK
  <1>4. Captures'
    <2>1. \A c \in captured' : \E q \in Slots : HasData(grid[q]) /\ c.id = grid[q].id
      BY <1>1
    <2>2. \A c \in captured' : c.id <= issued /\ \A p \in Slots : grid[p].id = c.id => HasData(grid[p])
      BY <1>2, <2>1
    <2> QED
      BY <1>1, <1>u, <2>2 DEF Captures, HasData
  <1> QED
    BY <1>3, <1>4, <1>u, RestKept DEF SInv

(* A captured row that is where it was captured, or what Save mistook.     *)
LEMMA MistakenFor ==
  ASSUME SInv, NEW c \in captured
  PROVE  /\ c.id \in Ids /\ c.id <= issued
         /\ Mistaken(c) \subseteq Ids /\ \A i \in Mistaken(c) : i <= issued
         /\ c.id \in Mistaken(c) \/ (c.pos \in Slots /\ grid[c.pos].id = c.id /\ HasData(grid[c.pos]))
         /\ c.pos \in Slots => \/ grid[c.pos].id = c.id
                               \/ grid[c.pos].id = NoId
                               \/ grid[c.pos].id \in Mistaken(c)
  <1>1. c.id \in Ids /\ c.id <= issued /\ c.id # NoId
    BY Texting DEF SInv, SavesTypeOK, Captures
  <1>2. c.pos \in Slots => grid[c.pos].id \in Ids \cup {NoId} /\ (grid[c.pos].id # NoId => grid[c.pos].id <= issued)
    BY Texting DEF SInv, Rows, SoundRows
  <1> QED
    BY <1>1, <1>2 DEF Mistaken, SInv, Captures

LEMMA EndSaveStep ==
  ASSUME SInv, NEW deferred \in SUBSET captured, EndSave(deferred) PROVE SInv'
  <1> DEFINE at(p, cs) == \E c \in cs : c.pos = p
  <1> PICK queue : queue = captured \ deferred
    OBVIOUS
  <1> PICK lost : lost = UNION {Mistaken(c) : c \in captured}
    OBVIOUS
  <1>1. /\ saving
        /\ grid' = [p \in Slots |->
                      [grid[p] EXCEPT !.queued = at(p, queue) \/ (@ /\ ~at(p, deferred))]]
        /\ file' = Drafts(grid')
        /\ promised' = promised \cup {c.id : c \in queue}
        /\ excused' = excused \cup Overwritten(grid') \cup {c.id : c \in deferred} \cup lost
        /\ saving' = FALSE /\ captured' = {}
    BY DEF EndSave, Flush
  <1>u. UNCHANGED <<page, loaded, fetched, issued, online, draining, cancelled, batch, call,
                    replayed, acts, docs, strays, faults, edited, abandoned>>
    BY DEF EndSave, pageVars, drainVars, serverVars
  <1>a. armed' \in BOOLEAN
    BY DEF EndSave, Schedule, SInv, SavesTypeOK
  <1>c. /\ \A c \in captured : Mistaken(c) \subseteq excused'
        /\ \A c \in queue : c \in captured /\ c.id \in promised'
        /\ \A i \in promised' : i \in promised \/ \E c \in queue : i = c.id
    BY <1>1
  <1>2. \A p \in Slots : /\ grid'[p] \in Slot /\ grid'[p].id = grid[p].id /\ grid'[p].text = grid[p].text
                         /\ grid'[p].queued => grid[p].queued \/ at(p, queue)
    <2> TAKE p \in Slots
    <2>1. PICK b \in BOOLEAN : b = (at(p, queue) \/ (grid[p].queued /\ ~at(p, deferred)))
      OBVIOUS
    <2>2. grid'[p] = [grid[p] EXCEPT !.queued = b]
      BY <1>1, <2>1
    <2>3. b => grid[p].queued \/ at(p, queue)
      BY <2>1
    <2> QED
      BY <2>2, <2>3, Texting DEF Slot, SInv
  <1> HIDE DEF at
  <1>3. grid' \in [Slots -> Slot] /\ file' \in [Slots -> Slot] /\ Marks
    <2>1. grid' = [p \in Slots |-> grid'[p]]
      BY <1>1
    <2>2. grid' \in [Slots -> Slot]
      BY <1>2, <2>1
    <2> QED
      BY <1>1, <1>2, <2>2, DraftsOf DEF Marks
  <1>4. \A c \in captured : c.id \in Ids /\ c.id <= issued
    BY MistakenFor
  <1>b. lost \subseteq Ids /\ \A i \in lost : i <= issued
    BY MistakenFor
  <1>5. promised' \subseteq Ids /\ excused' \subseteq Ids /\ (\A i \in Owed' : i <= issued) /\ Owed \subseteq Owed'
    <2>1. {c.id : c \in queue} \subseteq Ids /\ {c.id : c \in deferred} \subseteq Ids
      BY <1>4
    <2>2. \A i \in {c.id : c \in queue} \cup {c.id : c \in deferred} : i <= issued
      BY <1>4
    <2> QED
      BY <1>1, <1>b, <2>1, <2>2, OverwrittenIds DEF SInv, SavesTypeOK, Rows, Owed
  <1>6. SavesTypeOK'
    BY <1>1, <1>3, <1>5, <1>a, <1>u DEF SInv, SavesTypeOK
  <1>7. Rows'
    <2>1. ASSUME NEW p \in Slots, grid'[p].queued, grid'[p].id # NoId, ~grid[p].queued
          PROVE  grid'[p].id \in Owed'
      <3>1. PICK c \in queue : c.pos = p
        BY <1>2, <2>1 DEF at
      <3>2. grid[p].id = c.id \/ grid[p].id \in Mistaken(c)
        BY <1>2, <1>c, <2>1, <3>1, MistakenFor
      <3> QED
        BY <1>2, <1>c, <3>1, <3>2 DEF Owed
    <2> QED
      BY <1>1, <1>3, <1>5, <1>u, <2>1, FlushedRows
  <1>8. Held'
    <2>1. \A p \in Slots : grid'[p] = Empty => grid[p].id = NoId
      BY <1>2 DEF Empty
    <2>2. ASSUME NEW c \in queue, c.id \notin excused' PROVE c.id \in IdsOf(Drafts(grid'))
      <3>1. c.pos \in Slots /\ grid[c.pos].id = c.id /\ HasData(grid[c.pos])
        BY <1>c, <2>2, MistakenFor
      <3>2. grid'[c.pos].id = c.id /\ HasData(grid'[c.pos]) /\ c.id # NoId
        BY <1>2, <1>4, <3>1, Texting DEF HasData, SInv
      <3>3. Drafts(grid')[c.pos].id = c.id
        BY <1>3, <3>1, <3>2, DraftsOf
      <3> QED
        BY <3>1, <3>2, <3>3 DEF IdsOf
    <2>3. \A i \in promised' \ excused' : i \in promised \/ i \in IdsOf(Drafts(grid'))
      BY <1>c, <2>2
    <2> QED
      BY <1>1, <1>3, <1>5, <1>u, <2>1, <2>3, FlushedHeld
  <1>9. Agree'
    BY <1>1, <1>3, <1>u, FlushedAgree DEF Told
  <1>10. Captures' /\ Sending' /\ Alone'
    BY <1>1, <1>5, <1>u, SendingKept, AloneKept DEF Captures
  <1> QED
    BY <1>6, <1>7, <1>8, <1>9, <1>10 DEF SInv

LEMMA AbortSaveStep == ASSUME SInv, AbortSave PROVE SInv'
  <1>1. /\ file' = Drafts(grid') /\ excused' = excused \cup Overwritten(grid')
        /\ saving' = FALSE /\ captured' = {}
    BY DEF AbortSave, Flush
  <1>u. UNCHANGED <<grid, page, loaded, fetched, issued, armed, online, draining, cancelled, batch, call,
                    replayed, acts, docs, strays, faults, promised, edited, abandoned>>
    BY DEF AbortSave, pageVars, drainVars, serverVars
  <1>2. grid' \in [Slots -> Slot] /\ file' \in [Slots -> Slot] /\ Marks
    BY <1>1, <1>u, DraftsOf DEF SInv, SavesTypeOK, Marks
  <1>3. excused' \subseteq Ids /\ \A i \in Owed' : i <= issued
    BY <1>1, <1>u, OverwrittenIds DEF SInv, SavesTypeOK, Rows, Owed
  <1>4. SavesTypeOK'
    BY <1>1, <1>2, <1>3, <1>u DEF SInv, SavesTypeOK
  <1>5. Owed \subseteq Owed'
    BY <1>1, <1>u DEF Owed
  <1>6. Rows'
    BY <1>1, <1>2, <1>3, <1>5, <1>u, FlushedRows
  <1>7. Held'
    <2>1. \A p \in Slots : grid'[p] = Empty => grid[p].id = NoId
      BY <1>u DEF Empty
    <2> QED
      BY <1>1, <1>2, <1>4, <1>u, <2>1, FlushedHeld DEF SavesTypeOK
  <1>8. Agree'
    BY <1>1, <1>2, <1>u, FlushedAgree DEF Told
  <1>9. Captures' /\ Sending' /\ Alone'
    BY <1>1, <1>5, <1>u, SendingKept, AloneKept DEF Captures
  <1> QED
    BY <1>4, <1>6, <1>7, <1>8, <1>9 DEF SInv

-----------------------------------------------------------------------------
(* The drain                                                               *)

(* A request for rows of the batch.                                        *)
LEMMA RequestOf ==
  ASSUME NEW b, NEW ps \in SUBSET Slots,
         \A p \in ps : b[p].id \in Ids /\ b[p].text \in Texts
  PROVE  LET r == Request(b, ps) IN
         /\ r \in Handlers /\ r.phase = "sent" /\ r.found = {} /\ r.refused = {}
         /\ \A x \in r.items : \E p \in Slots : b[p].id = x.id /\ b[p].text = x.text
  <1>1. {[id |-> b[p].id, text |-> b[p].text] : p \in ps} \in SUBSET [id : Ids, text : Texts]
    OBVIOUS
  <1> QED
    BY <1>1 DEF Request, Handlers

LEMMA NoCallTyped == NoCall \in Handlers /\ NoCall.items = {} /\ NoCall.phase = "none" /\ NoCall.found = {}
  BY DEF NoCall, Handlers

LEMMA StartDrainStep ==
  ASSUME SInv, StartDrain, armed' \in BOOLEAN,
         UNCHANGED <<grid, pageVars, issued, online, saveVars, serverVars, faults, promised, edited, abandoned>>
  PROVE  SInv'
  <1>1. /\ page = "open" /\ ~saving
        /\ draining' = TRUE /\ cancelled' = FALSE /\ replayed' = FALSE
        /\ batch' = [p \in Slots |-> IF p \in Waiting(grid)
                                       THEN [id |-> grid[p].id, text |-> grid[p].text, out |-> "todo"]
                                       ELSE NotTaken]
        /\ call' = Request(batch', NextChunk(batch'))
        /\ file' = Drafts(grid') /\ excused' = excused \cup Overwritten(grid')
    BY DEF StartDrain, Flush
  <1>u. UNCHANGED <<grid, page, loaded, fetched, issued, online, saving, captured, acts, docs, strays,
                    faults, promised, edited, abandoned>>
    BY DEF pageVars, saveVars, serverVars
  <1>2. grid' \in [Slots -> Slot] /\ file' \in [Slots -> Slot] /\ Marks
    BY <1>1, <1>u, DraftsOf DEF SInv, SavesTypeOK, Marks
  <1>3. excused' \subseteq Ids /\ \A i \in Owed' : i <= issued
    BY <1>1, <1>u, OverwrittenIds DEF SInv, SavesTypeOK, Rows, Owed
  <1>4. Owed \subseteq Owed'
    BY <1>1, <1>u DEF Owed
  <1>5. \A p \in Waiting(grid) : p \in Slots /\ grid[p].id \in Ids /\ grid[p].text \in Texts /\ grid[p].id \in Owed
    BY Texting DEF Waiting, SInv, Rows, SoundRows, HasData, Slot
  <1>6. \A p \in Slots : \/ /\ p \in Waiting(grid) /\ batch'[p].id = grid[p].id
                            /\ batch'[p].text = grid[p].text /\ batch'[p].out = "todo"
                         \/ batch'[p] = NotTaken
    BY <1>1
  <1>7. /\ NotTaken.id = NoId /\ NotTaken.out = "none"
        /\ batch' \in [Slots -> [id : Ids \cup {NoId}, text : Texts \cup {Blank},
                                 out : {"none", "todo", "saved", "failed"}]]
    BY <1>1, <1>5 DEF NotTaken
  <1>8. \A p \in NextChunk(batch') : p \in Slots /\ batch'[p].id \in Ids /\ batch'[p].text \in Texts
    BY <1>5, <1>6, <1>7 DEF NextChunk, Todo
  <1>9. /\ call' \in Handlers /\ call'.phase = "sent" /\ call'.found = {}
        /\ \A x \in call'.items : \E p \in Slots : batch'[p].id = x.id /\ batch'[p].text = x.text
    BY <1>1, <1>8, RequestOf
  <1>10. SavesTypeOK'
    BY <1>1, <1>2, <1>3, <1>7, <1>9, <1>u DEF SInv, SavesTypeOK
  <1>11. Rows'
    BY <1>1, <1>2, <1>3, <1>4, <1>u, FlushedRows
  <1>12. Held'
    <2>1. \A p \in Slots : grid'[p] = Empty => grid[p].id = NoId
      BY <1>u DEF Empty
    <2> QED
      BY <1>1, <1>2, <1>10, <1>u, <2>1, FlushedHeld DEF SavesTypeOK
  <1>13. Agree'
    <2>1. ASSUME NEW i \in Ids, NEW t \in Texts, Told(i, t)'
          PROVE  Told(i, t) \/ \E q \in Slots : grid[q].id = i /\ grid[q].text = t
      <3>1. NoId \notin Ids
        BY Texting DEF SInv
      <3> QED
        BY <1>6, <1>7, <1>u, <2>1, <3>1 DEF Told
    <2> QED
      BY <1>1, <1>2, <1>u, <2>1, FlushedAgree
  <1>14. Sending'
    <2>1. \A p \in Slots : /\ batch'[p].out = "none" => batch'[p].id = NoId
                           /\ batch'[p].out # "none" => batch'[p].id \in Owed' /\ batch'[p].text \in Texts
                           /\ batch'[p].out # "saved"
      BY <1>4, <1>5, <1>6, <1>7
    <2> QED
      BY <1>4, <1>9, <1>u, <2>1 DEF SInv, Sending, Stored, ItemIds
  <1>15. Captures' /\ Alone'
    BY <1>9, <1>u DEF SInv, Captures, Alone, OneDocPerRow, Stored, ItemIds
  <1> QED
    BY <1>10, <1>11, <1>12, <1>13, <1>14, <1>15 DEF SInv

LEMMA TimerFiresStep == ASSUME SInv, TimerFires PROVE SInv'
  <1>1. CASE StartDrain
    BY <1>1, StartDrainStep DEF TimerFires
  <1>2. CASE UNCHANGED <<file, drainVars, excused>>
    <2>u. /\ UNCHANGED <<grid, file, page, loaded, fetched, issued, online, draining, cancelled, batch, call, replayed,
                         saving, captured, acts, docs, strays, faults, promised, excused, edited, abandoned>>
          /\ armed' = FALSE
      BY <1>2 DEF TimerFires, pageVars, drainVars, saveVars, serverVars
    <2>1. SavesTypeOK' /\ Captures'
      BY <2>u DEF SInv, SavesTypeOK, Captures, HasData
    <2> QED
      BY <2>u, <2>1, RestKept DEF SInv
  <1> QED
    BY <1>1, <1>2 DEF TimerFires

(* The drain takes over the outcome of its request: no row changes what it *)
(* said, and saved are rows that the server has.                           *)
Judged(b) ==
  /\ b \in [Slots -> [id : Ids \cup {NoId}, text : Texts \cup {Blank},
                      out : {"none", "todo", "saved", "failed"}]]
  /\ \A p \in Slots : /\ b[p].id = batch[p].id /\ b[p].text = batch[p].text
                      /\ b[p].out = "none" <=> batch[p].out = "none"
                      /\ b[p].out = "saved" => Stored(b[p].id)

LEMMA JudgedOutcomes ==
  ASSUME SInv, NEW refused, (call.phase = "done" /\ refused = call.refused) \/ refused = ItemIds(call)
  PROVE  Judged(Outcomes(refused))
  <1> PICK b : b = Outcomes(refused)
    OBVIOUS
  <1>1. \A p \in Slots : batch[p] \in [id : Ids \cup {NoId}, text : Texts \cup {Blank},
                                       out : {"none", "todo", "saved", "failed"}]
    BY DEF SInv, SavesTypeOK
  <1>2. ASSUME NEW p \in Slots
        PROVE  /\ b[p] \in [id : Ids \cup {NoId}, text : Texts \cup {Blank},
                            out : {"none", "todo", "saved", "failed"}]
               /\ b[p].id = batch[p].id /\ b[p].text = batch[p].text
               /\ b[p].out = "none" <=> batch[p].out = "none"
               /\ b[p].out = "saved" => Stored(b[p].id)
    <2>1. CASE b[p] = batch[p]
      BY <1>1, <2>1 DEF SInv, Sending
    <2>2. CASE batch[p].out = "todo" /\ batch[p].id \in ItemIds(call)
      <3>1. PICK o \in {"failed", "saved"} : /\ o = IF batch[p].id \in refused THEN "failed" ELSE "saved"
                                             /\ b[p] = [batch[p] EXCEPT !.out = o]
        BY <2>2 DEF Outcomes
      <3>2. o = "saved" => Stored(batch[p].id)
        BY <2>2, <3>1 DEF SInv, Sending
      <3> QED
        BY <1>1, <2>2, <3>1, <3>2
    <2> QED
      BY <2>1, <2>2 DEF Outcomes
  <1>3. b = [p \in Slots |-> b[p]]
    BY DEF Outcomes
  <1> QED
    BY <1>2, <1>3 DEF Judged

(* The end of a drain.  A row that is cleared is the stored one, or        *)
(* another that is excused.                                                *)
LEMMA FinishStep ==
  ASSUME SInv, NEW b, Judged(b), FinishDrain(b), strays' \subseteq Handlers, abandoned' \subseteq Ids,
         Alone', \A r \in strays' : ItemIds(r) \subseteq Owed,
         \A i \in Ids, t \in Texts : Told(i, t)' => Told(i, t), faults' \in 0..MaxFaults,
         UNCHANGED <<pageVars, issued, online, saving, acts, docs, promised, edited>>
  PROVE  SInv'
  <1> PICK saved : saved = {p \in Slots : b[p].out = "saved"}
    OBVIOUS
  <1> PICK kept : kept = {p \in Slots : b[p].out \in {"failed", "todo"}}
    OBVIOUS
  <1> PICK victims : victims = {p \in saved : grid[p].id # b[p].id} \cup {p \in kept : ~grid[p].queued}
    OBVIOUS
  <1> PICK cleared : cleared = {grid[p].id : p \in victims} \ {NoId}
    OBVIOUS
  <1>1. /\ grid' = [p \in Slots |-> IF p \in saved THEN Empty
                                    ELSE [grid[p] EXCEPT !.queued = @ \/ p \in kept]]
        /\ file' = Drafts(grid')
        /\ captured' = {[c EXCEPT !.pos = @ - Cardinality(saved)] : c \in captured}
        /\ excused' = excused \cup Overwritten(grid') \cup cleared
        /\ draining' = FALSE /\ cancelled' = FALSE
        /\ batch' = NoBatch /\ call' = NoCall /\ replayed' = FALSE
    BY DEF FinishDrain, Flush
  <1>u. UNCHANGED <<page, loaded, fetched, issued, online, saving, acts, docs, promised, edited>>
    BY DEF pageVars
  <1>a. armed' \in BOOLEAN
    BY DEF FinishDrain, Schedule, SInv, SavesTypeOK
  <1>2. ASSUME NEW p \in Slots \ saved
        PROVE  /\ grid'[p] \in Slot /\ grid'[p].id = grid[p].id /\ grid'[p].text = grid[p].text
               /\ grid'[p].queued => grid[p].queued \/ p \in kept
    <2>1. PICK q \in BOOLEAN : q = (grid[p].queued \/ p \in kept)
      OBVIOUS
    <2>2. grid'[p] = [grid[p] EXCEPT !.queued = q]
      BY <1>1, <2>1
    <2> QED
      BY <2>1, <2>2, Texting DEF Slot, SInv
  <1>3. \A p \in saved : grid'[p] = Empty
    BY <1>1
  <1>4. grid' \in [Slots -> Slot] /\ file' \in [Slots -> Slot] /\ Marks
    <2>1. Empty \in Slot
      BY DEF Empty, Slot
    <2>2. grid' = [p \in Slots |-> grid'[p]]
      BY <1>1
    <2>3. \A p \in Slots : grid'[p] \in Slot
      BY <1>2, <1>3, <2>1
    <2>4. grid' \in [Slots -> Slot]
      BY <2>2, <2>3
    <2> QED
      BY <1>1, <1>2, <1>3, <2>4, DraftsOf DEF Marks
  <1>5. cleared \subseteq Ids /\ \A i \in cleared : i <= issued
    BY Texting DEF SInv, Rows, SoundRows
  <1>6. excused' \subseteq Ids /\ (\A i \in Owed' : i <= issued) /\ Owed \subseteq Owed' /\ cleared \subseteq Owed'
    BY <1>1, <1>5, <1>u, OverwrittenIds DEF SInv, SavesTypeOK, Rows, Owed
  <1>7. captured' \subseteq [pos : Int, id : Ids] /\ \A d \in captured' : \E c \in captured : d.id = c.id
    <2>1. Cardinality(saved) \in Nat
      <3>1. saved \subseteq 1..MaxSlots /\ MaxSlots \in Int
        BY SavesAssumption DEF Slots
      <3>2. IsFiniteSet(1..MaxSlots)
        BY <3>1, FS_Interval
      <3>3. IsFiniteSet(saved)
        BY <3>1, <3>2, FS_Subset
      <3> QED
        BY <3>3, FS_CardinalityType
    <2>2. \A c \in captured : /\ [c EXCEPT !.pos = @ - Cardinality(saved)] \in [pos : Int, id : Ids]
                              /\ [c EXCEPT !.pos = @ - Cardinality(saved)].id = c.id
      BY <2>1 DEF SInv, SavesTypeOK
    <2> QED
      BY <1>1, <2>2
  <1>8. SavesTypeOK'
    <2>1. NoBatch \in [Slots -> [id : Ids \cup {NoId}, text : Texts \cup {Blank},
                                 out : {"none", "todo", "saved", "failed"}]]
      BY DEF NoBatch, NotTaken
    <2>2. call' \in Handlers /\ draining' \in BOOLEAN /\ cancelled' \in BOOLEAN /\ replayed' \in BOOLEAN
      BY <1>1, NoCallTyped
    <2>3. batch' = NoBatch
      BY <1>1
    <2> QED
      BY <1>4, <1>6, <1>7, <1>a, <1>u, <2>1, <2>2, <2>3 DEF SInv, SavesTypeOK
  <1>9. Rows'
    <2>1. ASSUME NEW p \in Slots, grid'[p].queued, grid'[p].id # NoId, ~grid[p].queued
          PROVE  grid'[p].id \in Owed'
      <3>1. p \notin saved
        BY <1>3, <2>1 DEF Empty
      <3>2. p \in victims /\ grid'[p].id = grid[p].id
        BY <1>2, <2>1, <3>1
      <3> QED
        BY <1>6, <2>1, <3>2
    <2>2. file' = Drafts(grid')
      BY <1>1
    <2> QED
      BY <1>4, <1>6, <1>u, <2>1, <2>2, FlushedRows
  <1>10. Held'
    <2>1. ASSUME NEW p \in Slots, grid'[p] = Empty, grid[p].id # NoId
          PROVE  Stored(grid[p].id) \/ grid[p].id \in excused'
      <3>1. p \in saved
        BY <1>2, <2>1 DEF Empty
      <3>2. CASE grid[p].id = b[p].id
        BY <3>1, <3>2 DEF Judged
      <3>3. CASE grid[p].id # b[p].id
        <4>1. grid[p].id \in cleared
          BY <2>1, <3>1, <3>3
        <4> QED
          BY <1>1, <4>1
      <3> QED
        BY <3>2, <3>3
    <2>2. /\ file' = Drafts(grid') /\ excused \subseteq excused' /\ Overwritten(grid') \subseteq excused'
          /\ promised' \subseteq Ids /\ \A i \in promised' \ excused' : i \in promised
      BY <1>1, <1>u DEF SInv, SavesTypeOK
    <2> QED
      BY <1>4, <1>u, <2>1, <2>2, FlushedHeld
  <1>11. Agree'
    <2>1. file' = Drafts(grid')
      BY <1>1
    <2> QED
      BY <1>4, <1>u, <2>1, FlushedAgree
  <1>12. Captures'
    <2>1. \A d \in captured' : /\ d.id <= issued /\ d.id # NoId
                               /\ \A p \in Slots : grid[p].id = d.id => HasData(grid[p])
      BY <1>7, Texting DEF SInv, Captures, SavesTypeOK
    <2>2. \A d \in captured', p \in Slots : grid'[p].id = d.id => HasData(grid'[p])
      BY <1>4, <2>1 DEF Marks, HasData, Empty
    <2>3. ~saving => captured' = {}
      BY <1>7 DEF SInv, Captures
    <2> QED
      BY <1>u, <2>1, <2>2, <2>3 DEF SInv, Captures, HasData
  <1>13. Sending'
    <2>1. \A p \in Slots : batch'[p].out = "none" /\ batch'[p].id = NoId
      BY <1>1 DEF NoBatch, NotTaken
    <2>2. call'.items = {} /\ call'.phase = "none" /\ call'.found = {}
      BY <1>1, NoCallTyped
    <2> QED
      BY <1>6, <1>u, <2>1, <2>2 DEF SInv, Sending, Stored
  <1> QED
    BY <1>8, <1>9, <1>10, <1>11, <1>12, <1>13 DEF SInv

LEMMA GridKept ==
  ASSUME SInv, UNCHANGED <<grid, file, loaded, fetched, issued, promised, excused>>,
         \A i \in Ids : Stored(i) => Stored(i)'
  PROVE  Rows' /\ Held'
  <1>1. Rows'
    BY DEF SInv, Rows, SoundRows, HasData, Owed
  <1>2. \A i \in promised : i \in Ids
    BY DEF SInv, SavesTypeOK
  <1> QED
    BY <1>1, <1>2 DEF SInv, Held, PromiseKept, IdsOf, Drafts, HasData

(* A request that nobody waits for any more may run on.                    *)
GaveUp ==
  /\ strays' \subseteq strays \cup {call}
  /\ abandoned' \subseteq Ids /\ abandoned \subseteq abandoned'
  /\ call \in strays' \ strays => ItemIds(call) \subseteq abandoned'
  /\ faults' \in 0..MaxFaults

LEMMA GiveUpIs == ASSUME SInv, GiveUp PROVE GaveUp
  <1>1. faults \in 0..MaxFaults /\ abandoned \subseteq Ids /\ ItemIds(call) \subseteq Ids
    BY DEF SInv, SavesTypeOK, Handlers, ItemIds
  <1>2. faults' \in 0..MaxFaults
    BY <1>1, SavesAssumption DEF GiveUp, Fault
  <1> QED
    BY <1>1, <1>2 DEF GiveUp, GaveUp

LEMMA StraysAfter ==
  ASSUME SInv, GaveUp, UNCHANGED docs
  PROVE  /\ strays' \subseteq Handlers
         /\ \A r \in strays' : ItemIds(r) \subseteq Owed /\ ItemIds(r) \subseteq abandoned'
         /\ OneDocPerRow'
         /\ \A r \in strays' : \A x \in r.items : Told(x.id, x.text)
  <1>1. call \in Handlers /\ strays \subseteq Handlers
    BY DEF SInv, SavesTypeOK
  <1>2. ItemIds(call) \subseteq Owed
    <2> SUFFICES ASSUME NEW x \in call.items PROVE x.id \in Owed
      BY DEF ItemIds
    <2>1. PICK p \in Slots : batch[p].id = x.id
      BY DEF SInv, Sending
    <2>2. x.id \in Ids
      BY <1>1 DEF Handlers
    <2> QED
      BY <2>1, <2>2, Texting DEF SInv, Sending
  <1>3. \A r \in strays' : ItemIds(r) \subseteq Owed /\ ItemIds(r) \subseteq abandoned'
    BY <1>2 DEF GaveUp, SInv, Sending, Alone
  <1>4. OneDocPerRow'
    BY DEF GaveUp, SInv, Alone, OneDocPerRow
  <1>5. \A r \in strays' : \A x \in r.items : Told(x.id, x.text)
    BY DEF GaveUp, SInv, Sending, Told
  <1> QED
    BY <1>1, <1>3, <1>4, <1>5 DEF GaveUp

LEMMA ProceedStep ==
  ASSUME SInv, NEW b, Judged(b), Proceed(b), GaveUp,
         UNCHANGED <<pageVars, issued, online, saving, acts, docs, promised, edited>>
  PROVE  SInv'
  <1>1. NoId \notin Ids /\ NoCall.items = {} /\ NoCall.phase = "none"
    BY Texting, NoCallTyped DEF SInv
  <1>2. CASE FinishDrain(b)
    <2>1. batch' = NoBatch /\ call' = NoCall
      BY <1>2 DEF FinishDrain
    <2>2. Alone'
      BY <1>1, <2>1, StraysAfter DEF Alone
    <2>3. \A i \in Ids, t \in Texts : Told(i, t)' => Told(i, t)
      <3>1. \A p \in Slots : batch'[p].id = NoId
        BY <2>1 DEF NoBatch, NotTaken
      <3> QED
        BY <1>1, <3>1, StraysAfter DEF Told
    <2> QED
      BY <1>2, <2>2, <2>3, StraysAfter, FinishStep DEF GaveUp
  <1>3. CASE /\ batch' = b /\ call' = Request(b, NextChunk(b)) /\ replayed' = FALSE
             /\ UNCHANGED <<grid, file, armed, draining, cancelled, captured, excused>>
    <2>u. UNCHANGED <<grid, file, page, loaded, fetched, issued, armed, online, draining, cancelled, saving,
                      captured, acts, docs, promised, excused, edited>>
      BY <1>3 DEF pageVars
    <2>1. \A p \in NextChunk(b) : p \in Slots /\ b[p].id \in Ids /\ b[p].text \in Texts
      BY Texting DEF NextChunk, Todo, Judged, SInv, Sending, Owed
    <2>2. /\ call' \in Handlers /\ call'.phase = "sent" /\ call'.found = {}
          /\ \A x \in call'.items : \E p \in Slots : b[p].id = x.id /\ b[p].text = x.text
      BY <1>3, <2>1, RequestOf
    <2>3. SavesTypeOK'
      BY <1>3, <2>u, <2>2, StraysAfter DEF SInv, SavesTypeOK, GaveUp, Judged
    <2>4. Rows' /\ Held'
      BY <2>u, GridKept DEF Stored
    <2>5. Captures'
      BY <2>u DEF SInv, Captures, HasData
    <2>6. Sending'
      <3>1. \A p \in Slots : /\ batch'[p].out = "none" => batch'[p].id = NoId
                             /\ batch'[p].out # "none" => batch'[p].id \in Owed /\ batch'[p].text \in Texts
                             /\ batch'[p].out = "saved" => Stored(batch'[p].id)
        BY <1>3 DEF Judged, SInv, Sending
      <3>2. Owed' = Owed /\ \A i : Stored(i)' <=> Stored(i)
        BY <2>u DEF Owed, Stored
      <3> QED
        BY <1>3, <2>2, <3>1, <3>2, StraysAfter DEF Sending, SInv, ItemIds
    <2>7. Alone'
      BY <2>2, StraysAfter DEF Alone
    <2>8. Agree'
      <3>1. \A i \in Ids, t \in Texts : Told(i, t)' => Told(i, t)
        BY <1>3, <2>u, StraysAfter DEF Told, Judged
      <3> QED
        BY <2>u, <3>1, AgreeKept DEF Says
    <2> QED
      BY <2>3, <2>4, <2>5, <2>6, <2>7, <2>8 DEF SInv
  <1> QED
    BY <1>2, <1>3 DEF Proceed

LEMMA AnsweredStep == ASSUME SInv, Answered PROVE SInv'
  <1>1. /\ call.phase = "done" /\ Proceed(Outcomes(call.refused))
        /\ UNCHANGED <<pageVars, issued, online, saving, acts, docs, strays, faults, promised, edited, abandoned>>
    BY DEF Answered, serverVars
  <1>2. GaveUp
    BY <1>1 DEF GaveUp, SInv, SavesTypeOK
  <1>3. Judged(Outcomes(call.refused))
    BY <1>1, JudgedOutcomes
  <1> QED
    BY <1>1, <1>2, <1>3, ProceedStep

LEMMA RequestFailsStep == ASSUME SInv, RequestFails PROVE SInv'
  <1>1. /\ GiveUp /\ Proceed(Outcomes(ItemIds(call)))
        /\ UNCHANGED <<pageVars, issued, online, saving, acts, docs, promised, edited>>
    BY DEF RequestFails
  <1>2. Judged(Outcomes(ItemIds(call)))
    BY JudgedOutcomes
  <1> QED
    BY <1>1, <1>2, GiveUpIs, ProceedStep

(* Another request for the same rows takes the place of the call.          *)
LEMMA TimesOutStep == ASSUME SInv, TimesOut PROVE SInv'
  <1>1. /\ GaveUp /\ replayed' = TRUE
        /\ call' = [NoCall EXCEPT !.items = call.items, !.phase = "sent"]
    BY GiveUpIs DEF TimesOut
  <1>u. UNCHANGED <<grid, file, page, loaded, fetched, issued, armed, online, draining, cancelled, batch,
                    saving, captured, acts, docs, promised, excused, edited>>
    BY DEF TimesOut, pageVars, saveVars
  <1>2. call' \in Handlers /\ call'.items = call.items /\ call'.phase = "sent" /\ call'.found = {}
    BY <1>1 DEF NoCall, Handlers, SInv, SavesTypeOK
  <1>3. SavesTypeOK'
    BY <1>1, <1>2, <1>u, StraysAfter DEF SInv, SavesTypeOK, GaveUp
  <1>4. Rows' /\ Held' /\ Captures'
    BY <1>u, GridKept DEF Stored, SInv, Captures, HasData
  <1>5. Sending'
    <2>1. Owed' = Owed /\ \A i : Stored(i)' <=> Stored(i)
      BY <1>u DEF Owed, Stored
    <2> QED
      BY <1>1, <1>2, <1>u, <2>1, StraysAfter DEF Sending, SInv, ItemIds
  <1>6. Alone'
    BY <1>1, <1>2, <1>u, StraysAfter DEF Alone
  <1>7. Agree'
    <2>1. \A i \in Ids, t \in Texts : Told(i, t)' => Told(i, t)
      BY <1>1, <1>u, StraysAfter DEF Told
    <2> QED
      BY <1>u, <2>1, AgreeKept DEF Says
  <1> QED
    BY <1>3, <1>4, <1>5, <1>6, <1>7 DEF SInv

LEMMA QuietStep ==
  ASSUME SInv, CancelSync \/ ProbeSucceeds \/ GoOffline
  PROVE  SInv'
  <1>u. UNCHANGED <<grid, file, page, loaded, fetched, issued, draining, batch, call, replayed, saving, captured,
                    acts, docs, strays, promised, excused, edited, abandoned>>
    BY DEF CancelSync, ProbeSucceeds, GoOffline, pageVars, drainVars, saveVars, serverVars, historyVars
  <1>1. faults' \in 0..MaxFaults /\ online' \in BOOLEAN /\ armed' \in BOOLEAN /\ cancelled' \in BOOLEAN
    <2>0. /\ faults \in 0..MaxFaults /\ online \in BOOLEAN /\ armed \in BOOLEAN
          /\ cancelled \in BOOLEAN /\ draining \in BOOLEAN
      BY DEF SInv, SavesTypeOK
    <2>1. faults' = faults \/ Fault
      BY DEF CancelSync, ProbeSucceeds, GoOffline
    <2>2. faults' \in 0..MaxFaults
      BY <2>0, <2>1, SavesAssumption DEF Fault
    <2>3. online' \in BOOLEAN /\ cancelled' \in BOOLEAN
      BY <2>0, Zenon DEF CancelSync, ProbeSucceeds, GoOffline, drainVars
    <2>4. armed' \in BOOLEAN
      BY <2>0, Zenon DEF CancelSync, ProbeSucceeds, GoOffline
    <2> QED
      BY <2>2, <2>3, <2>4
  <1>2. SavesTypeOK' /\ Captures'
    BY <1>1, <1>u DEF SInv, SavesTypeOK, Captures, HasData
  <1> QED
    BY <1>2, <1>u, RestKept DEF SInv

-----------------------------------------------------------------------------
(* The server                                                              *)

LEMMA LookupStep == ASSUME SInv, Lookup PROVE SInv'
  <1>1. call' = LookedUp(call)
    BY DEF Lookup
  <1>u. UNCHANGED <<grid, file, page, loaded, fetched, issued, armed, online, draining, cancelled, batch, replayed,
                    saving, captured, acts, docs, strays, faults, promised, excused, edited, abandoned>>
    BY DEF Lookup, pageVars, saveVars, serverVars, historyVars
  <1>2. /\ call' \in Handlers /\ call'.items = call.items /\ call'.phase = "looked"
        /\ call'.found = {i \in ItemIds(call) : Stored(i)}
    <2>1. call \in Handlers /\ {i \in ItemIds(call) : Stored(i)} \in SUBSET Ids
      BY DEF SInv, SavesTypeOK, Handlers, ItemIds
    <2> QED
      BY <1>1, <2>1 DEF LookedUp, Handlers
  <1>3. SavesTypeOK'
    BY <1>2, <1>u DEF SInv, SavesTypeOK
  <1>4. Rows' /\ Held' /\ Captures'
    BY <1>u, GridKept DEF Stored, SInv, Captures, HasData
  <1>5. Sending'
    BY <1>2, <1>u DEF Sending, SInv, Stored, Owed, ItemIds
  <1>6. Alone'
    BY <1>2, <1>u DEF SInv, Alone, OneDocPerRow, Missing, Stored, ItemIds
  <1>7. Agree'
    BY <1>u, AgreeKept DEF Says, Told
  <1> QED
    BY <1>3, <1>4, <1>5, <1>6, <1>7 DEF SInv

(* Documents that a request r adds.                                        *)
LEMMA InsertedBy ==
  ASSUME SInv, NEW r \in Handlers, NEW rows \in SUBSET Missing(r), docs' = Inserted(r, rows),
         UNCHANGED abandoned,
         \A i \in rows : Stored(i) /\ ~Indexed => i \in abandoned,
         \A x \in r.items : Told(x.id, x.text)
  PROVE  /\ docs' \in [Ids -> Seq(Texts)] /\ OneDocPerRow'
         /\ \A i \in Ids : Stored(i)' <=> Stored(i) \/ i \in rows
         /\ \A i \in Ids, t \in Texts : (\E n \in DOMAIN docs'[i] : docs'[i][n] = t) => Told(i, t)
  <1>1. docs \in [Ids -> Seq(Texts)]
    BY DEF SInv, SavesTypeOK
  <1>2. ASSUME NEW i \in rows PROVE TextOf(r, i) \in Texts /\ Told(i, TextOf(r, i)) /\ i \in Ids
    <2>1. \E x \in r.items : x.id = i
      BY DEF Missing, ItemIds
    <2>2. PICK x \in r.items : x.id = i /\ TextOf(r, i) = x.text
      BY <2>1 DEF TextOf
    <2> QED
      BY <2>2 DEF Handlers
  <1>3. ASSUME NEW i \in Ids
        PROVE  /\ docs'[i] \in Seq(Texts)
               /\ Stored(i)' <=> Stored(i) \/ i \in rows
               /\ Len(docs'[i]) <= 1 \/ (~Indexed /\ i \in abandoned)
               /\ \A n \in DOMAIN docs'[i] : Told(i, docs'[i][n])
    <2>1. CASE i \in rows /\ ~(Indexed /\ Stored(i))
      <3>1. docs'[i] = Append(docs[i], TextOf(r, i))
        BY <2>1 DEF Inserted
      <3>2. docs'[i] \in Seq(Texts) /\ Len(docs'[i]) = Len(docs[i]) + 1 /\ docs'[i] # <<>>
        BY <1>1, <1>2, <2>1, <3>1
      <3>3. ~Stored(i) => Len(docs[i]) = 0
        BY <1>1 DEF Stored
      <3>4. \A n \in DOMAIN docs'[i] : docs'[i][n] = TextOf(r, i) \/ (n \in DOMAIN docs[i] /\ docs'[i][n] = docs[i][n])
        BY <1>1, <1>2, <2>1, <3>1
      <3>5. \A n \in DOMAIN docs'[i] : Told(i, docs'[i][n])
        BY <1>2, <2>1, <3>4 DEF Told
      <3>6. Len(docs'[i]) <= 1 \/ (~Indexed /\ i \in abandoned)
        BY <2>1, <3>2, <3>3, SavesAssumption
      <3> QED
        BY <2>1, <3>2, <3>5, <3>6 DEF Stored
    <2>2. CASE ~(i \in rows /\ ~(Indexed /\ Stored(i)))
      <3>1. docs'[i] = docs[i]
        BY <2>2 DEF Inserted
      <3> QED
        BY <1>1, <2>2, <3>1 DEF Stored, Told, SInv, Alone, OneDocPerRow
    <2> QED
      BY <2>1, <2>2
  <1>4. docs' \in [Ids -> Seq(Texts)]
    BY <1>3 DEF Inserted
  <1> QED
    BY <1>3, <1>4 DEF OneDocPerRow

LEMMA InsertStepServer == ASSUME SInv, Insert PROVE SInv'
  <1>u. UNCHANGED <<grid, file, page, loaded, fetched, issued, armed, online, draining, cancelled, batch, replayed,
                    saving, captured, acts, strays, promised, excused, edited, abandoned>>
    BY DEF Insert, pageVars, saveVars, historyVars
  <1>1. call \in Handlers /\ Missing(call) \subseteq Ids /\ call.phase = "looked"
    <2>1. call \in Handlers
      BY DEF SInv, SavesTypeOK
    <2>2. call.phase = "looked"
      BY Zenon DEF Insert
    <2> QED
      BY <2>1, <2>2 DEF Handlers, Missing, ItemIds
  <1>2. PICK rows \in SUBSET Missing(call), refused \in SUBSET Ids :
            /\ docs' = Inserted(call, rows)
            /\ call' = [call EXCEPT !.phase = "done", !.refused = refused]
            /\ Missing(call) \ rows \subseteq refused
            /\ faults' \in 0..MaxFaults
    <2>1. CASE docs' = Inserted(call, Missing(call)) /\ call' = [call EXCEPT !.phase = "done"] /\ UNCHANGED faults
      <3>1. call.refused \in SUBSET Ids /\ [call EXCEPT !.phase = "done"] =
                                            [call EXCEPT !.phase = "done", !.refused = call.refused]
        BY <1>1 DEF Handlers
      <3> QED
        BY <2>1, <3>1 DEF SInv, SavesTypeOK
    <2>2. CASE \E rows \in SUBSET Missing(call) :
                 /\ Fault /\ docs' = Inserted(call, rows)
                 /\ \E refused \in {Missing(call) \ rows, Missing(call)} :
                      call' = [call EXCEPT !.phase = "done", !.refused = refused]
      <3>1. faults' \in 0..MaxFaults
        BY <2>2, SavesAssumption DEF Fault, SInv, SavesTypeOK
      <3> QED
        BY <1>1, <2>2, <3>1
    <2> QED
      BY <2>1, <2>2 DEF Insert
  <1>3. /\ call' \in Handlers /\ call'.items = call.items /\ call'.phase = "done"
        /\ call'.found = call.found /\ call'.refused = refused
    BY <1>1, <1>2 DEF Handlers
  <1>4. /\ docs' \in [Ids -> Seq(Texts)] /\ OneDocPerRow'
        /\ \A i \in Ids : Stored(i)' <=> Stored(i) \/ i \in rows
        /\ \A i \in Ids, t \in Texts : (\E n \in DOMAIN docs'[i] : docs'[i][n] = t) => Told(i, t)
    <2>1. \A x \in call.items : Told(x.id, x.text)
      BY DEF SInv, Sending, Told
    <2>2. \A i \in rows : Stored(i) /\ ~Indexed => i \in abandoned
      BY <1>1, <1>2 DEF SInv, Alone
    <2> QED
      BY <1>1, <1>2, <1>u, <2>1, <2>2, InsertedBy
  <1>5. SavesTypeOK'
    BY <1>2, <1>3, <1>4, <1>u DEF SInv, SavesTypeOK
  <1>6. Rows' /\ Held'
    BY <1>4, <1>u, GridKept
  <1>7. Captures'
    BY <1>u DEF SInv, Captures, HasData
  <1>8. Sending'
    <2>1. \A x \in call.items : \E p \in Slots : batch[p].id = x.id /\ batch[p].text = x.text
      BY DEF SInv, Sending
    <2>2. ItemIds(call) \subseteq Owed /\ ItemIds(call) \subseteq Ids
      BY <1>1, <2>1, Texting DEF SInv, Sending, ItemIds, Handlers
    <2>3. Owed' = Owed /\ Owed \subseteq Ids
      BY <1>u, Texting DEF Owed, SInv
    <2>4. \A i \in ItemIds(call) \ refused : Stored(i)'
      BY <1>2, <1>4, <2>2 DEF Missing, SInv, Sending
    <2>5. \A i \in call.found : i \in Ids
      BY <1>1 DEF Handlers
    <2> QED
      BY <1>2, <1>3, <1>4, <1>u, <2>1, <2>2, <2>3, <2>4, <2>5 DEF Sending, SInv, ItemIds, Missing
  <1>9. Alone'
    BY <1>3, <1>4, <1>u DEF SInv, Alone, ItemIds
  <1>10. Agree'
    <2>1. \A i \in Ids, t \in Texts : Told(i, t)' => Told(i, t)
      BY <1>4, <1>u DEF Told
    <2> QED
      BY <1>u, <2>1, AgreeKept DEF Says
  <1> QED
    BY <1>5, <1>6, <1>7, <1>8, <1>9, <1>10 DEF SInv

LEMMA StrayStepKept == ASSUME SInv, NEW r \in strays, StrayStep(r) PROVE SInv'
  <1>u. UNCHANGED <<grid, file, page, loaded, fetched, issued, armed, online, draining, cancelled, batch, call,
                    replayed, saving, captured, acts, faults, promised, excused, edited, abandoned>>
    BY DEF StrayStep, pageVars, drainVars, saveVars, historyVars
  <1>1. r \in Handlers /\ ItemIds(r) \subseteq Owed /\ ItemIds(r) \subseteq abandoned /\ ItemIds(r) \subseteq Ids
    BY DEF SInv, SavesTypeOK, Sending, Alone, ItemIds, Handlers
  <1>2. CASE strays' = (strays \ {r}) \cup {LookedUp(r)} /\ UNCHANGED docs
    <2>1. LookedUp(r) \in Handlers /\ LookedUp(r).items = r.items /\ ItemIds(LookedUp(r)) = ItemIds(r)
      <3>1. {i \in ItemIds(r) : Stored(i)} \in SUBSET Ids
        BY <1>1
      <3> QED
        BY <1>1, <3>1 DEF LookedUp, Handlers, ItemIds
    <2>2. SavesTypeOK'
      BY <1>2, <1>u, <2>1 DEF SInv, SavesTypeOK
    <2>3. Rows' /\ Held' /\ Captures'
      BY <1>2, <1>u, GridKept DEF Stored, SInv, Captures, HasData
    <2>4. \A s \in strays' : ItemIds(s) \subseteq Owed /\ ItemIds(s) \subseteq abandoned
      BY <1>1, <1>2, <2>1 DEF SInv, Sending, Alone
    <2>5. Sending' /\ Alone'
      BY <1>2, <1>u, <2>4 DEF SInv, Sending, Alone, OneDocPerRow, Stored, Owed, ItemIds, Missing
    <2>6. Agree'
      <3>1. \A i \in Ids, t \in Texts : Told(i, t)' => Told(i, t)
        BY <1>2, <1>u, <2>1 DEF Told
      <3> QED
        BY <1>u, <3>1, AgreeKept DEF Says
    <2> QED
      BY <2>2, <2>3, <2>5, <2>6 DEF SInv
  <1>3. CASE strays' = strays \ {r} /\ \E rows \in SUBSET Missing(r) : docs' = Inserted(r, rows)
    <2>1. PICK rows \in SUBSET Missing(r) : docs' = Inserted(r, rows)
      BY <1>3
    <2>2. \A i \in rows : i \in ItemIds(r)
      BY DEF Missing
    <2>3. /\ docs' \in [Ids -> Seq(Texts)] /\ OneDocPerRow'
          /\ \A i \in Ids : Stored(i)' <=> Stored(i) \/ i \in rows
          /\ \A i \in Ids, t \in Texts : (\E n \in DOMAIN docs'[i] : docs'[i][n] = t) => Told(i, t)
      <3>1. \A x \in r.items : Told(x.id, x.text)
        BY DEF Told
      <3> QED
        BY <1>1, <1>u, <2>1, <2>2, <3>1, InsertedBy
    <2>4. SavesTypeOK'
      BY <1>3, <1>u, <2>3 DEF SInv, SavesTypeOK
    <2>5. Rows' /\ Held'
      BY <1>u, <2>3, GridKept
    <2>6. Captures'
      BY <1>u DEF SInv, Captures, HasData
    <2>7. Sending'
      <3>1. Owed' = Owed /\ Owed \subseteq Ids
        BY <1>u, Texting DEF Owed, SInv
      <3>2. ItemIds(call) \subseteq Ids /\ call.found \subseteq Ids
        BY DEF SInv, SavesTypeOK, Handlers, ItemIds
      <3> QED
        BY <1>1, <1>3, <1>u, <2>2, <2>3, <3>1, <3>2 DEF SInv, Sending, ItemIds
    <2>8. Alone'
      <3>1. Missing(call) \subseteq Ids
        BY DEF SInv, SavesTypeOK, Handlers, ItemIds, Missing
      <3> QED
        BY <1>1, <1>3, <1>u, <2>2, <2>3, <3>1 DEF SInv, Alone, ItemIds, Missing
    <2>9. Agree'
      <3>1. \A i \in Ids, t \in Texts : Told(i, t)' => Told(i, t)
        BY <1>3, <1>u, <2>3 DEF Told
      <3> QED
        BY <1>u, <3>1, AgreeKept DEF Says
    <2> QED
      BY <2>4, <2>5, <2>6, <2>7, <2>8, <2>9 DEF SInv
  <1> QED
    BY <1>2, <1>3 DEF StrayStep

-----------------------------------------------------------------------------
(* Loading and crashes                                                     *)

LEMMA StartLoadStep == ASSUME SInv, StartLoad PROVE SInv'
  <1>1. ~saving /\ page' = "loading" /\ fetched' = docs /\ (acts' = acts \/ Act)
    BY DEF StartLoad
  <1>u. UNCHANGED <<grid, file, loaded, issued, armed, online, draining, cancelled, batch, call, replayed,
                    saving, captured, docs, strays, faults, promised, excused, edited, abandoned>>
    BY DEF StartLoad, drainVars, serverVars, historyVars
  <1>2. SavesTypeOK'
    <2>1. acts' \in 0..MaxActs
      BY <1>1, SavesAssumption DEF Act, SInv, SavesTypeOK
    <2> QED
      BY <1>1, <1>u, <2>1 DEF SInv, SavesTypeOK
  <1>3. Rows' /\ Captures'
    BY <1>1, <1>u DEF SInv, Rows, SoundRows, HasData, Owed, Captures
  <1>4. Held'
    BY <1>1, <1>u DEF SInv, Held, PromiseKept, Stored, IdsOf, Drafts, HasData
  <1>5. Sending' /\ Alone'
    BY <1>u, SendingKept, AloneKept DEF Owed
  <1>6. Agree'
    BY <1>u DEF SInv, Agree, Told
  <1> QED
    BY <1>2, <1>3, <1>4, <1>5, <1>6 DEF SInv

LEMMA NothingFetched == Nothing \in [Ids -> Seq(Texts)] /\ \A i \in Ids : Nothing[i] = <<>>
  BY DEF Nothing

LEMMA LoadFailsStep == ASSUME SInv, LoadFails PROVE SInv'
  <1>1. page = "loading" /\ page' = "open" /\ fetched' = Nothing /\ Fault
    BY DEF LoadFails
  <1>u. UNCHANGED <<grid, file, loaded, issued, armed, online, draining, cancelled, batch, call, replayed,
                    saving, captured, acts, docs, strays, promised, excused, edited, abandoned>>
    BY DEF LoadFails, drainVars, saveVars, serverVars, historyVars
  <1>2. SavesTypeOK'
    <2>1. faults' \in 0..MaxFaults
      BY <1>1, SavesAssumption DEF Fault, SInv, SavesTypeOK
    <2> QED
      BY <1>1, <1>u, <2>1, NothingFetched DEF SInv, SavesTypeOK
  <1>3. Rows' /\ Captures'
    BY <1>1, <1>u DEF SInv, Rows, SoundRows, HasData, Owed, Captures
  <1>4. Held'
    BY <1>1, <1>u, NothingFetched DEF SInv, Held, PromiseKept, Stored, IdsOf, Drafts, HasData
  <1>5. Sending' /\ Alone'
    BY <1>u, SendingKept, AloneKept DEF Owed
  <1>6. Agree'
    BY <1>u DEF SInv, Agree, Told
  <1> QED
    BY <1>2, <1>3, <1>4, <1>5, <1>6 DEF SInv

(* Reading the file back: a row of it is shown again, or the server has    *)
(* it, or it is given up for a saved row of the same text.                 *)
LEMMA EndLoadStep == ASSUME SInv, EndLoad PROVE SInv'
  <1>1. /\ page = "loading" /\ page' = "open" /\ loaded' = TRUE /\ fetched' = Nothing
        /\ grid' = [p \in Slots |-> IF p \in Unknown \ Claimed THEN file[p] ELSE Empty]
        /\ file' = grid'
        /\ excused' = excused \cup {file[p].id : p \in Claimed}
    BY DEF EndLoad
  <1>u. UNCHANGED <<issued, armed, online, draining, cancelled, batch, call, replayed,
                    saving, captured, acts, docs, strays, faults, promised, edited, abandoned>>
    BY DEF EndLoad, drainVars, saveVars, serverVars
  <1>e. Empty \in Slot /\ Empty.id = NoId /\ ~HasData(Empty) /\ ~Empty.queued /\ NoId \notin Ids
    BY Texting DEF Empty, Slot, HasData, SInv
  <1>2. \A p \in Slots : grid'[p] = file[p] \/ grid'[p] = Empty
    BY <1>1
  <1>3. \A p \in Claimed : p \in Slots /\ file[p].id \in Ids /\ file[p].id <= issued
    BY Texting DEF Claimed, Unknown, SInv, Rows, SoundRows
  <1>4. excused' \subseteq Ids /\ (\A i \in Owed' : i <= issued) /\ Owed \subseteq Owed'
    BY <1>1, <1>3, <1>u DEF SInv, SavesTypeOK, Rows, Owed
  <1>5. SavesTypeOK'
    <2>1. grid' \in [Slots -> Slot]
      BY <1>1, <1>e, Texting DEF SInv
    <2> QED
      BY <1>1, <1>4, <1>u, <2>1, NothingFetched DEF SInv, SavesTypeOK
  <1>6. Rows'
    <2>1. \A p \in Slots : /\ HasData(grid'[p]) => grid'[p].id # NoId
                           /\ grid'[p].id # NoId => grid'[p].id <= issued' /\ HasData(grid'[p])
                           /\ grid'[p].queued /\ grid'[p].id # NoId => grid'[p].id \in Owed'
      BY <1>2, <1>4, <1>e, <1>u DEF SInv, Rows, SoundRows, HasData
    <2>2. \A p, q \in Slots : grid'[p].id = grid'[q].id /\ grid'[p].id # NoId => p = q
      BY <1>2, <1>e DEF SInv, Rows, SoundRows
    <2>3. SoundRows(grid)'
      BY <2>1, <2>2 DEF SoundRows, HasData
    <2> QED
      BY <1>1, <1>4, <1>u, <2>1, <2>3 DEF Rows, SoundRows, HasData
  <1>7. Captures'
    BY <1>1, <1>u DEF SInv, Captures
  <1>8. Held'
    <2>1. ASSUME NEW i \in promised \ excused', ~Stored(i)
          PROVE  \E p \in Slots : grid'[p].id = i /\ HasData(grid'[p]) /\ i # NoId
      <3>1. PICK p \in Slots : file[p].id = i /\ i # NoId
        BY <1>1, <2>1 DEF SInv, Held, PromiseKept, IdsOf
      <3>2. HasData(file[p]) /\ fetched[i] = <<>>
        BY <2>1, <3>1 DEF SInv, Rows, Held, SavesTypeOK
      <3>3. p \in Unknown /\ p \notin Claimed
        BY <1>1, <2>1, <3>1, <3>2 DEF Unknown
      <3> QED
        BY <1>1, <3>1, <3>2, <3>3
    <2>2. \A i \in promised \ excused' : Stored(i) \/ i \in IdsOf(grid')
      BY <2>1 DEF IdsOf
    <2>3. \A i \in promised \ excused' : Stored(i) \/ i \in IdsOf(Drafts(grid'))
      BY <2>1 DEF IdsOf, Drafts
    <2> QED
      BY <1>1, <1>u, <2>2, <2>3, NothingFetched DEF Held, PromiseKept, Stored
  <1>9. Sending' /\ Alone'
    BY <1>4, <1>u, SendingKept, AloneKept
  <1>10. Agree'
    <2>1. \A i \in Ids, t \in Texts : Told(i, t)' => Told(i, t)
      BY <1>u DEF Told
    <2> QED
      BY <1>1, <1>2, <1>e, <1>u, <2>1, AgreeKept DEF Says
  <1> QED
    BY <1>5, <1>6, <1>7, <1>8, <1>9, <1>10 DEF SInv

(* A crash empties the grid.  The file, the server and what runs on stay.  *)
LEMMA CrashStep == ASSUME SInv, Crash PROVE SInv'
  <1>1. /\ page' = "closed" /\ loaded' = FALSE /\ fetched' = Nothing /\ grid' = Emptied
        /\ armed' = FALSE /\ draining' = FALSE /\ cancelled' = FALSE /\ replayed' = FALSE
        /\ batch' = NoBatch /\ call' = NoCall /\ saving' = FALSE /\ captured' = {} /\ GiveUp
    BY DEF Crash
  <1>u. UNCHANGED <<file, issued, online, acts, docs, promised, excused, edited>>
    BY DEF Crash
  <1>g. GaveUp
    BY <1>1, GiveUpIs
  <1>e. Empty \in Slot /\ Empty.id = NoId /\ ~HasData(Empty) /\ ~Empty.queued /\ NoId \notin Ids
    BY Texting DEF Empty, Slot, HasData, SInv
  <1>2. grid' \in [Slots -> Slot] /\ \A p \in Slots : grid'[p] = Empty
    BY <1>1, <1>e DEF Emptied
  <1>3. SavesTypeOK'
    <2>1. NoBatch \in [Slots -> [id : Ids \cup {NoId}, text : Texts \cup {Blank},
                                 out : {"none", "todo", "saved", "failed"}]]
      BY DEF NoBatch, NotTaken
    <2>2. strays' \subseteq Handlers /\ abandoned' \subseteq Ids /\ faults' \in 0..MaxFaults
      BY <1>g, <1>u, StraysAfter DEF GaveUp
    <2>3. /\ batch' = NoBatch /\ captured' = {} /\ fetched' \in [Ids -> Seq(Texts)] /\ page' = "closed"
          /\ armed' \in BOOLEAN /\ draining' \in BOOLEAN /\ cancelled' \in BOOLEAN /\ replayed' \in BOOLEAN
          /\ saving' \in BOOLEAN /\ loaded' \in BOOLEAN
      BY <1>1, NothingFetched
    <2>4. call' \in Handlers
      BY <1>1, NoCallTyped
    <2>5. captured' \subseteq [pos : Int, id : Ids]
      BY <2>3
    <2> QED
      BY <1>2, <1>u, <2>1, <2>2, <2>3, <2>4, <2>5 DEF SInv, SavesTypeOK
  <1>4. Rows'
    <2>1. SoundRows(grid)'
      BY <1>2, <1>e DEF SoundRows, HasData
    <2> QED
      BY <1>u, <2>1 DEF SInv, Rows, SoundRows, HasData, Owed
  <1>5. Captures'
    BY <1>1 DEF Captures
  <1>6. Held'
    BY <1>1, <1>u, NothingFetched DEF SInv, Held, PromiseKept, Stored, IdsOf
  <1>7. Sending'
    <2>1. \A p \in Slots : batch'[p].out = "none" /\ batch'[p].id = NoId
      BY <1>1 DEF NoBatch, NotTaken
    <2>2. call'.items = {} /\ call'.phase = "none" /\ call'.found = {}
      BY <1>1, NoCallTyped
    <2>3. Owed' = Owed /\ \A r \in strays' : ItemIds(r) \subseteq Owed
      BY <1>g, <1>u, StraysAfter DEF Owed
    <2> QED
      BY <1>u, <2>1, <2>2, <2>3 DEF SInv, Sending, Stored
  <1>8. Alone'
    BY <1>1, <1>g, <1>u, NoCallTyped, StraysAfter DEF Alone
  <1>9. Agree'
    <2>1. \A i \in Ids, t \in Texts : Told(i, t)' => Told(i, t)
      <3>1. \A p \in Slots : batch'[p].id = NoId
        BY <1>1 DEF NoBatch, NotTaken
      <3> QED
        BY <1>e, <1>g, <1>u, <3>1, StraysAfter DEF Told
    <2> QED
      BY <1>2, <1>e, <1>u, <2>1, AgreeKept DEF Says
  <1> QED
    BY <1>3, <1>4, <1>5, <1>6, <1>7, <1>8, <1>9 DEF SInv

-----------------------------------------------------------------------------
(* The invariant                                                           *)

LEMMA SavesInit == Init => SInv
  <1> SUFFICES ASSUME Init PROVE SInv
    OBVIOUS
  <1>1. /\ grid = Emptied /\ file = Emptied /\ page = "open" /\ loaded = TRUE /\ fetched = Nothing
        /\ issued = 0 /\ armed = FALSE /\ online = TRUE /\ draining = FALSE /\ cancelled = FALSE
        /\ batch = NoBatch /\ call = NoCall /\ replayed = FALSE
        /\ saving = FALSE /\ captured = {} /\ acts = 0 /\ docs = Nothing /\ strays = {} /\ faults = 0
        /\ promised = {} /\ excused = {} /\ edited = {} /\ abandoned = {}
    BY DEF Init
  <1>2. Empty \in Slot /\ Empty.id = NoId /\ ~HasData(Empty) /\ ~Empty.queued /\ NoId \notin Ids
    BY DEF Empty, Slot, HasData, Ids, NoId
  <1>3. grid \in [Slots -> Slot] /\ \A p \in Slots : grid[p] = Empty /\ file[p] = Empty
    BY <1>1, <1>2 DEF Emptied
  <1>4. /\ batch \in [Slots -> [id : Ids \cup {NoId}, text : Texts \cup {Blank},
                                out : {"none", "todo", "saved", "failed"}]]
        /\ \A p \in Slots : batch[p].id = NoId /\ batch[p].out = "none"
    BY <1>1 DEF NoBatch, NotTaken
  <1>5. \A i \in Ids : ~Stored(i) /\ docs[i] = <<>> /\ fetched[i] = <<>> /\ Len(docs[i]) = 0
    BY <1>1, NothingFetched DEF Stored
  <1>6. SavesTypeOK
    <2>1. issued \in 0..MaxRows /\ faults \in 0..MaxFaults /\ acts \in 0..MaxActs
      BY <1>1, SavesAssumption
    <2>2. captured \subseteq [pos : Int, id : Ids] /\ strays \subseteq Handlers /\ call \in Handlers
      BY <1>1, NoCallTyped
    <2>3. file \in [Slots -> Slot]
      BY <1>1, <1>3
    <2> QED
      BY <1>1, <1>3, <1>4, <2>1, <2>2, <2>3, NothingFetched DEF SavesTypeOK
  <1>7. Rows
    BY <1>1, <1>2, <1>3 DEF Rows, SoundRows, Owed
  <1>8. Captures /\ Held
    BY <1>1, <1>5 DEF Captures, Held, PromiseKept
  <1>9. Sending
    BY <1>1, <1>4, <1>5, NoCallTyped DEF Sending
  <1>10. Alone
    BY <1>1, <1>5, NoCallTyped DEF Alone, OneDocPerRow
  <1>11. Agree
    BY <1>1, <1>2, <1>3, <1>4, <1>5 DEF Agree, Told
  <1> QED
    BY <1>6, <1>7, <1>8, <1>9, <1>10, <1>11 DEF SInv

LEMMA SavesStep == SInv /\ [Next]_vars => SInv'
  <1> SUFFICES ASSUME SInv, [Next]_vars PROVE SInv'
    OBVIOUS
  <1>1. CASE Typing
    BY <1>1, TypeStep, EditStep, InsertStep, CopyStep, DeleteStep, AutosaveStep DEF Typing
  <1>2. CASE SaveSteps
    BY <1>2, OfflineSaveStep, BeginSaveStep, AbortSaveStep, EndSaveStep DEF SaveSteps
  <1>3. CASE DrainSteps
    BY <1>3, TimerFiresStep, AnsweredStep, RequestFailsStep, TimesOutStep, QuietStep DEF DrainSteps
  <1>4. CASE ServerSteps
    BY <1>4, LookupStep, InsertStepServer, StrayStepKept DEF ServerSteps
  <1>5. CASE PageSteps
    BY <1>5, QuietStep, StartLoadStep, EndLoadStep, LoadFailsStep, CrashStep DEF PageSteps
  <1>6. CASE UNCHANGED vars
    <2>u. UNCHANGED <<grid, file, page, loaded, fetched, issued, armed, online, draining, cancelled, batch, call,
                      replayed, saving, captured, acts, docs, strays, faults, promised, excused, edited, abandoned>>
      BY <1>6 DEF vars, pageVars, drainVars, saveVars, serverVars, historyVars
    <2>1. SavesTypeOK' /\ Captures'
      BY <2>u DEF SInv, SavesTypeOK, Captures, HasData
    <2> QED
      BY <2>u, <2>1, RestKept DEF SInv
  <1> QED
    BY <1>1, <1>2, <1>3, <1>4, <1>5, <1>6 DEF Next

(* The inductive invariant holds of the register, the drain and the server *)
(* for any number of rows, chunks and faults.                              *)
THEOREM SavesInvariance == Spec => []SInv
  BY SavesInit, SavesStep, PTL DEF Spec

(* Every variable keeps its type.                                          *)
THEOREM SavesTypeCorrect == Spec => []SavesTypeOK
  <1>1. SInv => SavesTypeOK
    BY DEF SInv
  <1> QED
    BY <1>1, SavesInvariance, PTL

(* "Saved locally, will sync": at every moment, also right after a crash,  *)
(* a row that was reported as saved or queued is on the server or in the   *)
(* draft file, unless it is one of those the code is known to lose.        *)
THEOREM PromiseKeptCorrect == Spec => []PromiseKept
  <1>1. SInv => PromiseKept
    BY DEF SInv, Held
  <1> QED
    BY <1>1, SavesInvariance, PTL

(* bulk-create stores a row once: the lookup sees what an earlier request  *)
(* stored, and only without the unique index a request that was given up   *)
(* on while it ran can store it again.                                     *)
THEOREM OneDocPerRowCorrect == Spec => []OneDocPerRow
  <1>1. SInv => OneDocPerRow
    BY DEF SInv, Alone
  <1> QED
    BY <1>1, SavesInvariance, PTL

-----------------------------------------------------------------------------
(* What the drain clears                                                   *)

(* The row that a finished drain clears is the one it sent, with the text  *)
(* that the server has, or it is excused.                                  *)
LEMMA ClearedRow ==
  ASSUME SInv, NEW b, Judged(b), FinishDrain(b), NEW p \in Slots, grid[p].id # NoId,
         grid[p].id \notin IdsOf(grid')
  PROVE  \/ grid[p].id \in excused' \cup edited
         \/ /\ Stored(grid[p].id)
            /\ \A n \in DOMAIN docs[grid[p].id] : docs[grid[p].id][n] = grid[p].text
  <1> PICK saved : saved = {q \in Slots : b[q].out = "saved"}
    OBVIOUS
  <1> PICK victims : victims = {q \in saved : grid[q].id # b[q].id}
    OBVIOUS
  <1>1. /\ grid' = [q \in Slots |-> IF q \in saved THEN Empty
                                    ELSE [grid[q] EXCEPT !.queued = @ \/ b[q].out \in {"failed", "todo"}]]
        /\ {grid[q].id : q \in victims} \ {NoId} \subseteq excused'
    BY DEF FinishDrain
  <1>2. p \in saved
    <2> SUFFICES ASSUME p \notin saved PROVE grid'[p].id = grid[p].id
      BY DEF IdsOf
    <2>1. PICK q \in BOOLEAN : q = (grid[p].queued \/ b[p].out \in {"failed", "todo"})
      OBVIOUS
    <2>2. grid'[p] = [grid[p] EXCEPT !.queued = q]
      BY <1>1, <2>1
    <2> QED
      BY <2>2, Texting DEF Slot, SInv
  <1>3. CASE p \in victims
    BY <1>1, <1>3
  <1>4. CASE grid[p].id = b[p].id /\ grid[p].id \notin edited
    <2>1. Stored(grid[p].id) /\ grid[p].id \in Ids
      BY <1>2, <1>4, Texting DEF Judged, SInv
    <2>2. ASSUME NEW n \in DOMAIN docs[grid[p].id] PROVE docs[grid[p].id][n] = grid[p].text
      <3>1. docs[grid[p].id][n] \in Texts
        BY <2>1 DEF SInv, SavesTypeOK
      <3>2. Told(grid[p].id, docs[grid[p].id][n])
        BY DEF Told
      <3> QED
        BY <1>4, <2>1, <3>1, <3>2 DEF SInv, Agree
    <2> QED
      BY <2>1, <2>2
  <1> QED
    BY <1>2, <1>3, <1>4

LEMMA DrainEnds ==
  ASSUME SInv, [Next]_vars, draining, ~draining', page' = "open"
  PROVE  \E b : Judged(b) /\ FinishDrain(b)
  <1>1. CASE Answered
    <2>1. call.phase = "done" /\ Proceed(Outcomes(call.refused))
      BY <1>1 DEF Answered
    <2>2. Judged(Outcomes(call.refused))
      BY <2>1, JudgedOutcomes
    <2> QED
      BY <2>1, <2>2 DEF Proceed
  <1>2. CASE RequestFails
    <2>1. Proceed(Outcomes(ItemIds(call)))
      BY <1>2 DEF RequestFails
    <2>2. Judged(Outcomes(ItemIds(call)))
      BY JudgedOutcomes
    <2> QED
      BY <2>1, <2>2 DEF Proceed
  <1>3. ~Typing
    BY DEF Typing, Type, Edit, InsertAbove, Copy, Delete, Autosave, drainVars
  <1>4. ~SaveSteps
    BY DEF SaveSteps, OfflineSave, BeginSave, AbortSave, EndSave, drainVars
  <1>5. ~TimerFires /\ ~TimesOut /\ ~CancelSync
    BY DEF TimerFires, StartDrain, TimesOut, CancelSync, drainVars
  <1>6. ~ServerSteps
    BY DEF ServerSteps, Lookup, Insert, StrayStep, drainVars
  <1>7. ~PageSteps
    BY DEF PageSteps, ProbeSucceeds, GoOffline, StartLoad, EndLoad, LoadFails, Crash, drainVars
  <1>8. ~UNCHANGED vars
    BY DEF vars, drainVars
  <1> QED
    BY <1>1, <1>2, <1>3, <1>4, <1>5, <1>6, <1>7, <1>8 DEF Next, DrainSteps

(* When a drain ends, a row that is gone from the grid is on the server    *)
(* with the text it had there, unless it was changed after it was sent or  *)
(* is excused.                                                             *)
THEOREM AckKeepsTextCorrect == Spec => AckKeepsText
  <1>1. SInv /\ [Next]_vars =>
          [draining /\ ~draining' =>
             \A p \in Slots : grid[p].id # NoId /\ grid[p].id \notin IdsOf(grid') /\ page' = "open" =>
               \/ grid[p].id \in excused' \cup edited
               \/ Stored(grid[p].id) /\ \A n \in DOMAIN docs[grid[p].id] :
                                          docs[grid[p].id][n] = grid[p].text]_vars
    <2> SUFFICES ASSUME SInv, [Next]_vars, draining, ~draining', NEW p \in Slots, grid[p].id # NoId,
                        grid[p].id \notin IdsOf(grid'), page' = "open"
                 PROVE  \/ grid[p].id \in excused' \cup edited
                        \/ Stored(grid[p].id) /\ \A n \in DOMAIN docs[grid[p].id] :
                                                   docs[grid[p].id][n] = grid[p].text
      OBVIOUS
    <2> QED
      BY DrainEnds, ClearedRow
  <1> QED
    BY <1>1, SavesInvariance, PTL DEF Spec, AckKeepsText

-----------------------------------------------------------------------------
(* The promise                                                             *)

LEMMA InsertKeeps ==
  ASSUME SInv, NEW r \in Handlers, NEW rows \in SUBSET Missing(r), docs' = Inserted(r, rows)
  PROVE  \A i \in Ids : Stored(i) => Stored(i)'
  <1> SUFFICES ASSUME NEW i \in Ids, Stored(i) PROVE Stored(i)'
    OBVIOUS
  <1>1. docs[i] \in Seq(Texts) /\ docs[i] # <<>>
    BY DEF Stored, SInv, SavesTypeOK
  <1>2. CASE i \in rows /\ ~(Indexed /\ Stored(i))
    <2>1. PICK x \in r.items : x.id = i /\ TextOf(r, i) = x.text
      BY <1>2 DEF TextOf, Missing, ItemIds
    <2>2. docs'[i] = Append(docs[i], x.text) /\ x.text \in Texts
      BY <1>2, <2>1 DEF Inserted, Handlers
    <2>3. Len(Append(docs[i], x.text)) = Len(docs[i]) + 1 /\ Len(docs[i]) \in Nat
      BY <1>1, <2>2
    <2> QED
      BY <2>2, <2>3 DEF Stored
  <1>3. CASE ~(i \in rows /\ ~(Indexed /\ Stored(i)))
    BY <1>1, <1>3 DEF Inserted, Stored
  <1> QED
    BY <1>2, <1>3

(* A promise, a release and a document are for good, and a step that adds  *)
(* documents neither promises nor releases.                                *)
LEMMA Grows ==
  ASSUME SInv, [Next]_vars
  PROVE  /\ promised \subseteq promised' /\ excused \subseteq excused'
         /\ \A i \in Ids : Stored(i) => Stored(i)'
         /\ docs' = docs \/ (promised' = promised /\ excused' = excused)
  <1>1. CASE ServerSteps
    <2>1. promised' = promised /\ excused' = excused
      BY <1>1 DEF ServerSteps, Lookup, Insert, StrayStep, historyVars
    <2>2. docs' = docs \/ \E r \in Handlers : \E rows \in SUBSET Missing(r) : docs' = Inserted(r, rows)
      <3>1. CASE Lookup
        BY <3>1 DEF Lookup, serverVars
      <3>2. CASE Insert
        <4>1. call \in Handlers
          BY DEF SInv, SavesTypeOK
        <4>2. \E rows \in SUBSET Missing(call) : docs' = Inserted(call, rows)
          BY <3>2, Zenon DEF Insert
        <4> QED
          BY <4>1, <4>2
      <3>3. ASSUME NEW r \in strays, StrayStep(r)
            PROVE  docs' = docs \/ \E rows \in SUBSET Missing(r) : docs' = Inserted(r, rows)
        BY <3>3 DEF StrayStep
      <3>4. strays \subseteq Handlers
        BY DEF SInv, SavesTypeOK
      <3> QED
        BY <1>1, <3>1, <3>2, <3>3, <3>4 DEF ServerSteps
    <2> QED
      BY <2>1, <2>2, InsertKeeps DEF Stored
  <1>2. CASE Typing
    BY <1>2 DEF Typing, Type, Edit, InsertAbove, Copy, Delete, Autosave, serverVars, historyVars, Stored
  <1>3. CASE SaveSteps
    BY <1>3 DEF SaveSteps, OfflineSave, BeginSave, AbortSave, EndSave, serverVars, historyVars, Stored
  <1>4. CASE DrainSteps
    BY <1>4 DEF DrainSteps, TimerFires, StartDrain, Answered, RequestFails, Proceed, FinishDrain, TimesOut,
                CancelSync, serverVars, historyVars, Stored
  <1>5. CASE PageSteps
    BY <1>5 DEF PageSteps, ProbeSucceeds, GoOffline, StartLoad, EndLoad, LoadFails, Crash, serverVars,
                historyVars, Stored
  <1>6. CASE UNCHANGED vars
    BY <1>6 DEF vars, serverVars, historyVars, Stored
  <1> QED
    BY <1>1, <1>2, <1>3, <1>4, <1>5, <1>6 DEF Next

(* The fate that the mapping gives row i.                                  *)
Fate(i) == IF Stored(i) THEN "stored" ELSE IF i \in excused THEN "released"
           ELSE IF i \in promised THEN "promised" ELSE "none"

LEMMA PromiseInit == Init => Promise!Init
  BY DEF Init, Promise!Init, Stored, Nothing

LEMMA PromiseStep == SInv /\ SInv' /\ [Next]_vars => [Promise!Next]_(Promise!fateVars)
  <1> SUFFICES ASSUME SInv, SInv', [Next]_vars PROVE Promise!Next
    OBVIOUS
  <1>1. ASSUME NEW i \in Ids
        PROVE  \/ Fate(i)' = Fate(i)
               \/ Fate(i) = "none" /\ Fate(i)' = "promised"
               \/ Fate(i) = "promised" /\ Fate(i)' = "stored"
               \/ Fate(i) \in {"none", "promised"} /\ Fate(i)' = "released"
               \/ Fate(i) = "released" /\ Fate(i)' = "stored"
    <2>1. Stored(i)' => i \in promised' \/ i \in excused'
      BY DEF SInv, Sending, Owed
    <2>2. docs' = docs => (Stored(i)' <=> Stored(i))
      BY DEF Stored
    <2> QED
      BY <2>1, <2>2, Grows DEF Fate
  <1> QED
    BY <1>1 DEF Promise!Next, Promise!Judge, Fate

(* The client keeps the promise step by step: every step of the register,  *)
(* the drain and the server maps to one of SavePromise or to a stutter.    *)
THEOREM SavesKeepPromise == Spec => Promise!Init /\ [][Promise!Next]_(Promise!fateVars)
  BY PromiseInit, PromiseStep, SavesInvariance, PTL DEF Spec
============================================================================
