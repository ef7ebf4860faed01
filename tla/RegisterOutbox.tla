-------------------------- MODULE RegisterOutbox --------------------------
(***************************************************************************)
(* New rows of the daily register on their way to the server.  Save marks  *)
(* the typed rows as queued and writes them to a file; a drain sends them  *)
(* in chunks and clears what the server acknowledges; after a crash the    *)
(* file is read back and reconciled with the rows the server has.  The     *)
(* client is one event loop: a step below is the code from one await to    *)
(* the next, and the cashier goes on working between two of them.          *)
(* One cashier, one register day, the My grid.                             *)
(***************************************************************************)
EXTENDS Integers, FiniteSets, Sequences

CONSTANTS MaxRows,     \* bound: the client_row_ids ever minted
          Texts,       \* what a row may say
          MaxSlots,    \* bound: the editable rows of the grid
          Chunk,       \* BULK_CREATE_CHUNK
          Indexed,     \* the unique index on client_row_id could be created
          MaxActs,     \* bound: what the cashier does besides typing new rows
          MaxFaults,   \* bound: failed requests and loads, crashes, offline, Esc;
                       \* a request that runs on unattended counts twice
          Blank        \* an empty row

ASSUME SavesAssumption ==
  /\ MaxRows \in Nat /\ MaxSlots \in Nat /\ MaxActs \in Nat
  /\ MaxFaults \in Nat
  /\ Chunk \in Nat \ {0}
  /\ Indexed \in BOOLEAN
  /\ Blank \notin Texts

Ids == 1..MaxRows
NoId == 0
Slots == 1..MaxSlots   \* editable rows, counted from the first one

VARIABLES grid,       \* the editable rows: client_row_id, text, sync_status set
          file,       \* the draft file, the gaps of the grid kept
          page,       \* "closed", "loading" or "open"
          loaded,     \* the grid shows what the file held when it was opened
          fetched,    \* the day's rows as the server sent them to a load
          issued,     \* how many client_row_ids exist
          armed,      \* _outbox_drain_timer is active
          online,     \* the connectivity service's last word
          draining,   \* _outbox_drain_in_flight
          cancelled,  \* _outbox_cancel_requested
          batch,      \* to_save of the drain: what it took from each row
          call,       \* the bulk-create request it waits for
          replayed,   \* that request is the replay after a timeout
          saving,     \* _save_in_flight
          captured,   \* pending_inserts of Save: row and client_row_id
          acts,       \* what the cashier did besides typing new rows
          docs,       \* the server's documents of each client_row_id
          strays,     \* requests nobody waits for any more
          faults,     \* how many faults have happened
          promised,   \* history: rows reported as queued or saved locally
          excused,    \* history: rows taken back, or see Excuses below
          edited,     \* history: rows changed after a request may hold them
          abandoned   \* history: rows of requests given up on while running

pageVars == <<page, loaded, fetched>>
drainVars == <<draining, cancelled, batch, call, replayed>>
saveVars == <<saving, captured, acts>>
serverVars == <<docs, strays>>
historyVars == <<promised, excused, edited, abandoned>>
vars == <<grid, file, pageVars, issued, armed, online, drainVars, saveVars,
          serverVars, faults, historyVars>>

-----------------------------------------------------------------------------
(* Rows *)

Empty == [id |-> NoId, text |-> Blank, queued |-> FALSE]
HasData(row) == row.text # Blank
Emptied == [p \in Slots |-> Empty]
IdsOf(rows) == {rows[p].id : p \in Slots} \ {NoId}

\* What the draft file keeps of a grid: the rows with data.
Drafts(g) == [p \in Slots |-> IF HasData(g[p]) THEN g[p] ELSE Empty]

\* Slip: a row that was blanked is sent as well.
Marked(g) == {p \in Slots : g[p].queued}

\* _outbox_pending_rows: PENDING, FAILED and IN_FLIGHT alike.
Waiting(g) == {p \in Slots : HasData(g[p]) /\ g[p].queued}

Nothing == [i \in Ids |-> <<>>]
Stored(i) == docs[i] # <<>>

\* Writing the file.  A grid whose load failed does not hold the rows of the
\* file, which are overwritten.
Flush(g) == file' = Drafts(g)
Overwritten(g) == IF loaded THEN {} ELSE IdsOf(file) \ IdsOf(Drafts(g))

\* _schedule_outbox_drain, called with grid g; without effect when it is busy.
Schedule(g, busy) == armed' = (armed \/ (online /\ ~busy /\ Waiting(g) # {}))

Request(b, ps) == [items |-> {[id |-> b[p].id, text |-> b[p].text] : p \in ps},
                   phase |-> "sent", found |-> {}, refused |-> {}]
NoCall == [items |-> {}, phase |-> "none", found |-> {}, refused |-> {}]
ItemIds(r) == {x.id : x \in r.items}

NotTaken == [id |-> NoId, text |-> Blank, out |-> "none"]
NoBatch == [p \in Slots |-> NotTaken]

Init ==
  /\ grid = Emptied /\ file = Emptied
  /\ page = "open" /\ loaded = TRUE /\ fetched = Nothing
  /\ issued = 0
  /\ armed = FALSE /\ online = TRUE
  /\ draining = FALSE /\ cancelled = FALSE /\ batch = NoBatch
  /\ call = NoCall /\ replayed = FALSE
  /\ saving = FALSE /\ captured = {} /\ acts = 0
  /\ docs = Nothing /\ strays = {}
  /\ faults = 0
  /\ promised = {} /\ excused = {} /\ edited = {} /\ abandoned = {}

\* Bounded steps.
Fault == faults < MaxFaults /\ faults' = faults + 1
Act == acts < MaxActs /\ acts' = acts + 1

\* The cashier can reach the grid: Save and a load cover it, a drain does not.
AtTheGrid == page = "open" /\ ~saving

-----------------------------------------------------------------------------
(* Typing *)

\* A request may hold the text of row i.
Reached(i) ==
  \/ Stored(i)
  \/ i \in {batch[p].id : p \in Slots}
  \/ \E r \in strays : i \in ItemIds(r)

\* A row typed into an empty one gets an id, and keeps a sync_status that was
\* left there by mistake.
Type(p, t) ==
  /\ AtTheGrid
  /\ ~HasData(grid[p]) /\ grid[p].id = NoId /\ issued < MaxRows
  /\ issued' = issued + 1
  /\ grid' = [grid EXCEPT ![p].id = issued + 1, ![p].text = t]
  /\ excused' = excused \cup (IF grid[p].queued THEN {issued + 1} ELSE {})
  /\ UNCHANGED <<file, pageVars, armed, online, drainVars, saveVars, serverVars, faults,
                 promised, edited, abandoned>>

\* Blanking a row takes it back; its id and sync_status stay.
Edit(p, t) ==
  /\ AtTheGrid /\ Act
  /\ grid[p].id # NoId /\ grid[p].text # t
  /\ grid' = [grid EXCEPT ![p].text = t]
  /\ edited' = IF Reached(grid[p].id) THEN edited \cup {grid[p].id} ELSE edited
  /\ excused' = IF t = Blank THEN excused \cup {grid[p].id} ELSE excused
  /\ UNCHANGED <<file, pageVars, issued, armed, online, drainVars, saving, captured, serverVars, faults,
                 promised, abandoned>>

RowsInsertedAt(p, row) ==
  [q \in Slots |-> IF q < p THEN grid[q] ELSE IF q = p THEN row ELSE grid[q - 1]]

\* The grid grows at the end: here the last row must be free.
InsertAbove(p) ==
  /\ AtTheGrid /\ Act
  /\ grid[MaxSlots] = Empty
  /\ grid' = RowsInsertedAt(p, Empty)
  /\ UNCHANGED <<file, pageVars, issued, armed, online, drainVars, saving, captured, serverVars, faults,
                 historyVars>>

\* toolbar_copy_row: the same text below, under an id of its own.
Copy(p) ==
  /\ AtTheGrid /\ Act
  /\ HasData(grid[p]) /\ p < MaxSlots /\ grid[MaxSlots] = Empty /\ issued < MaxRows
  /\ issued' = issued + 1
  /\ grid' = RowsInsertedAt(p + 1, [Empty EXCEPT !.id = issued + 1, !.text = grid[p].text])
  /\ UNCHANGED <<file, pageVars, armed, online, drainVars, saving, captured, serverVars, faults,
                 historyVars>>

Delete(p) ==
  /\ AtTheGrid /\ Act
  /\ grid' = [q \in Slots |-> IF q < p THEN grid[q]
                              ELSE IF q < MaxSlots THEN grid[q + 1] ELSE Empty]
  /\ excused' = excused \cup ({grid[p].id} \ {NoId})
  /\ UNCHANGED <<file, pageVars, issued, armed, online, drainVars, saving, captured, serverVars, faults,
                 promised, edited, abandoned>>

\* The draft timer, or leaving the day.
Autosave ==
  /\ page = "open"
  /\ Flush(grid)
  /\ excused' = excused \cup Overwritten(grid)
  /\ UNCHANGED <<grid, pageVars, issued, armed, online, drainVars, saveVars, serverVars, faults,
                 promised, edited, abandoned>>

-----------------------------------------------------------------------------
(* Save *)

\* Offline: every typed row is queued at once.
OfflineSave ==
  LET typed == {p \in Slots : HasData(grid[p])}
      after == [p \in Slots |-> [grid[p] EXCEPT !.queued = @ \/ p \in typed]]
  IN /\ AtTheGrid /\ ~online /\ typed # {} /\ Act
     /\ grid' = after /\ Flush(after)
     /\ promised' = promised \cup {grid[p].id : p \in typed}
     /\ excused' = excused \cup Overwritten(after)
     /\ UNCHANGED <<pageVars, issued, armed, online, drainVars, saving, captured,
                    serverVars, faults, edited, abandoned>>

\* The rows are read, then checked for duplicates on the server.
BeginSave ==
  /\ AtTheGrid /\ online /\ Act
  /\ saving' = TRUE
  /\ captured' = {[pos |-> p, id |-> grid[p].id] : p \in {q \in Slots : HasData(grid[q])}}
  /\ UNCHANGED <<grid, file, pageVars, issued, armed, online, drainVars, serverVars, faults,
                 historyVars>>

\* What stands where the captured row c stood, if it is another row.
Mistaken(c) ==
  IF c.pos \notin Slots THEN {c.id}
  ELSE IF grid[c.pos].id = c.id THEN {} ELSE {c.id, grid[c.pos].id} \ {NoId}

\* Slip: the file is left to the draft timer.
EndSaveUnflushed(deferred) ==
  LET queue == captured \ deferred
      at(p, cs) == \E c \in cs : c.pos = p
      after == [p \in Slots |->
                 [grid[p] EXCEPT !.queued = at(p, queue) \/ (@ /\ ~at(p, deferred))]]
  IN /\ saving
     /\ grid' = after
     /\ promised' = promised \cup {c.id : c \in queue}
     /\ excused' = excused \cup {c.id : c \in deferred} \cup UNION {Mistaken(c) : c \in captured}
     /\ saving' = FALSE /\ captured' = {}
     /\ Schedule(after, draining)
     /\ UNCHANGED <<file, pageVars, issued, online, drainVars, acts, serverVars, faults, edited,
                    abandoned>>

\* The captured rows are queued by their number in the table; the possible
\* duplicates among them that the cashier defers become ordinary rows.
EndSave(deferred) ==
  LET queue == captured \ deferred
      at(p, cs) == \E c \in cs : c.pos = p
      after == [p \in Slots |->
                 [grid[p] EXCEPT !.queued = at(p, queue) \/ (@ /\ ~at(p, deferred))]]
  IN /\ saving
     /\ grid' = after /\ Flush(after)
     /\ promised' = promised \cup {c.id : c \in queue}
     /\ excused' = excused \cup Overwritten(after) \cup {c.id : c \in deferred}
                     \cup UNION {Mistaken(c) : c \in captured}
     /\ saving' = FALSE /\ captured' = {}
     /\ \/ queue # {} /\ Schedule(after, draining)
        \/ queue = {} /\ UNCHANGED armed
     /\ UNCHANGED <<pageVars, issued, online, drainVars, acts, serverVars, faults, edited,
                    abandoned>>

\* The duplicate dialog is cancelled.  Nothing wakes the drain.
AbortSave ==
  /\ saving
  /\ saving' = FALSE /\ captured' = {}
  /\ Flush(grid)
  /\ excused' = excused \cup Overwritten(grid)
  /\ UNCHANGED <<grid, pageVars, issued, armed, online, drainVars, acts, serverVars, faults,
                 promised, edited, abandoned>>

-----------------------------------------------------------------------------
(* The drain *)

Todo(b) == {p \in Slots : b[p].out = "todo"}
NextChunk(b) == {p \in Todo(b) : Cardinality({q \in Todo(b) : q <= p}) <= Chunk}

\* Slip: rows are sent that the file does not have yet.
StartDrainUnflushed ==
  LET taken == [p \in Slots |-> IF p \in Waiting(grid)
                                  THEN [id |-> grid[p].id, text |-> grid[p].text, out |-> "todo"]
                                  ELSE NotTaken]
  IN /\ ~draining /\ ~saving /\ page = "open" /\ online /\ Waiting(grid) # {}
     /\ draining' = TRUE /\ cancelled' = FALSE
     /\ batch' = taken
     /\ call' = Request(taken, NextChunk(taken)) /\ replayed' = FALSE
     /\ UNCHANGED <<file, excused>>

\* The timer fires: _kick_outbox_drain, and the drain up to its first request.
StartDrain ==
  LET taken == [p \in Slots |-> IF p \in Waiting(grid)
                                  THEN [id |-> grid[p].id, text |-> grid[p].text, out |-> "todo"]
                                  ELSE NotTaken]
  IN /\ ~draining /\ ~saving /\ page = "open" /\ online /\ Waiting(grid) # {}
     /\ draining' = TRUE /\ cancelled' = FALSE
     /\ batch' = taken
     /\ call' = Request(taken, NextChunk(taken)) /\ replayed' = FALSE
     /\ Flush(grid)
     /\ excused' = excused \cup Overwritten(grid)

TimerFires ==
  /\ armed /\ armed' = FALSE
  /\ \/ StartDrain
     \/ /\ draining \/ saving \/ page # "open" \/ ~online \/ Waiting(grid) = {}
        /\ UNCHANGED <<file, drainVars, excused>>
  /\ UNCHANGED <<grid, pageVars, issued, online, saveVars, serverVars, faults, promised,
                 edited, abandoned>>

\* Rows are cleared and marked by the numbers they had when the drain began.
\* The saved ones reappear above the editable rows, so a row that Save captured
\* is so many places further down than the number it was captured under.
FinishDrain(b) ==
  LET saved == {p \in Slots : b[p].out = "saved"}
      kept == {p \in Slots : b[p].out \in {"failed", "todo"}}
      after == [p \in Slots |-> IF p \in saved THEN Empty
                                ELSE [grid[p] EXCEPT !.queued = @ \/ p \in kept]]
      victims == {p \in saved : grid[p].id # b[p].id} \cup {p \in kept : ~grid[p].queued}
  IN /\ grid' = after /\ Flush(after)
     /\ captured' = {[c EXCEPT !.pos = @ - Cardinality(saved)] : c \in captured}
     /\ excused' = excused \cup Overwritten(after)
                     \cup ({grid[p].id : p \in victims} \ {NoId})
     /\ draining' = FALSE /\ cancelled' = FALSE
     /\ batch' = NoBatch /\ call' = NoCall /\ replayed' = FALSE
     /\ \/ Todo(b) = {} /\ Schedule(after, saving)
        \/ Todo(b) # {} /\ UNCHANGED armed

\* With outcomes b: the next chunk, or the end when none is left or Esc came.
Proceed(b) ==
  \/ /\ Todo(b) = {} \/ cancelled
     /\ FinishDrain(b)
  \/ /\ Todo(b) # {} /\ ~cancelled
     /\ batch' = b
     /\ call' = Request(b, NextChunk(b)) /\ replayed' = FALSE
     /\ UNCHANGED <<grid, file, armed, draining, cancelled, captured, excused>>

\* The outcome of the rows of the request, of which some were refused.
Outcomes(refused) ==
  [p \in Slots |->
    IF batch[p].out = "todo" /\ batch[p].id \in ItemIds(call)
      THEN [batch[p] EXCEPT !.out = IF batch[p].id \in refused THEN "failed" ELSE "saved"]
      ELSE batch[p]]

Answered ==
  /\ call.phase = "done"
  /\ Proceed(Outcomes(call.refused))
  /\ UNCHANGED <<pageVars, issued, online, saving, acts, serverVars, faults, promised, edited,
                 abandoned>>

\* Whoever sent the request waits no longer.  It may never have arrived, have
\* been answered or have died, or run on.
GiveUp ==
  \/ Fault /\ UNCHANGED <<strays, abandoned>>
  \/ /\ call.phase \in {"sent", "looked"} /\ call \notin strays
     /\ faults + 2 <= MaxFaults /\ faults' = faults + 2
     /\ strays' = strays \cup {call}
     /\ abandoned' = abandoned \cup ItemIds(call)

RequestFails ==
  /\ call # NoCall
  /\ GiveUp
  /\ Proceed(Outcomes(ItemIds(call)))
  /\ UNCHANGED <<pageVars, issued, online, saving, acts, docs, promised, edited>>

\* A timeout is followed by one replay of the same rows.
TimesOut ==
  /\ call # NoCall /\ ~replayed
  /\ GiveUp
  /\ call' = [NoCall EXCEPT !.items = call.items, !.phase = "sent"]
  /\ replayed' = TRUE
  /\ UNCHANGED <<grid, file, pageVars, issued, armed, online, draining, cancelled, batch,
                 saveVars, docs, promised, excused, edited>>

\* cancel_outbox_sync (Esc).
CancelSync ==
  /\ page = "open" /\ (armed \/ draining) /\ Fault
  /\ armed' = FALSE /\ cancelled' = draining
  /\ UNCHANGED <<grid, file, pageVars, issued, online, draining, batch, call, replayed,
                 saveVars, serverVars, historyVars>>

-----------------------------------------------------------------------------
(* The server: bulk-create *)

\* Slip: the lookup is left to the index.
NotLookedUp(r) == [r EXCEPT !.phase = "looked"]

\* _prefetch_existing_by_client_row_id.
LookedUp(r) == [r EXCEPT !.phase = "looked", !.found = {i \in ItemIds(r) : Stored(i)}]

Missing(r) == ItemIds(r) \ r.found
TextOf(r, i) == (CHOOSE x \in r.items : x.id = i).text

\* insert_many of rows; the index turns away the ones stored since the lookup.
Inserted(r, rows) ==
  [i \in Ids |-> IF i \in rows /\ ~(Indexed /\ Stored(i))
                   THEN Append(docs[i], TextOf(r, i)) ELSE docs[i]]

Lookup ==
  /\ call.phase = "sent"
  /\ call' = LookedUp(call)
  /\ UNCHANGED <<grid, file, pageVars, issued, armed, online, draining, cancelled, batch,
                 replayed, saveVars, serverVars, faults, historyVars>>

\* On an error some rows may be stored; those that are not are refused, or all.
Insert ==
  /\ call.phase = "looked"
  /\ \/ /\ docs' = Inserted(call, Missing(call))
        /\ call' = [call EXCEPT !.phase = "done"]
        /\ UNCHANGED faults
     \/ \E rows \in SUBSET Missing(call) :
          /\ Fault
          /\ docs' = Inserted(call, rows)
          /\ \E refused \in {Missing(call) \ rows, Missing(call)} :
               call' = [call EXCEPT !.phase = "done", !.refused = refused]
  /\ UNCHANGED <<grid, file, pageVars, issued, armed, online, draining, cancelled, batch,
                 replayed, saveVars, strays, historyVars>>

StrayStep(r) ==
  /\ \/ /\ r.phase = "sent"
        /\ strays' = (strays \ {r}) \cup {LookedUp(r)}
        /\ UNCHANGED docs
     \/ /\ r.phase = "looked"
        /\ strays' = strays \ {r}
        /\ \E rows \in SUBSET Missing(r) : docs' = Inserted(r, rows)
  /\ UNCHANGED <<grid, file, pageVars, issued, armed, online, drainVars, saveVars,
                 faults, historyVars>>

-----------------------------------------------------------------------------
(* Connectivity, loading and crashes *)

\* Slip: only a change of the connection is signalled.
ProbeOnChange ==
  /\ page # "closed" /\ ~saving
  /\ online' = TRUE
  /\ armed' = (armed \/ (~online /\ page = "open" /\ ~draining /\ Waiting(grid) # {}))
  /\ UNCHANGED <<grid, file, pageVars, issued, drainVars, saveVars, serverVars, faults,
                 historyVars>>

\* Every successful probe is signalled, also when the client was online before.
\* Probes pause during a Save.
ProbeSucceeds ==
  /\ page # "closed" /\ ~saving
  /\ online' = TRUE
  /\ armed' = (armed \/ (page = "open" /\ ~draining /\ Waiting(grid) # {}))
  /\ UNCHANGED <<grid, file, pageVars, issued, drainVars, saveVars, serverVars, faults,
                 historyVars>>

GoOffline ==
  /\ online /\ Fault
  /\ online' = FALSE
  /\ UNCHANGED <<grid, file, pageVars, issued, armed, drainVars, saveVars, serverVars,
                 historyVars>>

\* The day is opened or reloaded, after the drain in flight.
StartLoad ==
  /\ page # "loading" /\ ~saving /\ ~draining
  /\ page' = "loading"
  /\ fetched' = docs
  /\ \/ page = "open" /\ loaded /\ Act
     \/ ~(page = "open" /\ loaded) /\ UNCHANGED acts
  /\ UNCHANGED <<grid, file, loaded, issued, armed, online, drainVars, saving, captured,
                 serverVars, faults, historyVars>>

\* The saved rows of text t.
Copies(t) == UNION {{<<i, n>> : n \in {m \in DOMAIN fetched[i] : fetched[i][m] = t}} : i \in Ids}

\* Rows of the file whose id the day's rows do not have; of these, the first of
\* each text are given up for as many saved rows of that text.
Unknown == {p \in Slots : HasData(file[p]) /\ fetched[file[p].id] = <<>>}
Claimed ==
  {p \in Unknown :
     Cardinality({q \in Unknown : q < p /\ file[q].text = file[p].text})
       < Cardinality(Copies(file[p].text))}

\* The drain the load asks for at its end is not scheduled: the load is still
\* in flight then.  The next probe schedules it.
EndLoad ==
  LET restored == [p \in Slots |-> IF p \in Unknown \ Claimed THEN file[p] ELSE Empty]
  IN /\ page = "loading"
     /\ page' = "open" /\ loaded' = TRUE /\ fetched' = Nothing
     /\ grid' = restored /\ file' = restored
     /\ excused' = excused \cup {file[p].id : p \in Claimed}
     /\ UNCHANGED <<issued, armed, online, drainVars, saveVars, serverVars, faults, promised, edited,
                    abandoned>>

LoadFails ==
  /\ page = "loading" /\ Fault
  /\ page' = "open" /\ fetched' = Nothing
  /\ UNCHANGED <<grid, file, loaded, issued, armed, online, drainVars, saveVars, serverVars,
                 historyVars>>

Crash ==
  /\ page # "closed"
  /\ page' = "closed" /\ loaded' = FALSE /\ fetched' = Nothing
  /\ grid' = Emptied
  /\ armed' = FALSE
  /\ draining' = FALSE /\ cancelled' = FALSE /\ batch' = NoBatch
  /\ call' = NoCall /\ replayed' = FALSE
  /\ saving' = FALSE /\ captured' = {}
  /\ GiveUp
  /\ UNCHANGED <<file, issued, online, acts, docs, promised, excused, edited>>

-----------------------------------------------------------------------------
Typing ==
  \/ \E p \in Slots, t \in Texts : Type(p, t)
  \/ \E p \in Slots, t \in Texts \cup {Blank} : Edit(p, t)
  \/ \E p \in Slots : InsertAbove(p) \/ Copy(p) \/ Delete(p)
  \/ Autosave

SaveSteps ==
  \/ OfflineSave \/ BeginSave \/ AbortSave
  \/ \E deferred \in SUBSET captured : EndSave(deferred)

DrainSteps == TimerFires \/ Answered \/ RequestFails \/ TimesOut \/ CancelSync

ServerSteps == Lookup \/ Insert \/ \E r \in strays : StrayStep(r)

PageSteps == ProbeSucceeds \/ GoOffline \/ StartLoad \/ EndLoad \/ LoadFails \/ Crash

Next == Typing \/ SaveSteps \/ DrainSteps \/ ServerSteps \/ PageSteps

\* Timers fire, probes go on, a request is answered or fails, the dialog of a
\* Save ends one way or another, and the cashier opens the day again after a
\* crash or a failed load.
Answering == Lookup \/ Insert \/ Answered
Reopening == (~loaded /\ StartLoad) \/ EndLoad

Fairness ==
  /\ WF_vars(TimerFires) /\ WF_vars(Answering)
  /\ WF_vars(ProbeSucceeds)
  /\ WF_vars(AbortSave)
  /\ WF_vars(Reopening)

Spec == Init /\ [][Next]_vars /\ Fairness

-----------------------------------------------------------------------------
(* Properties *)

Slot == [id : Ids \cup {NoId}, text : Texts \cup {Blank}, queued : BOOLEAN]
Handlers ==
  [items : SUBSET [id : Ids, text : Texts], phase : {"none", "sent", "looked", "done"},
   found : SUBSET Ids, refused : SUBSET Ids]

SavesTypeOK ==
  /\ grid \in [Slots -> Slot] /\ file \in [Slots -> Slot]
  /\ page \in {"closed", "loading", "open"} /\ loaded \in BOOLEAN
  /\ fetched \in [Ids -> Seq(Texts)] /\ docs \in [Ids -> Seq(Texts)]
  /\ issued \in 0..MaxRows /\ faults \in 0..MaxFaults /\ acts \in 0..MaxActs
  /\ armed \in BOOLEAN /\ online \in BOOLEAN /\ draining \in BOOLEAN
  /\ cancelled \in BOOLEAN /\ replayed \in BOOLEAN /\ saving \in BOOLEAN
  /\ batch \in [Slots -> [id : Ids \cup {NoId}, text : Texts \cup {Blank},
                          out : {"none", "todo", "saved", "failed"}]]
  /\ call \in Handlers /\ strays \subseteq Handlers
  /\ captured \subseteq [pos : Int, id : Ids]
  /\ promised \subseteq Ids /\ excused \subseteq Ids
  /\ edited \subseteq Ids /\ abandoned \subseteq Ids

\* A row reported as saved or queued is on the server or in the draft file, at
\* every moment and so also after a crash.  Excused are rows that the cashier
\* has taken back, and those that the code loses: a row that stood where another one was
\* cleared, a row whose text equals that of a saved row when the file is read
\* back, and the rows of a file that is overwritten after a failed load.
PromiseKept == \A i \in promised \ excused : Stored(i) \/ i \in IdsOf(file)

\* Without the unique index a row may be stored twice, but only if the client
\* gave up a request for it that was still running.
OneDocPerRow ==
  \A i \in Ids : Len(docs[i]) <= 1 \/ (~Indexed /\ i \in abandoned)

\* What an acknowledged row said in the grid is what the server has, unless it
\* was changed after it was sent.
AckKeepsText ==
  [][draining /\ ~draining' =>
       \A p \in Slots : grid[p].id # NoId /\ grid[p].id \notin IdsOf(grid') /\ page' = "open" =>
         \/ grid[p].id \in excused' \cup edited
         \/ Stored(grid[p].id) /\ \A n \in DOMAIN docs[grid[p].id] :
                                    docs[grid[p].id][n] = grid[p].text]_vars

\* The client keeps what SavePromise promises of every row.
Promise ==
  INSTANCE SavePromise WITH
    fate <- [i \in Ids |-> IF Stored(i) THEN "stored"
                           ELSE IF i \in excused THEN "released"
                           ELSE IF i \in promised THEN "promised" ELSE "none"]

SavesArePromised == Promise!Spec

=============================================================================
