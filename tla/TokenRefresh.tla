---------------------------- MODULE TokenRefresh ----------------------------
(***************************************************************************)
(* The token pair of the desktop client and the session on the server: any *)
(* number of requests share one pair, an access token runs out, and the    *)
(* first request told so rotates the refresh secret while the others wait  *)
(* for the lock and go on with what it brought.  A refresh secret that was *)
(* rotated and is used again revokes the session.                          *)
(*                                                                         *)
(* A server's answer and its arrival are one step, except where another    *)
(* request can tell them apart: logout and refresh.                        *)
(***************************************************************************)
EXTENDS Naturals

CONSTANTS
    Tasks,          \* coroutines of the client that send requests
    NoTask,
    MaxSessions,    \* bound: successful logins
    MaxGen,         \* bound: access tokens of one session
    MaxCalls,       \* refresh requests that may be at the server at once
    MaxFaults       \* bound: lost answers and cancelled coroutines

ASSUME TokenConstants ==
    /\ NoTask \notin Tasks
    /\ MaxSessions \in Nat /\ MaxGen \in Nat /\ MaxCalls \in Nat /\ MaxFaults \in Nat

SessionIds == 1..MaxSessions
CallIds    == 1..MaxCalls

VARIABLES
    tokens,     \* ApiClient._access_token and _refresh_token, set and cleared together
    lock,       \* who holds _refresh_lock
    task,       \* the coroutines
    window,     \* the sign-in whose dashboard is open; 0 is the sign-in window
    sessions,   \* auth_sessions
    calls,      \* POST auth/refresh, at the server or answered
    faults,     \* number of faults so far
    cut,        \* history: a refresh was cancelled while it waited for its answer
    crossed     \* history: the pair was cleared or replaced beside a refresh that
                \* the server can only refuse ("ended"), or may grant ("open")

vars == <<tokens, lock, task, window, sessions, calls, faults, cut, crossed>>

(* The pair of a session's n-th rotation.                                  *)
Token == [session : 0..MaxSessions, gen : Nat]
NoTokens == [session |-> 0, gen |-> 0]
Signed == tokens # NoTokens

(* A sign-in's session; its access tokens up to `ranOut` are past expiry.  *)
Session == [gen : Nat, ranOut : Nat, revoked : BOOLEAN]
NoSession == [gen |-> 0, ranOut |-> 0, revoked |-> FALSE]

(* What a coroutine sends: `home` is the sign-in whose dashboard it works  *)
(* for, `sent` the token of its header; `left` tells that its user signed  *)
(* out meanwhile.                                                          *)
Coroutine == [op : {"call", "login", "logout"},
              pc : {"idle", "signing_in", "asking", "rejected", "refreshing",
                    "retrying", "logged_out"},
              home : 0..MaxSessions, sent : Token, call : 0..MaxCalls, left : BOOLEAN]
Idle == [op |-> "call", pc |-> "idle", home |-> 0, sent |-> NoTokens,
         call |-> 0, left |-> FALSE]

Call == [pc : {"none", "sent", "read", "reused", "answered"}, token : Token, answer : Token]
NoCall == [pc |-> "none", token |-> NoTokens, answer |-> NoTokens]

TypeOK ==
    /\ tokens \in Token /\ lock \in Tasks \cup {NoTask}
    /\ window \in 0..MaxSessions
    /\ task \in [Tasks -> Coroutine]
    /\ sessions \in [SessionIds -> Session]
    /\ calls \in [CallIds -> Call]
    /\ faults \in Nat /\ cut \in BOOLEAN /\ crossed \in {"never", "ended", "open"}
    \* the lock is held exactly while its holder waits for the answer to a call
    /\ \A t \in Tasks : lock = t <=> task[t].pc = "refreshing"
    /\ \A t \in Tasks : task[t].pc = "refreshing" => calls[task[t].call].pc # "none"

(* current_user: the token has not run out and its session is not revoked. *)
Valid(k) == ~sessions[k.session].revoked /\ k.gen > sessions[k.session].ranOut

Fault == faults < MaxFaults /\ faults' = faults + 1

-----------------------------------------------------------------------------
(* The end of a request.                                                   *)

Ended(t) == [task EXCEPT ![t] = Idle]

(* api_client.logout clears the pair however its request ended, and the    *)
(* dashboard gives way to the sign-in window.                              *)
Leave(t) ==
    /\ tokens' = NoTokens /\ window' = 0
    /\ task' = [s \in Tasks |-> IF s = t THEN Idle
                                ELSE [task[s] EXCEPT !.left = task[s].pc # "idle"]]

(* The request raises: a login gives up its pair, a logout leaves.  `pair` *)
(* is what the request itself left in the client.                          *)
Fails(t, pair) ==
    \/ task[t].op = "call" /\ task' = Ended(t) /\ tokens' = pair /\ UNCHANGED window
    \/ task[t].op = "login" /\ task' = Ended(t) /\ tokens' = NoTokens /\ UNCHANGED window
    \/ task[t].op = "logout" /\ Leave(t)

(* Another coroutine may be waiting for its refresh when the pair is       *)
(* cleared or replaced.                                                    *)
Crossing(t) ==
    LET beside == lock \notin {t, NoTask} /\ tokens' # tokens
        dead   == /\ sessions[task[lock].sent.session].revoked
                  /\ calls[task[lock].call].answer = NoTokens
    IN crossed' = IF ~beside THEN crossed
                  ELSE IF dead /\ crossed # "open" THEN "ended" ELSE "open"

-----------------------------------------------------------------------------
(* The client's requests (_send).                                          *)

Ask(t) ==
    /\ task[t].pc = "idle" /\ window # 0 /\ Signed
    /\ task' = [task EXCEPT ![t] = [Idle EXCEPT !.pc = "asking", !.home = window, !.sent = tokens]]
    /\ UNCHANGED <<tokens, lock, window, sessions, calls, faults, cut, crossed>>

(* The sign-out of the open dashboard; without tokens there is nothing to  *)
(* tell the server.                                                        *)
StartLogout(t) ==
    /\ task[t].pc = "idle" /\ window # 0
    /\ \A s \in Tasks : task[s].op # "logout"
    /\ \/ /\ Signed
          /\ task' = [task EXCEPT ![t] = [Idle EXCEPT !.op = "logout", !.pc = "asking",
                                                      !.home = window, !.sent = tokens]]
          /\ UNCHANGED <<tokens, window>>
       \/ ~Signed /\ Leave(t)
    /\ Crossing(t)
    /\ UNCHANGED <<lock, sessions, calls, faults, cut>>

(* authenticate: the pair is dropped, a new session asked for.             *)
StartLogin(t) ==
    /\ task[t].pc = "idle" /\ window = 0
    /\ \A s \in Tasks : task[s].op # "login"
    /\ task' = [task EXCEPT ![t] = [Idle EXCEPT !.op = "login", !.pc = "signing_in"]]
    /\ tokens' = NoTokens
    /\ Crossing(t)
    /\ UNCHANGED <<lock, window, sessions, calls, faults, cut>>

(* issue_session and set_tokens; then GET auth/me with the new pair.       *)
SignedIn(t) ==
    /\ task[t].pc = "signing_in"
    /\ \E s \in SessionIds :
        /\ sessions[s] = NoSession /\ \A n \in 1..(s - 1) : sessions[n] # NoSession
        /\ sessions' = [sessions EXCEPT ![s].gen = 1]
        /\ tokens' = [session |-> s, gen |-> 1]
        /\ task' = [task EXCEPT ![t].pc = "asking", ![t].home = s, ![t].sent = tokens']
    /\ Crossing(t)
    /\ UNCHANGED <<lock, window, calls, faults, cut>>

(* A wrong password or no answer: nobody is signed in.                     *)
NotSignedIn(t) ==
    /\ task[t].pc = "signing_in"
    /\ task' = Ended(t)
    /\ UNCHANGED <<tokens, lock, window, sessions, calls, faults, cut, crossed>>

Served(t) ==
    /\ task[t].pc \in {"asking", "retrying"} /\ Valid(task[t].sent)
    /\ \/ task[t].op = "call" /\ task' = Ended(t) /\ UNCHANGED <<window, sessions>>
       \/ task[t].op = "login" /\ task' = Ended(t) /\ window' = task[t].home /\ UNCHANGED sessions
       \/ /\ task[t].op = "logout"
          /\ sessions' = [sessions EXCEPT ![task[t].sent.session].revoked = TRUE]
          /\ task' = [task EXCEPT ![t].pc = "logged_out"]
          /\ UNCHANGED window
    /\ UNCHANGED <<tokens, lock, calls, faults, cut, crossed>>

LoggedOut(t) ==
    /\ task[t].pc = "logged_out"
    /\ Leave(t)
    /\ Crossing(t)
    /\ UNCHANGED <<lock, sessions, calls, faults, cut>>

\* Slip: a second 401 drops the pair.
RejectedForGood(t) ==
    /\ task[t].pc = "retrying" /\ ~Valid(task[t].sent)
    /\ Fails(t, NoTokens)
    /\ Crossing(t)
    /\ UNCHANGED <<lock, sessions, calls, faults, cut>>

(* 401: the first time the request goes for a new token, the second time   *)
(* it is an error.                                                         *)
Rejected(t) ==
    /\ task[t].pc = "asking" /\ ~Valid(task[t].sent)
    /\ task' = [task EXCEPT ![t].pc = "rejected"]
    /\ UNCHANGED <<tokens, lock, window, sessions, calls, faults, cut, crossed>>

RejectedAgain(t) ==
    /\ task[t].pc = "retrying" /\ ~Valid(task[t].sent)
    /\ Fails(t, tokens)
    /\ Crossing(t)
    /\ UNCHANGED <<lock, sessions, calls, faults, cut>>

(* No answer, or no connection.                                            *)
Lost(t) ==
    /\ task[t].pc \in {"asking", "retrying", "logged_out"}
    /\ Fault
    /\ Fails(t, tokens)
    /\ Crossing(t)
    /\ UNCHANGED <<lock, sessions, calls, cut>>

-----------------------------------------------------------------------------
(* _refresh, inside the lock.                                              *)

Retried(t, k) == [task EXCEPT ![t].pc = "retrying", ![t].sent = k, ![t].call = 0]

(* Another request has brought a new pair meanwhile.                       *)
Renewed(t) ==
    /\ task[t].pc = "rejected" /\ lock = NoTask
    /\ Signed /\ tokens # task[t].sent
    /\ task' = Retried(t, tokens)
    /\ UNCHANGED <<tokens, lock, window, sessions, calls, faults, cut, crossed>>

\* Slip: only the screens' requests look whether anybody is signed in.
GivesUpCalls(t) ==
    /\ task[t].pc = "rejected" /\ lock = NoTask /\ ~Signed
    /\ task[t].op = "call" /\ Fails(t, tokens)
    /\ UNCHANGED <<lock, sessions, calls, faults, cut, crossed>>

(* Nobody is signed in any more.                                           *)
GivesUp(t) ==
    /\ task[t].pc = "rejected" /\ lock = NoTask /\ ~Signed
    /\ Fails(t, tokens)
    /\ UNCHANGED <<lock, sessions, calls, faults, cut, crossed>>

Unused(c) ==
    calls[c].pc \in {"none", "answered"} /\ \A t \in Tasks : task[t].call # c

\* Slip: the secret is taken when the request is rejected, not inside the lock.
RefreshOfRejected(t) ==
    /\ task[t].pc = "rejected" /\ lock = NoTask
    /\ Signed
    /\ lock' = t
    /\ \E c \in CallIds :
        /\ Unused(c)
        /\ calls' = [calls EXCEPT ![c] = [NoCall EXCEPT !.pc = "sent", !.token = task[t].sent]]
        /\ task' = [task EXCEPT ![t].pc = "refreshing", ![t].call = c]
    /\ UNCHANGED <<tokens, window, sessions, faults, cut, crossed>>

Refresh(t) ==
    /\ task[t].pc = "rejected" /\ lock = NoTask
    /\ Signed /\ tokens = task[t].sent
    /\ lock' = t
    /\ \E c \in CallIds :
        /\ Unused(c) /\ \A d \in 1..(c - 1) : ~Unused(d)
        /\ calls' = [calls EXCEPT ![c] = [NoCall EXCEPT !.pc = "sent", !.token = tokens]]
        /\ task' = [task EXCEPT ![t].pc = "refreshing", ![t].call = c]
    /\ UNCHANGED <<tokens, window, sessions, faults, cut, crossed>>

(* set_tokens, or clear_tokens when the server refused.                    *)
RefreshAnswered(t) ==
    /\ task[t].pc = "refreshing" /\ calls[task[t].call].pc = "answered"
    /\ lock' = NoTask
    /\ LET k == calls[task[t].call].answer IN
        \/ k # NoTokens /\ tokens' = k /\ task' = Retried(t, k) /\ UNCHANGED window
        \/ k = NoTokens /\ Fails(t, NoTokens)
    /\ calls' = [calls EXCEPT ![task[t].call] = NoCall]
    /\ UNCHANGED <<sessions, faults, cut, crossed>>

\* Slip: the lock is left held.
RefreshLostLocked(t) ==
    /\ task[t].pc = "refreshing"
    /\ Fault
    /\ Fails(t, NoTokens)
    /\ UNCHANGED <<lock, sessions, calls, cut, crossed>>

(* No answer: the user is signed out, whatever the server has done.        *)
RefreshLost(t) ==
    /\ task[t].pc = "refreshing"
    /\ Fault
    /\ lock' = NoTask
    /\ Fails(t, NoTokens)
    /\ UNCHANGED <<sessions, calls, cut, crossed>>

(* The badge stream is cancelled whenever a dialog opens, an upload when   *)
(* its user asks: CancelledError passes _refresh by, and the pair stays.   *)
Cancel(t) ==
    /\ task[t].pc # "idle" /\ task[t].op = "call"
    /\ Fault
    /\ task' = Ended(t)
    /\ lock' = IF lock = t THEN NoTask ELSE lock
    /\ cut' = (cut \/ task[t].pc = "refreshing")
    /\ UNCHANGED <<tokens, window, sessions, calls, crossed>>

-----------------------------------------------------------------------------
(* The server's refresh: find_one, then find_one_and_update on the secret  *)
(* it found.                                                               *)

Answer(c, k) == [calls EXCEPT ![c].pc = "answered", ![c].answer = k]

RefreshReads(c) ==
    /\ calls[c].pc = "sent"
    /\ LET s == sessions[calls[c].token.session] IN
        calls' = IF s.revoked THEN Answer(c, NoTokens)
                 ELSE [calls EXCEPT ![c].pc = IF s.gen = calls[c].token.gen THEN "read" ELSE "reused"]
    /\ UNCHANGED <<tokens, lock, task, window, sessions, faults, cut, crossed>>

RevokesReused(c) ==
    /\ calls[c].pc = "reused"
    /\ sessions' = [sessions EXCEPT ![calls[c].token.session].revoked = TRUE]
    /\ calls' = Answer(c, NoTokens)
    /\ UNCHANGED <<tokens, lock, task, window, faults, cut, crossed>>

(* Slips: the update's filter without the secret, or without revoked_at.   *)
RotatableTwice(k) == ~sessions[k.session].revoked

RotatableRevoked(k) == sessions[k.session].gen = k.gen

Rotatable(k) == ~sessions[k.session].revoked /\ sessions[k.session].gen = k.gen

Rotates(c) ==
    /\ calls[c].pc = "read"
    /\ LET k == calls[c].token IN
        \/ /\ Rotatable(k)
           /\ sessions' = [sessions EXCEPT ![k.session].gen = @ + 1]
           /\ calls' = Answer(c, [k EXCEPT !.gen = sessions'[k.session].gen])
        \/ ~Rotatable(k) /\ calls' = Answer(c, NoTokens) /\ UNCHANGED sessions
    /\ UNCHANGED <<tokens, lock, task, window, faults, cut, crossed>>

(* Access tokens run out; a session is revoked by an administrator, by a   *)
(* change of password elsewhere, or expires.                               *)
RunOut(s) ==
    /\ sessions[s].ranOut < sessions[s].gen /\ sessions[s].gen < MaxGen
    /\ ~sessions[s].revoked
    /\ sessions' = [sessions EXCEPT ![s].ranOut = sessions[s].gen]
    /\ UNCHANGED <<tokens, lock, task, window, calls, faults, cut, crossed>>

Revoke(s) ==
    /\ sessions[s] # NoSession /\ ~sessions[s].revoked
    /\ sessions' = [sessions EXCEPT ![s].revoked = TRUE]
    /\ UNCHANGED <<tokens, lock, task, window, calls, faults, cut, crossed>>

(* After a restore of the database the backup page drops the pair; the     *)
(* sign-out follows.                                                       *)
Restored ==
    /\ window # 0 /\ Signed
    /\ tokens' = NoTokens
    /\ Crossing(NoTask)
    /\ UNCHANGED <<lock, task, window, sessions, calls, faults, cut>>

-----------------------------------------------------------------------------

Init ==
    /\ tokens = NoTokens /\ lock = NoTask /\ window = 0
    /\ task = [t \in Tasks |-> Idle]
    /\ sessions = [s \in SessionIds |-> NoSession]
    /\ calls = [c \in CallIds |-> NoCall]
    /\ faults = 0 /\ cut = FALSE /\ crossed = "never"

Begin(t) == Ask(t) \/ StartLogout(t) \/ StartLogin(t)

Proceed(t) ==
    \/ SignedIn(t) \/ NotSignedIn(t) \/ Served(t) \/ LoggedOut(t) \/ Rejected(t)
    \/ RejectedAgain(t) \/ Renewed(t) \/ GivesUp(t) \/ Refresh(t) \/ RefreshAnswered(t)

Serve(c) == RefreshReads(c) \/ RevokesReused(c) \/ Rotates(c)

Next ==
    \/ \E t \in Tasks : Begin(t) \/ Proceed(t) \/ Lost(t) \/ RefreshLost(t) \/ Cancel(t)
    \/ \E c \in CallIds : Serve(c)
    \/ \E s \in SessionIds : RunOut(s) \/ Revoke(s)
    \/ Restored

(* The event loop resumes every coroutine that can go on, asyncio.Lock     *)
(* serves its waiters in turn (more than weak fairness), and the server    *)
(* answers what it received.                                               *)
Fairness ==
    /\ \A t \in Tasks : WF_vars(Proceed(t))
    /\ \A c \in CallIds : WF_vars(Serve(c))

Spec == Init /\ [][Next]_vars /\ Fairness

-----------------------------------------------------------------------------

(* No session is ever revoked because its own client repeated a refresh    *)
(* secret (auth.refresh_reuse stands for a stolen one), unless a refresh   *)
(* was cancelled on the way.                                               *)
NoSelfReuse == \A c \in CallIds : calls[c].pc = "reused" => cut

(* A pair that the client holds is the newest of its session, as soon as   *)
(* no refresh is on its way, and so is every pair the server has answered: *)
(* two refreshes never rotate the same secret.                             *)
NewestPair ==
    /\ \A c \in CallIds : calls[c].answer # NoTokens =>
            calls[c].answer.gen = sessions[calls[c].answer.session].gen
    /\ Signed /\ lock = NoTask =>
            tokens.gen = sessions[tokens.session].gen \/ cut

(* Every request goes out under the sign-in whose dashboard made it,       *)
(* unless it has ended since, or a refresh outlived a sign-out that came   *)
(* before the session was revoked.                                         *)
OwnTokens ==
    crossed # "open" =>
        /\ \A t \in Tasks : task[t].pc \in {"asking", "retrying"} /\ ~task[t].left =>
                task[t].sent.session = task[t].home
        /\ window # 0 /\ Signed => tokens.session = window

(* Nobody is signed out by requests that are rejected at the same time:    *)
(* the pair is dropped in the middle of a dashboard only when its session  *)
(* is revoked, an answer got lost, a refresh was cut off or outlived a     *)
(* sign-out, or the database was restored.                                 *)
StaysSignedIn ==
    [][Signed /\ ~Signed' /\ window # 0 /\ window' = window =>
        \/ sessions[tokens.session].revoked
        \/ faults' # faults \/ cut \/ crossed # "never"
        \/ Restored]_vars

(* Every request ends, however many wait for the same refresh and whoever  *)
(* of them is cancelled.                                                   *)
RequestsEnd == \A t \in Tasks : task[t].pc # "idle" ~> task[t].pc = "idle"
=============================================================================
