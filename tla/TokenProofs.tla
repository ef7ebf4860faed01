---------------------------- MODULE TokenProofs ----------------------------
(***************************************************************************)
(* Proofs about TokenRefresh, for any number of coroutines, sign-ins,      *)
(* rotations, calls and faults.                                            *)
(*                                                                         *)
(* NoSelfReuse and NewestPair are not inductive: that a secret is sent     *)
(* once needs that a pair the server has answered is nowhere else yet      *)
(* (AnswersFresh), and that the secret of the client's pair is on its way  *)
(* at most in the call of the coroutine that holds the lock (OnlyHolder).  *)
(* Neither are OwnTokens and StaysSignedIn: that nobody takes over a       *)
(* stranger's pair needs that one user comes or goes at a time (Doors),    *)
(* that an answer is of the session that was asked for (CallsOwned), that  *)
(* beside a refresh the pair stays, unless the refresh can only fail       *)
(* (Beside), and that the server refuses nobody else (RefusalsDue).        *)
(***************************************************************************)
EXTENDS TokenRefresh, TLAPS

(* A pair that the server has issued.                                      *)
Issued(k) ==
    /\ k.session \in SessionIds /\ k.gen >= 1
    /\ k.gen <= sessions[k.session].gen

Sent(c) == calls[c].pc # "none"

PairSound == Signed => Issued(tokens)

CoroutinesSound ==
    \A t \in Tasks :
        /\ task[t].pc \notin {"idle", "signing_in"} => Issued(task[t].sent)
        /\ IF task[t].pc = "refreshing" THEN task[t].call \in CallIds ELSE task[t].call = 0
        /\ task[t].op = "login" => task[t].pc # "logged_out"

CallsSound ==
    \A c \in CallIds :
        /\ Sent(c) => Issued(calls[c].token)
        /\ calls[c].answer # NoTokens =>
                /\ Sent(c) /\ calls[c].pc = "answered"
                /\ Issued(calls[c].answer)
                /\ calls[c].answer.gen = sessions[calls[c].answer.session].gen

(* A pair that the server has answered was not received before.            *)
AnswersFresh ==
    \A c \in CallIds : calls[c].answer # NoTokens =>
        /\ tokens # calls[c].answer
        /\ \A d \in CallIds : /\ Sent(d) => calls[d].token # calls[c].answer
                              /\ calls[d].answer = calls[c].answer => d = c

(* While no refresh was cut off: the client's secret is with the server at *)
(* most once, in the call of the lock's holder; no secret is there twice;  *)
(* and one that was not looked at yet is the session's.                    *)
OnlyHolder ==
    \A c \in CallIds : Sent(c) /\ Signed /\ calls[c].token = tokens =>
        lock # NoTask /\ task[lock].call = c

SentOnce ==
    \A c, d \in CallIds : Sent(c) /\ Sent(d) /\ calls[c].token = calls[d].token => c = d

Current(k) == k.gen = sessions[k.session].gen

PairCurrent ==
    Signed => Current(tokens) \/ (lock # NoTask /\ calls[task[lock].call].token = tokens)

CallsCurrent ==
    \A c \in CallIds : /\ calls[c].pc = "sent" => Current(calls[c].token)
                       /\ calls[c].pc # "reused"

Uncut == OnlyHolder /\ SentOnce /\ PairCurrent /\ CallsCurrent

Sound == PairSound /\ CoroutinesSound /\ CallsSound /\ AnswersFresh

TokenInv == TypeOK /\ Sound /\ (cut \/ Uncut)

-----------------------------------------------------------------------------

LEMMA TokensInit == Init => TokenInv
  <1> SUFFICES ASSUME Init PROVE TokenInv
    OBVIOUS
  <1> USE TokenConstants DEF Init
  <1>1. TypeOK
    <2>1. NoTokens \in Token /\ 0 \in 0..MaxSessions /\ 0 \in 0..MaxCalls
      BY DEF Token, NoTokens
    <2>2. Idle \in Coroutine
      BY <2>1 DEF Coroutine, Idle
    <2>3. NoCall \in Call
      BY <2>1 DEF Call, NoCall
    <2>4. NoSession \in Session
      BY DEF Session, NoSession
    <2>5. \A t \in Tasks : (lock = t <=> task[t].pc = "refreshing") /\ task[t].pc # "refreshing"
      BY DEF Idle
    <2> QED
      BY <2>1, <2>2, <2>3, <2>4, <2>5 DEF TypeOK
  <1>2. Sound
    BY DEF Sound, PairSound, CoroutinesSound, CallsSound, AnswersFresh, Signed, Idle, NoCall, Sent
  <1>3. Uncut
    BY DEF Uncut, OnlyHolder, SentOnce, PairCurrent, CallsCurrent, Signed, NoCall, Sent
  <1> QED
    BY <1>1, <1>2, <1>3 DEF TokenInv

(* A step that sends, receives and rotates nothing: the calls and the lock *)
(* stay, the pair stays or is dropped.                                     *)
Quiet ==
    /\ calls' = calls /\ lock' = lock /\ cut' = cut
    /\ tokens' \in {tokens, NoTokens}
    /\ \A s \in SessionIds : sessions'[s].gen = sessions[s].gen
    /\ \A t \in Tasks : task[t].pc = "refreshing" => task'[t].call = task[t].call

LEMMA QuietStep ==
  ASSUME TokenInv, TypeOK', CoroutinesSound', Quiet
  PROVE  TokenInv'
  <1>1. Sound'
    <2>1. PairSound'
      BY DEF TokenInv, Sound, PairSound, Quiet, Signed, Issued
    <2>2. CallsSound'
      BY DEF TokenInv, Sound, CallsSound, Quiet, Issued, Sent
    <2>3. AnswersFresh'
      BY DEF TokenInv, Sound, AnswersFresh, Quiet, Sent
    <2> QED
      BY <2>1, <2>2, <2>3 DEF Sound
  <1>2. ASSUME Uncut PROVE Uncut'
    <2>1. OnlyHolder' /\ SentOnce'
      BY <1>2, TokenConstants DEF Uncut, OnlyHolder, SentOnce, Quiet, Signed, Sent, TokenInv, TypeOK
    <2>2. PairCurrent'
      BY <1>2, TokenConstants DEF Uncut, PairCurrent, Quiet, Signed, Current, TokenInv, TypeOK, Sound,
                                  PairSound, Issued
    <2>3. CallsCurrent'
      BY <1>2 DEF Uncut, CallsCurrent, Quiet, Current, TokenInv, TypeOK, Sound, CallsSound, Issued, Sent
    <2> QED
      BY <2>1, <2>2, <2>3 DEF Uncut
  <1> QED
    BY <1>1, <1>2 DEF TokenInv, Quiet

-----------------------------------------------------------------------------
(* The end of a request leaves a sound coroutine; the lock goes with it if *)
(* it was held.                                                            *)
Freed(t) == lock' = IF lock = t THEN NoTask ELSE lock

LEMMA LeaveTyped ==
  ASSUME TypeOK, CoroutinesSound, NEW t \in Tasks, Leave(t), Freed(t), UNCHANGED <<sessions, cut>>
  PROVE  /\ task' \in [Tasks -> Coroutine] /\ tokens' \in Token /\ window' \in 0..MaxSessions
         /\ lock' \in Tasks \cup {NoTask} /\ CoroutinesSound'
         /\ \A s \in Tasks : lock' = s <=> task'[s].pc = "refreshing"
         /\ \A s \in Tasks \ {t} : task'[s].call = task[s].call /\ task'[s].pc = task[s].pc
         /\ task'[t] = Idle /\ tokens' = NoTokens
  <1> USE TokenConstants
  <1>1. NoTokens \in Token /\ Idle \in Coroutine
    BY DEF Token, NoTokens, Idle, Coroutine
  <1>2. /\ task'[t] = Idle
        /\ \A s \in Tasks \ {t} : \E b \in BOOLEAN : task'[s] = [task[s] EXCEPT !.left = b]
    <2>1. \A s \in Tasks : (task[s].pc # "idle") \in BOOLEAN
      BY ZenonT(30)
    <2> QED
      BY <2>1, ZenonT(30) DEF Leave
  <1>3. \A s \in Tasks : task'[s] \in Coroutine
    <2> SUFFICES ASSUME NEW s \in Tasks, s # t PROVE task'[s] \in Coroutine
      BY <1>1, <1>2
    <2>1. PICK b \in BOOLEAN : task'[s] = [task[s] EXCEPT !.left = b]
      BY <1>2
    <2> QED
      BY <2>1 DEF TypeOK, Coroutine
  <1>4. task' \in [Tasks -> Coroutine]
    BY <1>3 DEF Leave
  <1>a. \A s \in Tasks \ {t} : /\ task'[s].pc = task[s].pc /\ task'[s].op = task[s].op
                             /\ task'[s].sent = task[s].sent /\ task'[s].call = task[s].call
    <2> SUFFICES ASSUME NEW s \in Tasks \ {t}
                 PROVE  /\ task'[s].pc = task[s].pc /\ task'[s].op = task[s].op
                        /\ task'[s].sent = task[s].sent /\ task'[s].call = task[s].call
      OBVIOUS
    <2>1. PICK b \in BOOLEAN : task'[s] = [task[s] EXCEPT !.left = b]
      BY <1>2
    <2> QED
      BY <2>1 DEF TypeOK, Coroutine
  <1>5. CoroutinesSound'
    BY <1>2, <1>a DEF CoroutinesSound, Issued, Idle
  <1>6. \A s \in Tasks : lock' = s <=> task'[s].pc = "refreshing"
    BY <1>2, <1>a DEF TypeOK, Idle, Freed
  <1> QED
    BY <1>1, <1>2, <1>a, <1>4, <1>5, <1>6 DEF Leave, TypeOK, Freed

LEMMA FailsTyped ==
  ASSUME TypeOK, CoroutinesSound, NEW t \in Tasks, NEW k \in Token, Fails(t, k), Freed(t),
         UNCHANGED <<sessions, cut>>
  PROVE  /\ task' \in [Tasks -> Coroutine] /\ tokens' \in Token /\ window' \in 0..MaxSessions
         /\ lock' \in Tasks \cup {NoTask} /\ CoroutinesSound'
         /\ \A s \in Tasks : lock' = s <=> task'[s].pc = "refreshing"
         /\ \A s \in Tasks \ {t} : task'[s].call = task[s].call /\ task'[s].pc = task[s].pc
         /\ task'[t] = Idle /\ tokens' \in {k, NoTokens}
  <1> USE TokenConstants
  <1>1. CASE Leave(t)
    BY <1>1, LeaveTyped
  <1>2. CASE task' = Ended(t) /\ tokens' \in {k, NoTokens} /\ UNCHANGED window
    <2>1. NoTokens \in Token /\ Idle \in Coroutine
      BY DEF Token, NoTokens, Idle, Coroutine
    <2>2. \A s \in Tasks : task'[s] = IF s = t THEN Idle ELSE task[s]
      BY <1>2 DEF Ended, TypeOK
    <2>3. task' \in [Tasks -> Coroutine]
      BY <1>2, <2>1 DEF Ended, TypeOK
    <2>4. CoroutinesSound'
      BY <2>2 DEF CoroutinesSound, Issued, Idle
    <2>5. \A s \in Tasks : lock' = s <=> task'[s].pc = "refreshing"
      BY <2>2 DEF TypeOK, Idle, Freed
    <2> QED
      BY <1>2, <2>1, <2>2, <2>3, <2>4, <2>5 DEF TypeOK, Freed
  <1> QED
    BY <1>1, <1>2 DEF Fails

(* What a request does until it is rejected, and what is done to it from   *)
(* outside, is quiet.                                                      *)
LEMMA AskStep == ASSUME TokenInv, NEW t \in Tasks, Ask(t) PROVE TokenInv'
  <1> USE TokenConstants
  <1>1. task' = [task EXCEPT ![t] = [Idle EXCEPT !.pc = "asking", !.home = window, !.sent = tokens]]
    BY DEF Ask
  <1>2. [Idle EXCEPT !.pc = "asking", !.home = window, !.sent = tokens] \in Coroutine
    <2>1. window \in 0..MaxSessions /\ tokens \in Token /\ 0 \in 0..MaxCalls
      BY DEF TokenInv, TypeOK
    <2> QED
      BY <2>1 DEF Idle, Coroutine
  <1>3. TypeOK'
    BY <1>1, <1>2 DEF Ask, Idle, TokenInv, TypeOK
  <1>4. CoroutinesSound'
    BY <1>1 DEF Ask, Idle, TokenInv, TypeOK, Sound, CoroutinesSound, PairSound, Signed, Issued
  <1>5. Quiet
    BY <1>1 DEF Ask, Quiet, Idle, TokenInv, TypeOK
  <1> QED
    BY <1>3, <1>4, <1>5, QuietStep

LEMMA CrossingTyped ==
  ASSUME NEW t, TypeOK, Crossing(t) PROVE crossed' \in {"never", "ended", "open"}
  BY DEF Crossing, TypeOK

LEMMA StartLogoutStep == ASSUME TokenInv, NEW t \in Tasks, StartLogout(t) PROVE TokenInv'
  <1> USE TokenConstants
  <1>0. crossed' \in {"never", "ended", "open"}
    BY CrossingTyped DEF StartLogout, TokenInv
  <1>1. CASE /\ Signed /\ UNCHANGED <<tokens, window>>
             /\ task' = [task EXCEPT ![t] = [Idle EXCEPT !.op = "logout", !.pc = "asking",
                                                         !.home = window, !.sent = tokens]]
    <2>2. [Idle EXCEPT !.op = "logout", !.pc = "asking", !.home = window, !.sent = tokens] \in Coroutine
      <3>1. window \in 0..MaxSessions /\ tokens \in Token /\ 0 \in 0..MaxCalls
        BY DEF TokenInv, TypeOK
      <3> QED
        BY <3>1 DEF Idle, Coroutine
    <2>3. TypeOK'
      BY <1>0, <1>1, <2>2 DEF StartLogout, Idle, TokenInv, TypeOK
    <2>4. CoroutinesSound'
      BY <1>1 DEF StartLogout, Idle, TokenInv, TypeOK, Sound, CoroutinesSound, PairSound, Signed, Issued
    <2>5. Quiet
      BY <1>1 DEF StartLogout, Quiet, Idle, TokenInv, TypeOK
    <2> QED
      BY <2>3, <2>4, <2>5, QuietStep
  <1>2. CASE Leave(t)
    <2>1. Freed(t) /\ UNCHANGED <<sessions, calls, faults, cut, lock>> /\ task[t].pc # "refreshing"
      BY DEF Freed, StartLogout, TokenInv, TypeOK
    <2>2. TypeOK' /\ CoroutinesSound' /\ Quiet
      BY <1>0, <1>2, <2>1, LeaveTyped DEF TokenInv, Sound, TypeOK, Quiet
    <2> QED
      BY <2>2, QuietStep
  <1> QED
    BY <1>1, <1>2 DEF StartLogout

LEMMA StartLoginStep == ASSUME TokenInv, NEW t \in Tasks, StartLogin(t) PROVE TokenInv'
  <1> USE TokenConstants
  <1>0. crossed' \in {"never", "ended", "open"}
    BY CrossingTyped DEF StartLogin, TokenInv
  <1>1. [Idle EXCEPT !.op = "login", !.pc = "signing_in"] \in Coroutine /\ NoTokens \in Token
    <2>1. NoTokens \in Token /\ 0 \in 0..MaxSessions /\ 0 \in 0..MaxCalls
      BY DEF Token, NoTokens
    <2> QED
      BY <2>1 DEF Idle, Coroutine
  <1>2. TypeOK'
    BY <1>0, <1>1 DEF StartLogin, Idle, TokenInv, TypeOK
  <1>3. CoroutinesSound'
    BY DEF StartLogin, Idle, TokenInv, TypeOK, Sound, CoroutinesSound, Issued
  <1>4. Quiet
    BY DEF StartLogin, Quiet, Idle, TokenInv, TypeOK
  <1> QED
    BY <1>2, <1>3, <1>4, QuietStep

LEMMA NotSignedInStep == ASSUME TokenInv, NEW t \in Tasks, NotSignedIn(t) PROVE TokenInv'
  <1> USE TokenConstants
  <1>1. Idle \in Coroutine
    BY DEF Idle, Coroutine, Token, NoTokens
  <1>2. TypeOK'
    BY <1>1 DEF NotSignedIn, Ended, Idle, TokenInv, TypeOK
  <1>3. CoroutinesSound'
    BY DEF NotSignedIn, Ended, Idle, TokenInv, TypeOK, Sound, CoroutinesSound, Issued
  <1>4. Quiet
    BY DEF NotSignedIn, Ended, Quiet, Idle, TokenInv, TypeOK
  <1> QED
    BY <1>2, <1>3, <1>4, QuietStep

LEMMA ServedStep == ASSUME TokenInv, NEW t \in Tasks, Served(t) PROVE TokenInv'
  <1> USE TokenConstants
  <1>1. Idle \in Coroutine
    BY DEF Idle, Coroutine, Token, NoTokens
  <1>2. CASE task' = Ended(t) /\ UNCHANGED sessions /\ window' \in {window, task[t].home}
    <2>1. TypeOK'
      BY <1>1, <1>2 DEF Served, Ended, Idle, TokenInv, TypeOK, Coroutine
    <2>2. CoroutinesSound'
      BY <1>2 DEF Served, Ended, Idle, TokenInv, TypeOK, Sound, CoroutinesSound, Issued
    <2>3. Quiet
      BY <1>2 DEF Served, Ended, Quiet, Idle, TokenInv, TypeOK
    <2> QED
      BY <2>1, <2>2, <2>3, QuietStep
  <1>3. CASE /\ task[t].op = "logout" /\ UNCHANGED window
             /\ sessions' = [sessions EXCEPT ![task[t].sent.session].revoked = TRUE]
             /\ task' = [task EXCEPT ![t].pc = "logged_out"]
    <2>0. \A s \in SessionIds : sessions'[s].gen = sessions[s].gen
      BY <1>3 DEF TokenInv, TypeOK, Session
    <2>1. TypeOK'
      <3>1. sessions' \in [SessionIds -> Session]
        BY <1>3 DEF TokenInv, TypeOK, Session
      <3>2. task' \in [Tasks -> Coroutine]
        BY <1>3 DEF TokenInv, TypeOK, Coroutine
      <3> QED
        BY <1>3, <3>1, <3>2 DEF Served, TokenInv, TypeOK, Coroutine
    <2>2. CoroutinesSound'
      BY <1>3, <2>0 DEF Served, TokenInv, TypeOK, Sound, CoroutinesSound, Issued, Coroutine
    <2>3. Quiet
      BY <1>3, <2>0 DEF Served, Quiet, TokenInv, TypeOK, Coroutine
    <2> QED
      BY <2>1, <2>2, <2>3, QuietStep
  <1> QED
    BY <1>2, <1>3 DEF Served

LEMMA LoggedOutStep == ASSUME TokenInv, NEW t \in Tasks, LoggedOut(t) PROVE TokenInv'
  <1> USE TokenConstants
  <1>0. crossed' \in {"never", "ended", "open"}
    BY CrossingTyped DEF LoggedOut, TokenInv
  <1>1. /\ Freed(t) /\ UNCHANGED <<sessions, calls, faults, cut, lock>>
        /\ task[t].pc # "refreshing" /\ Leave(t)
    BY DEF Freed, LoggedOut, TokenInv, TypeOK
  <1>2. TypeOK' /\ CoroutinesSound' /\ Quiet
    BY <1>0, <1>1, LeaveTyped DEF TokenInv, Sound, TypeOK, Quiet
  <1> QED
    BY <1>2, QuietStep

LEMMA RejectedStep == ASSUME TokenInv, NEW t \in Tasks, Rejected(t) PROVE TokenInv'
  <1> USE TokenConstants
  <1>1. TypeOK'
    BY DEF Rejected, TokenInv, TypeOK, Coroutine
  <1>2. CoroutinesSound'
    BY DEF Rejected, TokenInv, TypeOK, Sound, CoroutinesSound, Issued, Coroutine
  <1>3. Quiet
    BY DEF Rejected, Quiet, TokenInv, TypeOK, Coroutine
  <1> QED
    BY <1>1, <1>2, <1>3, QuietStep

LEMMA FailingStep ==
  ASSUME TokenInv, NEW t \in Tasks, Fails(t, tokens), task[t].pc # "refreshing",
         UNCHANGED <<lock, sessions, calls, cut>>, faults' \in Nat,
         crossed' \in {"never", "ended", "open"}
  PROVE  TokenInv'
  <1> USE TokenConstants
  <1>1. Freed(t) /\ tokens \in Token
    BY DEF Freed, TokenInv, TypeOK
  <1>2. TypeOK' /\ CoroutinesSound' /\ Quiet
    BY <1>1, FailsTyped DEF TokenInv, Sound, TypeOK, Quiet
  <1> QED
    BY <1>2, QuietStep

LEMMA FailedStep ==
  ASSUME TokenInv, NEW t \in Tasks, RejectedAgain(t) \/ Lost(t) \/ GivesUp(t)
  PROVE  TokenInv'
  <1> USE TokenConstants
  <1>1. CASE RejectedAgain(t)
    BY <1>1, FailingStep, CrossingTyped DEF RejectedAgain, TokenInv, TypeOK
  <1>2. CASE Lost(t)
    BY <1>2, FailingStep, CrossingTyped DEF Lost, Fault, TokenInv, TypeOK
  <1>3. CASE GivesUp(t)
    BY <1>3, FailingStep DEF GivesUp, TokenInv, TypeOK
  <1> QED
    BY <1>1, <1>2, <1>3

LEMMA RenewedStep == ASSUME TokenInv, NEW t \in Tasks, Renewed(t) PROVE TokenInv'
  <1> USE TokenConstants
  <1>1. task' = [task EXCEPT ![t] = [task[t] EXCEPT !.pc = "retrying", !.sent = tokens, !.call = 0]]
    BY DEF Renewed, Retried, TokenInv, TypeOK, Coroutine
  <1>2. [task[t] EXCEPT !.pc = "retrying", !.sent = tokens, !.call = 0] \in Coroutine
    <2>1. tokens \in Token /\ 0 \in 0..MaxCalls /\ task[t] \in Coroutine
      BY DEF TokenInv, TypeOK
    <2> QED
      BY <2>1 DEF Coroutine
  <1>3. TypeOK'
    BY <1>1, <1>2 DEF Renewed, TokenInv, TypeOK, Coroutine
  <1>4. CoroutinesSound'
    BY <1>1 DEF Renewed, TokenInv, TypeOK, Sound, CoroutinesSound, PairSound, Signed, Issued, Coroutine
  <1>5. Quiet
    BY <1>1 DEF Renewed, Quiet, TokenInv, TypeOK, Coroutine
  <1> QED
    BY <1>3, <1>4, <1>5, QuietStep

LEMMA OutsideStep ==
  ASSUME TokenInv, Restored \/ \E s \in SessionIds : RunOut(s) \/ Revoke(s)
  PROVE  TokenInv'
  <1> USE TokenConstants
  <1>1. ASSUME NEW s \in SessionIds, RunOut(s) \/ Revoke(s) PROVE TokenInv'
    <2>1. sessions' \in [SessionIds -> Session] /\ \A n \in SessionIds : sessions'[n].gen = sessions[n].gen
      <3>1. sessions \in [SessionIds -> Session] /\ sessions[s] \in Session
        BY DEF TokenInv, TypeOK
      <3>2. CASE sessions' = [sessions EXCEPT ![s].ranOut = sessions[s].gen]
        BY <3>1, <3>2 DEF Session
      <3>3. CASE sessions' = [sessions EXCEPT ![s].revoked = TRUE]
        BY <3>1, <3>3 DEF Session
      <3> QED
        BY <1>1, <3>2, <3>3 DEF RunOut, Revoke
    <2>2. UNCHANGED <<tokens, lock, task, window, calls, faults, cut, crossed>>
      BY <1>1 DEF RunOut, Revoke
    <2>3. TypeOK' /\ CoroutinesSound' /\ Quiet
      BY <2>1, <2>2 DEF TokenInv, TypeOK, Sound, CoroutinesSound, Issued, Quiet
    <2> QED
      BY <2>3, QuietStep
  <1>2. ASSUME Restored PROVE TokenInv'
    <2>1. NoTokens \in Token /\ crossed' \in {"never", "ended", "open"}
      BY <1>2, CrossingTyped DEF Restored, Token, NoTokens, TokenInv
    <2>2. TypeOK' /\ CoroutinesSound' /\ Quiet
      BY <1>2, <2>1 DEF Restored, TokenInv, TypeOK, Sound, CoroutinesSound, Issued, Quiet
    <2> QED
      BY <2>2, QuietStep
  <1> QED
    BY <1>1, <1>2

-----------------------------------------------------------------------------
(* The steps that make, send, receive or rotate a pair.                    *)

LEMMA SignedInStep == ASSUME TokenInv, NEW t \in Tasks, SignedIn(t) PROVE TokenInv'
  <1> USE TokenConstants
  <1> DEFINE K(s) == [session |-> s, gen |-> 1]
  <1>1. PICK s \in SessionIds :
            /\ sessions[s] = NoSession
            /\ sessions' = [sessions EXCEPT ![s].gen = 1]
            /\ tokens' = K(s)
            /\ task' = [task EXCEPT ![t].pc = "asking", ![t].home = s, ![t].sent = K(s)]
    BY DEF SignedIn
  <1>2. K(s) \in Token /\ K(s) # NoTokens /\ s \in 0..MaxSessions
    BY DEF Token, NoTokens, SessionIds
  <1>3. /\ sessions' \in [SessionIds -> Session]
        /\ \A n \in SessionIds : sessions'[n].gen = IF n = s THEN 1 ELSE sessions[n].gen
        /\ sessions[s].gen = 0
    <2>1. sessions \in [SessionIds -> Session] /\ NoSession \in Session
      BY DEF TokenInv, TypeOK, Session, NoSession
    <2>2. sessions' = [sessions EXCEPT ![s] = [sessions[s] EXCEPT !.gen = 1]]
      BY <1>1, <2>1
    <2>3. [sessions[s] EXCEPT !.gen = 1] \in Session /\ [sessions[s] EXCEPT !.gen = 1].gen = 1
      BY <2>1 DEF Session
    <2> QED
      BY <1>1, <2>1, <2>2, <2>3 DEF NoSession
  <1>4. /\ task' \in [Tasks -> Coroutine]
        /\ task'[t].pc = "asking" /\ task'[t].sent = K(s) /\ task'[t].call = task[t].call
        /\ \A r \in Tasks \ {t} : task'[r] = task[r]
    <2>1. task \in [Tasks -> Coroutine] /\ task[t] \in Coroutine
      BY DEF TokenInv, TypeOK
    <2>2. task' = [task EXCEPT ![t] = [task[t] EXCEPT !.pc = "asking", !.home = s, !.sent = K(s)]]
      BY <1>1, <2>1
    <2>3. /\ [task[t] EXCEPT !.pc = "asking", !.home = s, !.sent = K(s)] \in Coroutine
          /\ [task[t] EXCEPT !.pc = "asking", !.home = s, !.sent = K(s)].pc = "asking"
          /\ [task[t] EXCEPT !.pc = "asking", !.home = s, !.sent = K(s)].sent = K(s)
          /\ [task[t] EXCEPT !.pc = "asking", !.home = s, !.sent = K(s)].call = task[t].call
      BY <1>2, <2>1 DEF Coroutine
    <2> QED
      BY <2>1, <2>2, <2>3
  <1>5. task[t].pc = "signing_in" /\ UNCHANGED <<lock, window, calls, faults, cut>>
    BY DEF SignedIn
  <1>6. TypeOK'
    BY <1>1, <1>2, <1>3, <1>4, <1>5, CrossingTyped DEF SignedIn, TokenInv, TypeOK
  <1>7. \A k \in Token : Issued(k) => Issued(k)' /\ k # K(s) /\ sessions'[k.session].gen = sessions[k.session].gen
    BY <1>3 DEF Issued, Token, TokenInv, TypeOK, Session
  <1>8. Sound'
    <2>1. PairSound'
      BY <1>1, <1>3 DEF PairSound, Issued
    <2>2. CoroutinesSound'
      BY <1>1, <1>3, <1>4, <1>5, <1>7 DEF TokenInv, TypeOK, Coroutine, Sound, CoroutinesSound, Issued
    <2>3. CallsSound'
      BY <1>5, <1>7 DEF TokenInv, TypeOK, Call, Sound, CallsSound, Sent
    <2>4. AnswersFresh'
      BY <1>1, <1>5, <1>7 DEF TokenInv, TypeOK, Call, Sound, CallsSound, AnswersFresh, Sent
    <2> QED
      BY <2>1, <2>2, <2>3, <2>4 DEF Sound
  <1>9. ASSUME Uncut PROVE Uncut'
    <2>1. OnlyHolder'
      BY <1>1, <1>5, <1>7 DEF TokenInv, TypeOK, Call, Sound, CallsSound, Sent, OnlyHolder
    <2>2. SentOnce' /\ PairCurrent'
      BY <1>1, <1>3, <1>5, <1>9 DEF Uncut, SentOnce, Sent, PairCurrent, Current
    <2>3. CallsCurrent'
      BY <1>5, <1>7, <1>9 DEF Uncut, CallsCurrent, Current, Sent, TokenInv, TypeOK, Call, Sound, CallsSound
    <2> QED
      BY <2>1, <2>2, <2>3 DEF Uncut
  <1> QED
    BY <1>5, <1>6, <1>8, <1>9 DEF TokenInv

LEMMA RefreshStep == ASSUME TokenInv, NEW t \in Tasks, Refresh(t) PROVE TokenInv'
  <1> USE TokenConstants
  <1> DEFINE new == [NoCall EXCEPT !.pc = "sent", !.token = tokens]
  <1>1. PICK c \in CallIds :
            /\ Unused(c)
            /\ calls' = [calls EXCEPT ![c] = new]
            /\ task' = [task EXCEPT ![t].pc = "refreshing", ![t].call = c]
    BY DEF Refresh
  <1>2. /\ task[t].pc = "rejected" /\ lock = NoTask /\ Signed /\ tokens = task[t].sent /\ lock' = t
        /\ UNCHANGED <<tokens, window, sessions, faults, cut, crossed>>
    BY DEF Refresh
  <1>3. new \in Call /\ c \in 0..MaxCalls
    <2>1. NoTokens \in Token /\ tokens \in Token
      BY DEF Token, NoTokens, TokenInv, TypeOK
    <2>3. new \in Call
      BY <2>1 DEF NoCall, Call
    <2>4. c \in 0..MaxCalls
      BY DEF CallIds
    <2> QED
      BY <2>3, <2>4
  <1>4. /\ calls' \in [CallIds -> Call]
        /\ calls'[c].pc = "sent" /\ calls'[c].token = tokens /\ calls'[c].answer = NoTokens
        /\ \A d \in CallIds \ {c} : calls'[d] = calls[d]
    BY <1>1, <1>3 DEF TokenInv, TypeOK, NoCall
  <1>5. /\ task' \in [Tasks -> Coroutine]
        /\ task'[t].pc = "refreshing" /\ task'[t].call = c /\ task'[t].sent = tokens
        /\ task'[t].op = task[t].op
        /\ \A r \in Tasks \ {t} : task'[r] = task[r]
    BY <1>1, <1>2, <1>3 DEF TokenInv, TypeOK, Coroutine
  <1>6. TypeOK'
    <2>1. \A r \in Tasks : lock' = r <=> task'[r].pc = "refreshing"
      BY <1>2, <1>5 DEF TokenInv, TypeOK
    <2>2. \A r \in Tasks : task'[r].pc = "refreshing" => calls'[task'[r].call].pc # "none"
      BY <1>2, <1>4, <1>5, <2>1
    <2> QED
      BY <1>2, <1>4, <1>5, <2>1, <2>2 DEF TokenInv, TypeOK
  <1>7. Issued(tokens)
    BY <1>2 DEF TokenInv, Sound, PairSound
  <1>8. Sound'
    <2>1. PairSound'
      BY <1>2, <1>7 DEF PairSound, Issued
    <2>2. CoroutinesSound'
      BY <1>2, <1>5, <1>7 DEF TokenInv, Sound, CoroutinesSound, Issued
    <2>3. CallsSound'
      BY <1>2, <1>4, <1>7 DEF TokenInv, Sound, CallsSound, Sent, Issued
    <2>4. AnswersFresh'
      BY <1>2, <1>4 DEF TokenInv, Sound, AnswersFresh, Sent
    <2> QED
      BY <2>1, <2>2, <2>3, <2>4 DEF Sound
  <1>9. ASSUME Uncut PROVE Uncut'
    <2>0. \A d \in CallIds : Sent(d) => calls[d].token # tokens
      BY <1>2, <1>9 DEF Uncut, OnlyHolder
    <2>1. OnlyHolder'
      BY <1>2, <1>4, <1>5, <2>0 DEF OnlyHolder, Sent, TokenInv, TypeOK
    <2>2. SentOnce'
      BY <1>4, <1>9, <2>0 DEF Uncut, SentOnce, Sent
    <2>3. PairCurrent'
      BY <1>2, <1>4, <1>5 DEF PairCurrent, TokenInv, TypeOK
    <2>4. CallsCurrent'
      BY <1>2, <1>4, <1>9 DEF Uncut, PairCurrent, CallsCurrent, Current
    <2> QED
      BY <2>1, <2>2, <2>3, <2>4 DEF Uncut
  <1> QED
    BY <1>2, <1>6, <1>8, <1>9 DEF TokenInv

LEMMA RefreshAnsweredStep == ASSUME TokenInv, NEW t \in Tasks, RefreshAnswered(t) PROVE TokenInv'
  <1> USE TokenConstants
  <1> DEFINE c == task[t].call
             k == calls[c].answer
  <1>1. /\ task[t].pc = "refreshing" /\ calls[c].pc = "answered" /\ lock' = NoTask
        /\ calls' = [calls EXCEPT ![c] = NoCall]
        /\ UNCHANGED <<sessions, faults, cut, crossed>>
    BY DEF RefreshAnswered
  <1>2. lock = t /\ c \in CallIds /\ k \in Token /\ NoTokens \in Token
    BY <1>1 DEF TokenInv, TypeOK, Call, Sound, CoroutinesSound, Token, NoTokens
  <1>3. /\ calls' \in [CallIds -> Call] /\ calls'[c] = NoCall
        /\ \A d \in CallIds \ {c} : calls'[d] = calls[d]
    <2>1. NoCall \in Call
      BY <1>2 DEF NoCall, Call
    <2> QED
      BY <1>1, <1>2, <2>1 DEF TokenInv, TypeOK
  <1>4. /\ task' \in [Tasks -> Coroutine] /\ tokens' \in {k, NoTokens} /\ window' \in 0..MaxSessions
        /\ CoroutinesSound'
        /\ \A r \in Tasks : task'[r].pc # "refreshing"
    <2>1. CASE k # NoTokens /\ tokens' = k /\ task' = Retried(t, k) /\ UNCHANGED window
      <3>1. task' = [task EXCEPT ![t] = [task[t] EXCEPT !.pc = "retrying", !.sent = k, !.call = 0]]
        BY <2>1 DEF Retried, TokenInv, TypeOK, Coroutine
      <3>2. [task[t] EXCEPT !.pc = "retrying", !.sent = k, !.call = 0] \in Coroutine
        <4>1. k \in Token /\ 0 \in 0..MaxCalls /\ task[t] \in Coroutine
          BY <1>2 DEF TokenInv, TypeOK
        <4> QED
          BY <4>1 DEF Coroutine
      <3>3. Issued(k)
        BY <1>2, <2>1 DEF TokenInv, Sound, CallsSound
      <3>4. /\ task'[t].pc = "retrying" /\ task'[t].sent = k /\ task'[t].call = 0
            /\ \A r \in Tasks \ {t} : task'[r] = task[r]
        BY <3>1, <3>2 DEF TokenInv, TypeOK, Coroutine
      <3>5. CoroutinesSound'
        BY <1>1, <3>3, <3>4 DEF TokenInv, Sound, CoroutinesSound, Issued
      <3> QED
        BY <1>2, <2>1, <3>1, <3>2, <3>4, <3>5 DEF TokenInv, TypeOK
    <2>2. CASE Fails(t, NoTokens)
      <3>1. Freed(t)
        BY <1>1, <1>2 DEF Freed
      <3> QED
        BY <1>1, <1>2, <2>2, <3>1, FailsTyped DEF TokenInv, Sound
    <2> QED
      BY <2>1, <2>2 DEF RefreshAnswered
  <1>5. TypeOK'
    BY <1>1, <1>2, <1>3, <1>4 DEF TokenInv, TypeOK
  <1>6. Signed' => tokens' = k /\ k # NoTokens /\ Issued(k) /\ Current(k)
    BY <1>2, <1>4 DEF Signed, TokenInv, Sound, CallsSound, Current
  <1>7. Sound'
    <2>1. PairSound'
      BY <1>1, <1>6 DEF PairSound, Issued
    <2>2. CallsSound'
      BY <1>1, <1>3 DEF TokenInv, Sound, CallsSound, Sent, NoCall, Issued
    <2>3. AnswersFresh'
      BY <1>2, <1>3, <1>6 DEF TokenInv, Sound, AnswersFresh, NoCall, Signed, Sent
    <2> QED
      BY <1>4, <2>1, <2>2, <2>3 DEF Sound
  <1>8. ASSUME Uncut PROVE Uncut'
    <2>1. OnlyHolder'
      BY <1>2, <1>3, <1>6 DEF OnlyHolder, Sent, NoCall, TokenInv, Sound, AnswersFresh, Signed
    <2>2. SentOnce' /\ CallsCurrent'
      BY <1>1, <1>3, <1>8 DEF Uncut, SentOnce, CallsCurrent, Sent, NoCall, Current
    <2>3. PairCurrent'
      BY <1>1, <1>6 DEF PairCurrent, Current
    <2> QED
      BY <2>1, <2>2, <2>3 DEF Uncut
  <1> QED
    BY <1>1, <1>5, <1>7, <1>8 DEF TokenInv

LEMMA RefreshLostStep == ASSUME TokenInv, NEW t \in Tasks, RefreshLost(t) PROVE TokenInv'
  <1> USE TokenConstants
  <1>1. /\ task[t].pc = "refreshing" /\ lock' = NoTask /\ lock = t /\ Fails(t, NoTokens)
        /\ faults' \in Nat /\ UNCHANGED <<sessions, calls, cut, crossed>>
    BY DEF RefreshLost, Fault, TokenInv, TypeOK
  <1>2. Freed(t) /\ NoTokens \in Token
    BY <1>1 DEF Freed, Token, NoTokens
  <1>3. /\ task' \in [Tasks -> Coroutine] /\ tokens' = NoTokens /\ window' \in 0..MaxSessions
        /\ CoroutinesSound' /\ \A r \in Tasks : task'[r].pc # "refreshing"
    BY <1>1, <1>2, FailsTyped DEF TokenInv, Sound
  <1>4. TypeOK'
    BY <1>1, <1>2, <1>3 DEF TokenInv, TypeOK
  <1>5. Sound'
    <2>1. PairSound' /\ CallsSound'
      BY <1>1, <1>3 DEF PairSound, Signed, TokenInv, Sound, CallsSound, Sent, Issued
    <2>2. AnswersFresh'
      BY <1>1, <1>3 DEF TokenInv, Sound, AnswersFresh, Sent
    <2> QED
      BY <1>3, <2>1, <2>2 DEF Sound
  <1>6. ASSUME Uncut PROVE Uncut'
    BY <1>1, <1>3, <1>6 DEF Uncut, OnlyHolder, SentOnce, PairCurrent, CallsCurrent, Signed, Sent, Current
  <1> QED
    BY <1>1, <1>4, <1>5, <1>6 DEF TokenInv

LEMMA CancelStep == ASSUME TokenInv, NEW t \in Tasks, Cancel(t) PROVE TokenInv'
  <1> USE TokenConstants
  <1>1. /\ task' = Ended(t) /\ Freed(t) /\ faults' \in Nat
        /\ UNCHANGED <<tokens, window, sessions, calls, crossed>>
    BY DEF Cancel, Freed, Fault, TokenInv, TypeOK
  <1>2. task[t].op = "call" /\ (task[t].pc = "refreshing" => cut') /\ cut' \in BOOLEAN
        /\ (task[t].pc # "refreshing" => cut' = cut)
    BY DEF Cancel, TokenInv, TypeOK
  <1>3. Idle \in Coroutine
    BY DEF Idle, Coroutine, Token, NoTokens
  <1>4. \A r \in Tasks : task'[r] = IF r = t THEN Idle ELSE task[r]
    BY <1>1 DEF Ended, TokenInv, TypeOK
  <1>5. TypeOK'
    <2>1. task' \in [Tasks -> Coroutine]
      BY <1>1, <1>3 DEF Ended, TokenInv, TypeOK
    <2>2. \A r \in Tasks : /\ lock' = r <=> task'[r].pc = "refreshing"
                           /\ task'[r].pc = "refreshing" => calls[task'[r].call].pc # "none"
      BY <1>1, <1>4 DEF Freed, Idle, TokenInv, TypeOK
    <2> QED
      BY <1>1, <1>2, <2>1, <2>2 DEF Freed, TokenInv, TypeOK
  <1>6. CoroutinesSound'
    BY <1>1, <1>4 DEF Idle, TokenInv, Sound, CoroutinesSound, Issued
  <1>7. Sound'
    BY <1>1, <1>6 DEF TokenInv, Sound, PairSound, Signed, Issued, CallsSound, AnswersFresh, Sent
  <1>8. CASE task[t].pc = "refreshing"
    BY <1>2, <1>5, <1>7, <1>8 DEF TokenInv
  <1>9. CASE task[t].pc # "refreshing"
    <2>1. Quiet
      BY <1>1, <1>2, <1>4, <1>9 DEF Quiet, Freed, TokenInv, TypeOK
    <2> QED
      BY <1>5, <1>6, <2>1, QuietStep
  <1> QED
    BY <1>8, <1>9

(* A call of the server's refresh that stays on its way or is refused.     *)
Keeps(c, pc) == calls' = [calls EXCEPT ![c] = [calls[c] EXCEPT !.pc = pc]]

LEMMA KeepsStep ==
  ASSUME TokenInv, NEW c \in CallIds, calls[c].pc \in {"sent", "read", "reused"},
         NEW pc \in {"read", "reused", "answered"}, Keeps(c, pc),
         pc = "reused" => calls[c].pc = "sent" /\ ~Current(calls[c].token),
         sessions' \in [SessionIds -> Session],
         \A s \in SessionIds : sessions'[s].gen = sessions[s].gen,
         UNCHANGED <<tokens, lock, task, window, faults, cut, crossed>>
  PROVE  TokenInv'
  <1> USE TokenConstants
  <1>1. /\ calls' \in [CallIds -> Call]
        /\ calls'[c].pc = pc /\ calls'[c].token = calls[c].token /\ calls'[c].answer = calls[c].answer
        /\ \A d \in CallIds \ {c} : calls'[d] = calls[d]
    <2>1. calls \in [CallIds -> Call] /\ calls[c] \in Call
      BY DEF TokenInv, TypeOK
    <2>2. /\ [calls[c] EXCEPT !.pc = pc] \in Call
          /\ [calls[c] EXCEPT !.pc = pc].pc = pc
          /\ [calls[c] EXCEPT !.pc = pc].token = calls[c].token
          /\ [calls[c] EXCEPT !.pc = pc].answer = calls[c].answer
      BY <2>1 DEF Call
    <2> QED
      BY <2>1, <2>2 DEF Keeps
  <1>2. \A d \in CallIds : /\ Sent(d)' <=> Sent(d)
                           /\ calls'[d].token = calls[d].token
                           /\ calls'[d].answer = calls[d].answer
                           /\ calls[d].answer # NoTokens => calls'[d].pc = calls[d].pc
    BY <1>1 DEF Sent, TokenInv, Sound, CallsSound
  <1>3. TypeOK'
    BY <1>1, <1>2 DEF TokenInv, TypeOK, Sent, Sound, CoroutinesSound
  <1>4. Sound'
    <2>0. \A k : Issued(k) => Issued(k)' /\ sessions'[k.session].gen = sessions[k.session].gen
      BY DEF Issued
    <2>1. PairSound' /\ CoroutinesSound'
      BY <2>0 DEF TokenInv, Sound, PairSound, CoroutinesSound, Signed
    <2>2. CallsSound'
      BY <1>2, <2>0 DEF TokenInv, Sound, CallsSound
    <2>3. AnswersFresh'
      BY <1>2 DEF TokenInv, Sound, AnswersFresh
    <2> QED
      BY <2>1, <2>2, <2>3 DEF Sound
  <1>5. ASSUME Uncut, ~cut PROVE Uncut'
    <2>1. OnlyHolder' /\ SentOnce'
      BY <1>2, <1>5 DEF Uncut, OnlyHolder, SentOnce, Signed
    <2>2. PairCurrent'
      <3>1. Signed => sessions'[tokens.session].gen = sessions[tokens.session].gen
        BY DEF TokenInv, Sound, PairSound, Issued
      <3>2. lock # NoTask => lock \in Tasks /\ task[lock].call \in CallIds
        BY DEF TokenInv, Sound, CoroutinesSound, TypeOK
      <3> QED
        BY <1>2, <1>5, <3>1, <3>2 DEF Uncut, PairCurrent, Signed, Current
    <2>3. pc # "reused"
      BY <1>5 DEF Uncut, CallsCurrent
    <2>4. CallsCurrent'
      BY <1>1, <1>2, <1>5, <2>3 DEF Uncut, CallsCurrent, Current, TokenInv, Sound, CallsSound, Issued, Sent
    <2> QED
      BY <2>1, <2>2, <2>4 DEF Uncut
  <1> QED
    BY <1>3, <1>4, <1>5 DEF TokenInv

LEMMA RefusesStep ==
  ASSUME TokenInv, NEW c \in CallIds, RefreshReads(c) \/ RevokesReused(c)
  PROVE  TokenInv'
  <1> USE TokenConstants
  <1>1. calls \in [CallIds -> Call] /\ calls[c] \in Call /\ sessions \in [SessionIds -> Session]
    BY DEF TokenInv, TypeOK
  <1>2. calls[c].pc # "answered" /\ calls[c].pc # "none" =>
            /\ calls[c].answer = NoTokens /\ calls[c].token.session \in SessionIds
            /\ Keeps(c, "answered") <=> calls' = Answer(c, NoTokens)
    <2> HAVE calls[c].pc # "answered" /\ calls[c].pc # "none"
    <2>1. calls[c].answer = NoTokens /\ calls[c].token.session \in SessionIds
      BY DEF TokenInv, Sound, CallsSound, Sent, Issued
    <2>2. [calls[c] EXCEPT !.pc = "answered"] = [calls[c] EXCEPT !.pc = "answered", !.answer = NoTokens]
      BY <1>1, <2>1 DEF Call
    <2>3. Answer(c, NoTokens) =
            [calls EXCEPT ![c] = [calls[c] EXCEPT !.pc = "answered", !.answer = NoTokens]]
      BY <1>1 DEF Answer
    <2> QED
      BY <2>1, <2>2, <2>3 DEF Keeps
  <1>3. ASSUME RefreshReads(c) PROVE TokenInv'
    <2> DEFINE s == sessions[calls[c].token.session]
    <2>1. calls[c].pc = "sent" /\ UNCHANGED <<tokens, lock, task, window, sessions, faults, cut, crossed>>
      BY <1>3 DEF RefreshReads
    <2>2. CASE calls' = Answer(c, NoTokens)
      BY <1>1, <1>2, <2>1, <2>2, KeepsStep
    <2>3. CASE calls' = [calls EXCEPT ![c].pc = IF s.gen = calls[c].token.gen THEN "read" ELSE "reused"]
      <3>1. CASE s.gen = calls[c].token.gen
        <4>1. Keeps(c, "read")
          BY <1>1, <2>3, <3>1 DEF Keeps
        <4> QED
          BY <1>1, <2>1, <4>1, KeepsStep
      <3>2. CASE s.gen # calls[c].token.gen
        <4>1. Keeps(c, "reused")
          BY <1>1, <2>3, <3>2 DEF Keeps
        <4>2. ~Current(calls[c].token)
          BY <3>2 DEF Current
        <4> QED
          BY <1>1, <2>1, <4>1, <4>2, KeepsStep
      <3> QED
        BY <3>1, <3>2
    <2> QED
      BY <1>3, <2>2, <2>3 DEF RefreshReads
  <1>4. ASSUME RevokesReused(c) PROVE TokenInv'
    <2>1. /\ calls[c].pc = "reused" /\ calls' = Answer(c, NoTokens)
          /\ UNCHANGED <<tokens, lock, task, window, faults, cut, crossed>>
          /\ sessions' = [sessions EXCEPT ![calls[c].token.session].revoked = TRUE]
      BY <1>4 DEF RevokesReused
    <2>2. sessions' \in [SessionIds -> Session] /\ \A s \in SessionIds : sessions'[s].gen = sessions[s].gen
      BY <1>1, <2>1 DEF Session
    <2> QED
      BY <1>2, <2>1, <2>2, KeepsStep
  <1> QED
    BY <1>3, <1>4

LEMMA RotatesStep == ASSUME TokenInv, NEW c \in CallIds, Rotates(c) PROVE TokenInv'
  <1> USE TokenConstants
  <1> DEFINE k   == calls[c].token
             new == [k EXCEPT !.gen = sessions[k.session].gen + 1]
  <1>1. /\ calls \in [CallIds -> Call] /\ calls[c] \in Call /\ sessions \in [SessionIds -> Session]
        /\ tokens \in Token /\ \A d \in CallIds : calls[d].token \in Token /\ calls[d].answer \in Token
    BY DEF TokenInv, TypeOK, Call
  <1>2. /\ calls[c].pc = "read" /\ Sent(c) /\ calls[c].answer = NoTokens /\ Issued(k)
        /\ UNCHANGED <<tokens, lock, task, window, faults, cut, crossed>>
    BY DEF Rotates, Sent, TokenInv, Sound, CallsSound
  <1>3. CASE calls' = Answer(c, NoTokens) /\ UNCHANGED sessions
    <2>1. Keeps(c, "answered")
      <3>1. [calls[c] EXCEPT !.pc = "answered"] = [calls[c] EXCEPT !.pc = "answered", !.answer = NoTokens]
        BY <1>1, <1>2 DEF Call
      <3>2. calls' = [calls EXCEPT ![c] = [calls[c] EXCEPT !.pc = "answered", !.answer = NoTokens]]
        BY <1>1, <1>3 DEF Answer
      <3> QED
        BY <3>1, <3>2 DEF Keeps
    <2> QED
      BY <1>1, <1>2, <1>3, <2>1, KeepsStep
  <1>4. CASE /\ Rotatable(k)
             /\ sessions' = [sessions EXCEPT ![k.session].gen = @ + 1]
             /\ calls' = Answer(c, [k EXCEPT !.gen = sessions'[k.session].gen])
    <2>1. k.gen = sessions[k.session].gen /\ k.session \in SessionIds /\ k.gen \in Nat
      BY <1>1, <1>2, <1>4 DEF Rotatable, Issued, Token
    <2>2. /\ sessions' \in [SessionIds -> Session]
          /\ \A s \in SessionIds :
                sessions'[s].gen = IF s = k.session THEN k.gen + 1 ELSE sessions[s].gen
      <3>1. sessions[k.session] \in Session
        BY <1>1, <2>1
      <3>2. sessions' = [sessions EXCEPT ![k.session] = [sessions[k.session] EXCEPT !.gen = k.gen + 1]]
        BY <1>1, <1>4, <2>1, <3>1
      <3>3. /\ [sessions[k.session] EXCEPT !.gen = k.gen + 1] \in Session
            /\ [sessions[k.session] EXCEPT !.gen = k.gen + 1].gen = k.gen + 1
        BY <2>1, <3>1 DEF Session
      <3> QED
        BY <1>1, <3>2, <3>3
    <2>3. new \in Token /\ new.session = k.session /\ new.gen = k.gen + 1 /\ new # NoTokens
      BY <1>1, <2>1 DEF Token, NoTokens, SessionIds
    <2>4. /\ calls' \in [CallIds -> Call]
          /\ calls'[c].pc = "answered" /\ calls'[c].token = k /\ calls'[c].answer = new
          /\ \A d \in CallIds \ {c} : calls'[d] = calls[d]
      <3>1. [k EXCEPT !.gen = sessions'[k.session].gen] = new
        BY <2>1, <2>2
      <3>2. calls' = [calls EXCEPT ![c] = [calls[c] EXCEPT !.pc = "answered", !.answer = new]]
        BY <1>1, <1>4, <3>1 DEF Answer
      <3>3. /\ [calls[c] EXCEPT !.pc = "answered", !.answer = new] \in Call
            /\ [calls[c] EXCEPT !.pc = "answered", !.answer = new].pc = "answered"
            /\ [calls[c] EXCEPT !.pc = "answered", !.answer = new].token = k
            /\ [calls[c] EXCEPT !.pc = "answered", !.answer = new].answer = new
        BY <1>1, <2>3 DEF Call
      <3> QED
        BY <1>1, <3>2, <3>3
    <2> PICK n \in Token : n = new
      BY <2>3
    <2>a. /\ n.session = k.session /\ n.gen = k.gen + 1 /\ n # NoTokens
          /\ calls'[c].pc = "answered" /\ calls'[c].token = k /\ calls'[c].answer = n
      BY <2>3, <2>4
    <2> HIDE DEF new
    \* whatever was issued before is issued still and is not the new pair; what
    \* was current and is not any more is the rotated pair
    <2>5. \A p \in Token : Issued(p) =>
            /\ Issued(p)' /\ p # n
            /\ Current(p) /\ ~Current(p)' => p = k
      <3> SUFFICES ASSUME NEW p \in Token, Issued(p)
                   PROVE  /\ Issued(p)' /\ p # n
                          /\ Current(p) /\ ~Current(p)' => p = k
        OBVIOUS
      <3>1. /\ p.session \in SessionIds /\ p.gen >= 1 /\ p.gen <= sessions[p.session].gen /\ p.gen \in Nat
            /\ sessions[p.session].gen \in Nat
        BY <1>1 DEF Issued, Token, Session
      <3>2. Issued(p)'
        BY <2>1, <2>2, <3>1 DEF Issued
      <3>3. p # n
        BY <2>1, <2>a, <3>1
      <3>4. ASSUME Current(p), ~Current(p)' PROVE p = k
        <4>1. p.session = k.session /\ p.gen = k.gen
          BY <2>1, <2>2, <3>1, <3>4 DEF Current
        <4> QED
          BY <1>1, <4>1 DEF Token
      <3> QED
        BY <3>2, <3>3, <3>4
    <2>6. Issued(n)' /\ Current(n)'
      BY <2>1, <2>2, <2>a DEF Issued, Current
    <2>7. \A d \in CallIds : /\ Sent(d)' <=> Sent(d)
                             /\ calls'[d].token = calls[d].token
                             /\ d # c => calls'[d].answer = calls[d].answer /\ calls'[d].pc = calls[d].pc
      BY <1>2, <2>4 DEF Sent
    <2>8. TypeOK'
      BY <1>2, <2>2, <2>4, <2>7 DEF TokenInv, TypeOK, Sent, Sound, CoroutinesSound
    <2>9. Sound'
      <3>1. PairSound'
        BY <1>1, <1>2, <2>5 DEF TokenInv, Sound, PairSound, Signed
      <3>2. CoroutinesSound'
        <4>1. \A t \in Tasks : task[t].sent \in Token
          BY DEF TokenInv, TypeOK, Coroutine
        <4> QED
          BY <1>2, <2>5, <4>1 DEF TokenInv, Sound, CoroutinesSound
      <3>3. \A d \in CallIds \ {c} : calls[d].answer # NoTokens =>
                /\ Sent(d) /\ calls[d].pc = "answered" /\ Issued(calls[d].answer)
                /\ Current(calls[d].answer) /\ calls[d].answer # k
        BY <1>2 DEF TokenInv, Sound, CallsSound, AnswersFresh, Current
      <3>4. CallsSound'
        <4>1. \A d \in CallIds : Sent(d) => Issued(calls[d].token)'
          BY <1>1, <2>5, <2>7 DEF TokenInv, Sound, CallsSound
        <4>2. \A d \in CallIds \ {c} : calls[d].answer # NoTokens =>
                Issued(calls[d].answer)' /\ Current(calls[d].answer)'
          BY <1>1, <2>5, <2>7, <3>3
        <4> QED
          BY <1>2, <2>a, <2>6, <2>7, <3>3, <4>1, <4>2 DEF CallsSound, Current
      <3>5. AnswersFresh'
        <4>1. tokens # n
          BY <1>1, <2>a, <2>5 DEF TokenInv, Sound, PairSound, Signed
        <4>2. \A d \in CallIds : Sent(d) => calls[d].token # n
          BY <1>1, <2>5 DEF TokenInv, Sound, CallsSound
        <4>3. \A d \in CallIds \ {c} : calls[d].answer # n
          BY <1>1, <2>a, <2>5, <3>3
        <4> QED
          BY <1>2, <2>a, <2>7, <4>1, <4>2, <4>3 DEF TokenInv, Sound, AnswersFresh
      <3> QED
        BY <3>1, <3>2, <3>4, <3>5 DEF Sound
    <2>10. ASSUME Uncut PROVE Uncut'
      <3>1. OnlyHolder' /\ SentOnce'
        BY <1>2, <2>7, <2>10 DEF Uncut, OnlyHolder, SentOnce, Signed
      <3>2. PairCurrent'
        <4>1. ASSUME Signed, Current(tokens), ~Current(tokens)'
              PROVE  lock # NoTask /\ calls[task[lock].call].token = tokens
          <5>1. tokens = k
            BY <1>1, <1>2, <2>5, <4>1 DEF TokenInv, Sound, PairSound, Current
          <5> QED
            BY <1>2, <2>10, <4>1, <5>1 DEF Uncut, OnlyHolder
        <4>2. lock # NoTask => lock \in Tasks /\ task[lock].call \in CallIds
          BY DEF TokenInv, Sound, CoroutinesSound, TypeOK
        <4> QED
          BY <1>2, <2>7, <2>10, <4>1, <4>2 DEF Uncut, PairCurrent, Signed, Current
      <3>3. CallsCurrent'
        <4>1. ASSUME NEW d \in CallIds, d # c, calls[d].pc = "sent" PROVE Current(calls[d].token)'
          <5>1. Sent(d) /\ Issued(calls[d].token) /\ Current(calls[d].token) /\ calls[d].token # k
            BY <1>2, <2>10, <4>1 DEF Uncut, CallsCurrent, SentOnce, Sent, TokenInv, Sound, CallsSound
          <5> QED
            BY <1>1, <2>5, <2>7, <5>1
        <4> QED
          BY <2>a, <2>7, <2>10, <4>1 DEF Uncut, CallsCurrent
      <3> QED
        BY <3>1, <3>2, <3>3 DEF Uncut
    <2> QED
      BY <1>2, <2>8, <2>9, <2>10 DEF TokenInv
  <1> QED
    BY <1>3, <1>4 DEF Rotates

-----------------------------------------------------------------------------

LEMMA TokensStep == TokenInv /\ [Next]_vars => TokenInv'
  <1> SUFFICES ASSUME TokenInv, [Next]_vars PROVE TokenInv'
    OBVIOUS
  <1>1. ASSUME NEW t \in Tasks, Begin(t) \/ Proceed(t) \/ Lost(t) \/ RefreshLost(t) \/ Cancel(t)
        PROVE  TokenInv'
    BY <1>1, AskStep, StartLogoutStep, StartLoginStep, SignedInStep, NotSignedInStep, ServedStep,
       LoggedOutStep, RejectedStep, FailedStep, RenewedStep, RefreshStep, RefreshAnsweredStep,
       RefreshLostStep, CancelStep DEF Begin, Proceed
  <1>2. ASSUME NEW c \in CallIds, Serve(c) PROVE TokenInv'
    BY <1>2, RefusesStep, RotatesStep DEF Serve
  <1>3. ASSUME Restored \/ \E s \in SessionIds : RunOut(s) \/ Revoke(s) PROVE TokenInv'
    BY <1>3, OutsideStep
  <1>4. ASSUME UNCHANGED vars PROVE TokenInv'
    BY <1>4 DEF vars, TokenInv, TypeOK, Sound, PairSound, CoroutinesSound, CallsSound, AnswersFresh,
                Uncut, OnlyHolder, SentOnce, PairCurrent, CallsCurrent, Issued, Sent, Current, Signed
  <1> QED
    BY <1>1, <1>2, <1>3, <1>4 DEF Next

(* The inductive invariant holds of the client and the server for any      *)
(* number of coroutines, sign-ins, rotations and faults.                   *)
THEOREM TokensInvariance == Spec => []TokenInv
  BY TokensInit, TokensStep, PTL DEF Spec

(* Every variable keeps its type, and the refresh lock is held exactly     *)
(* while its holder waits for an answer: no error path of _refresh leaves  *)
(* it locked.                                                              *)
THEOREM TokensTypeCorrect == Spec => []TypeOK
  <1>1. TokenInv => TypeOK
    BY DEF TokenInv
  <1> QED
    BY <1>1, TokensInvariance, PTL

(* The client's own requests never make the server revoke the session for  *)
(* a repeated refresh secret, unless a refresh was cancelled on its way.   *)
THEOREM NoSelfReuseCorrect == Spec => []NoSelfReuse
  <1>1. TokenInv => NoSelfReuse
    BY DEF TokenInv, Uncut, CallsCurrent, NoSelfReuse
  <1> QED
    BY <1>1, TokensInvariance, PTL

(* What the server has answered, and what the client holds while no        *)
(* refresh is on its way, is the newest pair of its session.               *)
THEOREM NewestPairCorrect == Spec => []NewestPair
  <1>1. TokenInv => NewestPair
    BY DEF TokenInv, Sound, CallsSound, Uncut, PairCurrent, Current, NewestPair
  <1> QED
    BY <1>1, TokensInvariance, PTL

-----------------------------------------------------------------------------
(* Which sign-in everyone works for.                                       *)

Working(t) == task[t].pc \notin {"idle", "signing_in"}

(* One sign-in or one sign-out at a time, the one from the sign-in window, *)
(* the other from the dashboard; whoever has not been left behind works    *)
(* for the dashboard that is open.                                         *)
Doors ==
    /\ \A t \in Tasks :
        /\ task[t].pc = "idle" => task[t].op = "call"
        /\ task[t].pc = "signing_in" => task[t].op = "login"
        /\ task[t].pc = "logged_out" => task[t].op = "logout"
        /\ task[t].op = "login" => window = 0 /\ ~task[t].left
        /\ task[t].op = "logout" => Working(t) /\ ~task[t].left
        /\ task[t].op # "login" /\ Working(t) /\ ~task[t].left => window = task[t].home /\ window # 0
    /\ \A t, u \in Tasks : task[t].op = task[u].op /\ task[t].op # "call" => t = u

(* The call of the lock's holder asks for what was rejected; an answer is  *)
(* of the session that was asked for.                                      *)
CallsOwned ==
    /\ \A t \in Tasks : lock = t => calls[task[t].call].token = task[t].sent
    /\ \A c \in CallIds : calls[c].answer # NoTokens => calls[c].answer.session = calls[c].token.session

(* The server will refuse what t asks for, or has done so.                 *)
Dead(t) == sessions[task[t].sent.session].revoked /\ calls[task[t].call].answer = NoTokens

(* Beside a refresh the pair stays, unless the refresh can only fail.      *)
Beside ==
    lock # NoTask =>
        /\ crossed = "never" => tokens = task[lock].sent
        /\ crossed = "ended" => tokens = task[lock].sent \/ Dead(lock)

OwnSession ==
    crossed # "open" =>
        /\ \A t \in Tasks : Working(t) /\ ~task[t].left => task[t].sent.session = task[t].home
        /\ Signed => /\ window # 0 => tokens.session = window
                     /\ \A t \in Tasks : task[t].op = "login" /\ Working(t) =>
                            tokens.session = task[t].home

(* Unless a refresh was cut off, the server refuses only for a revoked     *)
(* session.                                                                *)
RefusalsDue ==
    \A c \in CallIds :
        /\ calls[c].pc = "read" => Current(calls[c].token)
        /\ calls[c].pc = "answered" /\ calls[c].answer = NoTokens =>
                sessions[calls[c].token.session].revoked

HomeInv == TokenInv /\ Doors /\ CallsOwned /\ Beside /\ OwnSession /\ (cut \/ RefusalsDue)

-----------------------------------------------------------------------------

LEMMA HomeInit == Init => HomeInv
  <1> SUFFICES ASSUME Init PROVE HomeInv
    OBVIOUS
  <1>1. TokenInv
    BY TokensInit
  <1>2. /\ lock = NoTask /\ tokens = NoTokens /\ crossed = "never"
        /\ \A t \in Tasks : task[t].pc = "idle" /\ task[t].op = "call"
        /\ \A c \in CallIds : calls[c].pc = "none" /\ calls[c].answer = NoTokens
    BY DEF Init, Idle, NoCall
  <1>3. Doors /\ CallsOwned /\ Beside /\ OwnSession /\ RefusalsDue
    BY <1>2, TokenConstants DEF Doors, CallsOwned, Beside, OwnSession, RefusalsDue, Working, Signed
  <1> QED
    BY <1>1, <1>3 DEF HomeInv

(* What revokes and rotates nothing on the way of a call.                  *)
Older ==
    \A s \in SessionIds : /\ sessions[s].revoked => sessions'[s].revoked
                          /\ sessions[s].gen >= 1 => sessions'[s].gen = sessions[s].gen

HolderStays ==
    lock # NoTask => task'[lock].sent = task[lock].sent /\ task'[lock].call = task[lock].call

LEMMA HolderAsks ==
  ASSUME TokenInv, lock # NoTask
  PROVE  /\ lock \in Tasks /\ task[lock].pc = "refreshing" /\ task[lock].call \in CallIds
         /\ Issued(task[lock].sent) /\ Sent(task[lock].call)
  BY DEF TokenInv, TypeOK, Sound, CoroutinesSound, Sent

(* A step beside the calls.                                                *)
LEMMA BesideStep ==
  ASSUME HomeInv, UNCHANGED <<lock, calls>>, cut => cut', Older, HolderStays,
         NEW t, (Crossing(t) /\ (lock = NoTask \/ lock # t)) \/ UNCHANGED <<tokens, crossed>>
  PROVE  /\ CallsOwned' /\ Beside' /\ (cut' \/ RefusalsDue')
         /\ crossed' # "open" => crossed # "open"
  <1> USE TokenConstants
  <1>1. CallsOwned'
    <2>1. \A r \in Tasks : lock' = r => calls'[task'[r].call].token = task'[r].sent
      BY DEF HomeInv, CallsOwned, HolderStays
    <2> QED
      BY <2>1 DEF HomeInv, CallsOwned
  <1>2. crossed' # "open" => crossed # "open"
    BY DEF Crossing
  <1>3. Beside'
    <2> SUFFICES ASSUME lock # NoTask
                 PROVE  /\ crossed' = "never" => tokens' = task'[lock].sent
                        /\ crossed' = "ended" => tokens' = task'[lock].sent \/ Dead(lock)'
      BY DEF Beside
    <2>1. Dead(lock) => Dead(lock)'
      BY HolderAsks DEF HomeInv, Dead, Older, HolderStays, Issued
    <2>2. CASE tokens' = tokens
      <3>1. crossed' = crossed
        BY <2>2 DEF Crossing
      <3> QED
        BY <2>1, <2>2, <3>1 DEF HomeInv, Beside, HolderStays
    <2>3. CASE tokens' # tokens
      <3>1. /\ crossed' \in {"ended", "open"}
            /\ crossed' = "ended" => Dead(lock)
        BY <2>3 DEF Crossing, Dead
      <3> QED
        BY <2>1, <3>1
    <2> QED
      BY <2>2, <2>3
  <1>4. ASSUME RefusalsDue PROVE RefusalsDue'
    <2>1. \A c \in CallIds : Sent(c) => Issued(calls[c].token)
      BY DEF HomeInv, TokenInv, Sound, CallsSound
    <2>2. \A c \in CallIds : calls[c].pc \in {"read", "answered"} => calls[c].token.session \in SessionIds
                                                  /\ sessions[calls[c].token.session].gen >= 1
      BY <2>1 DEF HomeInv, TokenInv, TypeOK, Issued, Sent, Call, Token, Session
    <2> QED
      BY <1>4, <2>2 DEF RefusalsDue, Current, Older
  <1> QED
    BY <1>1, <1>2, <1>3, <1>4 DEF HomeInv

(* The request of t is over; a sign-in that was served opens its dashboard. *)
LEMMA EndedHome ==
  ASSUME HomeInv, NEW t \in Tasks, task' = Ended(t), tokens' \in {tokens, NoTokens},
         crossed' # "open" => crossed # "open",
         window' = window \/ (task[t].op = "login" /\ Working(t) /\ window' = task[t].home)
  PROVE  Doors' /\ OwnSession'
  <1>1. task'[t].pc = "idle" /\ task'[t].op = "call" /\ \A r \in Tasks \ {t} : task'[r] = task[r]
    BY DEF Ended, Idle, HomeInv, TokenInv, TypeOK
  <1>2. CASE window' = window
    BY <1>1, <1>2 DEF HomeInv, Doors, OwnSession, Working, Signed
  <1>3. CASE task[t].op = "login" /\ Working(t) /\ window' = task[t].home
    <2>1. window = 0 /\ \A r \in Tasks \ {t} : task[r].op # "login"
      BY <1>3 DEF HomeInv, Doors
    <2>2. \A r \in Tasks \ {t} : Working(r) => task[r].left
      BY <2>1 DEF HomeInv, Doors
    <2>3. \A r \in Tasks \ {t} : task[r].op # "logout"
      BY <2>1, <2>2 DEF HomeInv, Doors
    <2>4. \A r \in Tasks \ {t} : task[r].op = "call"
      BY <2>1, <2>3 DEF HomeInv, TokenInv, TypeOK, Coroutine
    <2> QED
      BY <1>1, <1>3, <2>2, <2>4 DEF HomeInv, Doors, OwnSession, Working, Signed
  <1> QED
    BY <1>2, <1>3

(* The user has left, and everybody else is left behind.                   *)
LEMMA LeftHome ==
  ASSUME HomeInv, NEW t \in Tasks, Leave(t), window # 0,
         \A r \in Tasks \ {t} : task[r].op # "logout"
  PROVE  Doors' /\ OwnSession'
  <1>1. tokens' = NoTokens /\ window' = 0 /\ task'[t] = Idle
    BY DEF Leave
  <1>2. \A r \in Tasks \ {t} : task[r].op = "call"
    BY DEF HomeInv, Doors, TokenInv, TypeOK, Coroutine
  <1>3. ASSUME NEW r \in Tasks \ {t}
        PROVE  task'[r].op = "call" /\ task'[r].pc = task[r].pc /\ (Working(r) => task'[r].left)
    <2>1. task'[r] = [task[r] EXCEPT !.left = task[r].pc # "idle"]
      BY DEF Leave
    <2>2. PICK b : b = (task[r].pc # "idle")
      OBVIOUS
    <2>3. task'[r] = [task[r] EXCEPT !.left = b] /\ (Working(r) => b)
      BY <2>1, <2>2 DEF Working
    <2>4. task'[r].op = task[r].op /\ task'[r].pc = task[r].pc /\ task'[r].left = b
      BY <2>3 DEF HomeInv, TokenInv, TypeOK, Coroutine
    <2> QED
      BY <1>2, <2>3, <2>4
  <1>4. task'[t].pc = "idle" /\ task'[t].op = "call"
    BY <1>1 DEF Idle
  <1>5. Doors'
    BY <1>1, <1>2, <1>3, <1>4 DEF HomeInv, Doors, Working
  <1>6. OwnSession'
    BY <1>1, <1>3, <1>4 DEF OwnSession, Working, Signed
  <1> QED
    BY <1>5, <1>6

LEMMA LeaveStays ==
  ASSUME HomeInv, NEW t \in Tasks, Leave(t), lock # t PROVE HolderStays
  <1> SUFFICES ASSUME lock # NoTask
               PROVE  task'[lock].sent = task[lock].sent /\ task'[lock].call = task[lock].call
    BY DEF HolderStays
  <1>1. lock \in Tasks
    BY HolderAsks DEF HomeInv
  <1>2. PICK b : b = (task[lock].pc # "idle")
    OBVIOUS
  <1>3. task'[lock] = [task[lock] EXCEPT !.left = b]
    BY <1>1, <1>2 DEF Leave
  <1> QED
    BY <1>1, <1>3 DEF HomeInv, TokenInv, TypeOK, Coroutine

LEMMA FailedHome ==
  ASSUME HomeInv, NEW t \in Tasks, NEW k \in {tokens, NoTokens}, Fails(t, k),
         crossed' # "open" => crossed # "open"
  PROVE  Doors' /\ OwnSession'
  <1>1. CASE task' = Ended(t) /\ tokens' \in {k, NoTokens} /\ UNCHANGED window
    BY <1>1, EndedHome
  <1>2. CASE task[t].op = "logout" /\ Leave(t)
    <2>1. window # 0 /\ \A r \in Tasks \ {t} : task[r].op # "logout"
      BY <1>2 DEF HomeInv, Doors
    <2> QED
      BY <1>2, <2>1, LeftHome
  <1> QED
    BY <1>1, <1>2 DEF Fails

(* A request goes on, with its own header or with the client's pair.       *)
LEMMA MovedHome ==
  ASSUME HomeInv, NEW t \in Tasks, \A r \in Tasks \ {t} : task'[r] = task[r],
         Working(t), Working(t)', task'[t].op = task[t].op,
         task'[t].pc = "logged_out" => task[t].op = "logout",
         task'[t].left = task[t].left, task'[t].home = task[t].home, window' = window,
         crossed' # "open" => crossed # "open",
         crossed # "open" /\ Signed' => Signed /\ tokens'.session = tokens.session,
         task'[t].sent = task[t].sent \/ (Signed' /\ task'[t].sent = tokens')
  PROVE  Doors' /\ OwnSession'
  <1>1. Doors'
    BY DEF HomeInv, Doors, Working
  <1> SUFFICES ASSUME crossed # "open", crossed' # "open" PROVE OwnSession'
    BY <1>1 DEF OwnSession
  <1>2. Signed' => /\ window # 0 => tokens'.session = window
                   /\ \A r \in Tasks : task[r].op = "login" /\ Working(r) => tokens'.session = task[r].home
    BY DEF HomeInv, OwnSession
  <1>3. ~task[t].left => task'[t].sent.session = task[t].home
    <2>1. CASE task'[t].sent = task[t].sent
      BY <2>1 DEF HomeInv, OwnSession
    <2>2. CASE Signed' /\ task'[t].sent = tokens'
      BY <1>2, <2>2 DEF HomeInv, Doors
    <2> QED
      BY <2>1, <2>2
  <1>4. \A r \in Tasks : Working(r)' /\ ~task'[r].left => task'[r].sent.session = task'[r].home
    BY <1>3 DEF HomeInv, OwnSession, Working
  <1>5. \A r \in Tasks : task'[r].op = "login" /\ Working(r)' => task[r].op = "login" /\ Working(r)
                                                               /\ task'[r].home = task[r].home
    BY DEF Working
  <1> QED
    BY <1>2, <1>4, <1>5 DEF OwnSession

-----------------------------------------------------------------------------
(* The steps, one by one; that TokenInv is kept is proved above.           *)

Homed == Doors' /\ OwnSession' /\ CallsOwned' /\ Beside' /\ (cut' \/ RefusalsDue')

LEMMA AskHome == ASSUME HomeInv, NEW t \in Tasks, Ask(t) PROVE Homed
  <1>1. /\ task' = [task EXCEPT ![t] = [Idle EXCEPT !.pc = "asking", !.home = window, !.sent = tokens]]
        /\ task[t].pc = "idle" /\ window # 0 /\ Signed
        /\ UNCHANGED <<tokens, lock, window, sessions, calls, cut, crossed>>
    BY DEF Ask
  <1>2. /\ task'[t].op = "call" /\ task'[t].home = window /\ task'[t].sent = tokens /\ ~task'[t].left
        /\ task'[t].pc = "asking"
        /\ \A r \in Tasks \ {t} : task'[r] = task[r]
    BY <1>1 DEF Idle, HomeInv, TokenInv, TypeOK
  <1>3. Older /\ HolderStays
    BY <1>1, <1>2, HolderAsks DEF Older, HolderStays, HomeInv
  <1>4. CallsOwned' /\ Beside' /\ (cut' \/ RefusalsDue')
    BY <1>1, <1>3, BesideStep
  <1>5. Doors' /\ OwnSession'
    BY <1>1, <1>2 DEF HomeInv, Doors, OwnSession, Working, Signed
  <1> QED
    BY <1>4, <1>5 DEF Homed

LEMMA StartLogoutHome == ASSUME HomeInv, NEW t \in Tasks, StartLogout(t) PROVE Homed
  <1>1. /\ task[t].pc = "idle" /\ window # 0 /\ \A s \in Tasks : task[s].op # "logout"
        /\ Crossing(t) /\ UNCHANGED <<lock, sessions, calls, cut>> /\ Older
    BY DEF StartLogout, Older
  <1>2. lock # t
    BY <1>1, TokenConstants DEF HomeInv, TokenInv, TypeOK
  <1>3. CASE /\ Signed /\ UNCHANGED <<tokens, window>>
             /\ task' = [task EXCEPT ![t] = [Idle EXCEPT !.op = "logout", !.pc = "asking",
                                                         !.home = window, !.sent = tokens]]
    <2>1. /\ task'[t].op = "logout" /\ task'[t].home = window /\ task'[t].sent = tokens /\ ~task'[t].left
          /\ task'[t].pc = "asking"
          /\ \A r \in Tasks \ {t} : task'[r] = task[r]
      BY <1>3 DEF Idle, HomeInv, TokenInv, TypeOK
    <2>2. HolderStays
      BY <1>2, <2>1, HolderAsks DEF HolderStays, HomeInv
    <2>3. CallsOwned' /\ Beside' /\ (cut' \/ RefusalsDue') /\ (crossed' # "open" => crossed # "open")
      BY <1>1, <1>2, <2>2, BesideStep
    <2>4. Doors'
      BY <1>1, <1>3, <2>1 DEF HomeInv, Doors, Working
    <2>5. OwnSession'
      BY <1>1, <1>3, <2>1, <2>3 DEF HomeInv, OwnSession, Working, Signed
    <2> QED
      BY <2>3, <2>4, <2>5 DEF Homed
  <1>4. CASE Leave(t)
    <2>1. HolderStays
      BY <1>2, <1>4, LeaveStays
    <2>2. CallsOwned' /\ Beside' /\ (cut' \/ RefusalsDue') /\ (crossed' # "open" => crossed # "open")
      BY <1>1, <1>2, <2>1, BesideStep
    <2> QED
      BY <1>1, <1>4, <2>2, LeftHome DEF Homed
  <1> QED
    BY <1>3, <1>4 DEF StartLogout

LEMMA StartLoginHome == ASSUME HomeInv, NEW t \in Tasks, StartLogin(t) PROVE Homed
  <1>1. /\ task[t].pc = "idle" /\ window = 0 /\ \A s \in Tasks : task[s].op # "login"
        /\ Crossing(t) /\ UNCHANGED <<lock, window, sessions, calls, cut>> /\ tokens' = NoTokens /\ Older
        /\ task' = [task EXCEPT ![t] = [Idle EXCEPT !.op = "login", !.pc = "signing_in"]]
    BY DEF StartLogin, Older
  <1>2. lock # t
    BY <1>1, TokenConstants DEF HomeInv, TokenInv, TypeOK
  <1>3. /\ task'[t].op = "login" /\ ~task'[t].left /\ task'[t].pc = "signing_in"
        /\ \A r \in Tasks \ {t} : task'[r] = task[r]
    BY <1>1 DEF Idle, HomeInv, TokenInv, TypeOK
  <1>4. HolderStays
    BY <1>2, <1>3, HolderAsks DEF HolderStays, HomeInv
  <1>5. CallsOwned' /\ Beside' /\ (cut' \/ RefusalsDue') /\ (crossed' # "open" => crossed # "open")
    BY <1>1, <1>2, <1>4, BesideStep
  <1>6. Doors'
    BY <1>1, <1>3 DEF HomeInv, Doors, Working
  <1>7. OwnSession'
    BY <1>1, <1>3, <1>5 DEF HomeInv, OwnSession, Working, Signed
  <1> QED
    BY <1>5, <1>6, <1>7 DEF Homed

LEMMA SignedInHome == ASSUME HomeInv, NEW t \in Tasks, SignedIn(t) PROVE Homed
  <1>1. PICK s \in SessionIds :
            /\ sessions[s] = NoSession
            /\ sessions' = [sessions EXCEPT ![s].gen = 1]
            /\ tokens' = [session |-> s, gen |-> 1]
            /\ task' = [task EXCEPT ![t].pc = "asking", ![t].home = s, ![t].sent = tokens']
    BY DEF SignedIn
  <1>2. /\ task[t].pc = "signing_in" /\ Crossing(t)
        /\ UNCHANGED <<lock, window, calls, faults, cut>>
    BY DEF SignedIn
  <1>3. lock # t
    BY <1>2, TokenConstants DEF HomeInv, TokenInv, TypeOK
  <1>4. Older
    BY <1>1 DEF Older, NoSession, HomeInv, TokenInv, TypeOK, Session
  <1>5. /\ task'[t].pc = "asking" /\ task'[t].home = s /\ task'[t].sent = tokens'
        /\ task'[t].op = task[t].op /\ task'[t].left = task[t].left
        /\ \A r \in Tasks \ {t} : task'[r] = task[r]
    BY <1>1 DEF HomeInv, TokenInv, TypeOK, Coroutine
  <1>6. HolderStays
    BY <1>3, <1>5, HolderAsks DEF HolderStays, HomeInv
  <1>7. CallsOwned' /\ Beside' /\ (cut' \/ RefusalsDue') /\ (crossed' # "open" => crossed # "open")
    BY <1>2, <1>3, <1>4, <1>6, BesideStep
  <1>8. task[t].op = "login" /\ window = 0
    BY <1>2 DEF HomeInv, Doors
  <1>9. Doors'
    BY <1>2, <1>5, <1>8 DEF HomeInv, Doors, Working
  <1>10. tokens'.session = s
    BY <1>1
  <1>11. \A r \in Tasks \ {t} : task[r].op # "login"
    BY <1>8 DEF HomeInv, Doors
  <1>12. OwnSession'
    BY <1>2, <1>5, <1>7, <1>8, <1>10, <1>11 DEF HomeInv, OwnSession, Working
  <1> QED
    BY <1>7, <1>9, <1>12 DEF Homed

LEMMA NotSignedInHome == ASSUME HomeInv, NEW t \in Tasks, NotSignedIn(t) PROVE Homed
  <1>1. /\ task[t].pc = "signing_in" /\ task' = Ended(t) /\ Older
        /\ UNCHANGED <<tokens, lock, window, sessions, calls, cut, crossed>>
    BY DEF NotSignedIn, Older
  <1>2. HolderStays
    BY <1>1, HolderAsks DEF HolderStays, HomeInv, Ended, TokenInv, TypeOK
  <1>3. CallsOwned' /\ Beside' /\ (cut' \/ RefusalsDue')
    BY <1>1, <1>2, BesideStep
  <1> QED
    BY <1>1, <1>3, EndedHome DEF Homed

LEMMA ServedHome == ASSUME HomeInv, NEW t \in Tasks, Served(t) PROVE Homed
  <1>1. /\ task[t].pc \in {"asking", "retrying"} /\ Working(t)
        /\ UNCHANGED <<tokens, lock, calls, cut, crossed>>
    BY DEF Served, Working
  <1>2. lock # t
    BY <1>1, TokenConstants DEF HomeInv, TokenInv, TypeOK
  <1>3. CASE task[t].op # "logout"
    <2>0. /\ task' = Ended(t) /\ UNCHANGED sessions
          /\ window' = window \/ (task[t].op = "login" /\ window' = task[t].home)
      BY <1>3 DEF Served
    <2>1. HolderStays /\ Older
      BY <1>2, <2>0, HolderAsks DEF HolderStays, Older, HomeInv, Ended, TokenInv, TypeOK
    <2>2. CallsOwned' /\ Beside' /\ (cut' \/ RefusalsDue')
      BY <1>1, <2>1, BesideStep
    <2> QED
      BY <1>1, <2>0, <2>2, EndedHome DEF Homed
  <1>4. CASE task[t].op = "logout"
    <2>0. /\ UNCHANGED window /\ task' = [task EXCEPT ![t].pc = "logged_out"]
          /\ sessions' = [sessions EXCEPT ![task[t].sent.session].revoked = TRUE]
      BY <1>4 DEF Served
    <2>1. /\ task'[t].pc = "logged_out" /\ task'[t].op = task[t].op /\ task'[t].left = task[t].left
          /\ task'[t].home = task[t].home /\ task'[t].sent = task[t].sent
          /\ \A r \in Tasks \ {t} : task'[r] = task[r]
      BY <2>0 DEF HomeInv, TokenInv, TypeOK, Coroutine
    <2>2. HolderStays
      BY <1>2, <2>1, HolderAsks DEF HolderStays, HomeInv
    <2>3. Older
      BY <2>0 DEF Older, HomeInv, TokenInv, TypeOK, Session
    <2>4. CallsOwned' /\ Beside' /\ (cut' \/ RefusalsDue')
      BY <1>1, <2>2, <2>3, BesideStep
    <2>5. Working(t)' /\ (Signed' <=> Signed)
      BY <1>1, <2>1 DEF Working, Signed
    <2>6. task[t].op = "logout" /\ window' = window
      BY <1>4, <2>0
    <2>7. Doors' /\ OwnSession'
      BY <1>1, <2>1, <2>5, <2>6, MovedHome
    <2> QED
      BY <2>4, <2>7 DEF Homed
  <1> QED
    BY <1>3, <1>4

LEMMA LoggedOutHome == ASSUME HomeInv, NEW t \in Tasks, LoggedOut(t) PROVE Homed
  <1>1. /\ task[t].pc = "logged_out" /\ Leave(t) /\ Crossing(t) /\ Older
        /\ UNCHANGED <<lock, sessions, calls, cut>>
    BY DEF LoggedOut, Older
  <1>2. lock # t
    BY <1>1, TokenConstants DEF HomeInv, TokenInv, TypeOK
  <1>3. CallsOwned' /\ Beside' /\ (cut' \/ RefusalsDue') /\ (crossed' # "open" => crossed # "open")
    BY <1>1, <1>2, LeaveStays, BesideStep
  <1>4. task[t].op = "logout"
    BY <1>1 DEF HomeInv, Doors
  <1>5. window # 0 /\ \A r \in Tasks \ {t} : task[r].op # "logout"
    BY <1>4 DEF HomeInv, Doors
  <1> QED
    BY <1>1, <1>3, <1>5, LeftHome DEF Homed

LEMMA RejectedHome == ASSUME HomeInv, NEW t \in Tasks, Rejected(t) PROVE Homed
  <1>1. /\ task[t].pc = "asking" /\ task' = [task EXCEPT ![t].pc = "rejected"] /\ Older
        /\ UNCHANGED <<tokens, lock, window, sessions, calls, cut, crossed>>
    BY DEF Rejected, Older
  <1>2. lock # t
    BY <1>1, TokenConstants DEF HomeInv, TokenInv, TypeOK
  <1>3. /\ task'[t].pc = "rejected" /\ task'[t].op = task[t].op /\ task'[t].left = task[t].left
        /\ task'[t].home = task[t].home /\ task'[t].sent = task[t].sent
        /\ \A r \in Tasks \ {t} : task'[r] = task[r]
    BY <1>1 DEF HomeInv, TokenInv, TypeOK, Coroutine
  <1>4. HolderStays
    BY <1>2, <1>3, HolderAsks DEF HolderStays, HomeInv
  <1>5. CallsOwned' /\ Beside' /\ (cut' \/ RefusalsDue')
    BY <1>1, <1>4, BesideStep
  <1>6. Working(t) /\ Working(t)' /\ (Signed' <=> Signed)
    BY <1>1, <1>3 DEF Working, Signed
  <1>7. Doors' /\ OwnSession'
    BY <1>1, <1>3, <1>6, MovedHome
  <1> QED
    BY <1>5, <1>7 DEF Homed

LEMMA RetriedRecord ==
  ASSUME HomeInv, NEW t \in Tasks, NEW k, task' = Retried(t, k)
  PROVE  /\ task'[t].pc = "retrying" /\ task'[t].op = task[t].op /\ task'[t].left = task[t].left
         /\ task'[t].home = task[t].home /\ task'[t].sent = k
         /\ \A r \in Tasks \ {t} : task'[r] = task[r]
  BY DEF Retried, HomeInv, TokenInv, TypeOK, Coroutine

LEMMA RenewedHome == ASSUME HomeInv, NEW t \in Tasks, Renewed(t) PROVE Homed
  <1>1. /\ task[t].pc = "rejected" /\ lock = NoTask /\ Signed /\ task' = Retried(t, tokens) /\ Older
        /\ UNCHANGED <<tokens, lock, window, sessions, calls, cut, crossed>>
    BY DEF Renewed, Older
  <1>2. HolderStays
    BY <1>1 DEF HolderStays
  <1>3. CallsOwned' /\ Beside' /\ (cut' \/ RefusalsDue')
    BY <1>1, <1>2, BesideStep
  <1>4. Working(t) /\ Working(t)' /\ Signed'
    BY <1>1, RetriedRecord DEF Working, Signed
  <1>5. Doors' /\ OwnSession'
    BY <1>1, <1>4, RetriedRecord, MovedHome
  <1> QED
    BY <1>3, <1>5 DEF Homed

(* A request fails that held no lock.                                      *)
LEMMA FailsStays ==
  ASSUME HomeInv, NEW t \in Tasks, NEW k, Fails(t, k), lock # t PROVE HolderStays
  <1>1. CASE task' = Ended(t)
    BY <1>1, HolderAsks DEF HolderStays, Ended, HomeInv, TokenInv, TypeOK
  <1>2. CASE Leave(t)
    BY <1>2, LeaveStays
  <1> QED
    BY <1>1, <1>2 DEF Fails

LEMMA FailingHome ==
  ASSUME HomeInv, NEW t \in Tasks, RejectedAgain(t) \/ Lost(t) \/ GivesUp(t) PROVE Homed
  <1>1. /\ task[t].pc \in {"retrying", "asking", "logged_out", "rejected"} /\ Fails(t, tokens) /\ Older
        /\ UNCHANGED <<lock, sessions, calls, cut>>
        /\ Crossing(t) \/ (lock = NoTask /\ UNCHANGED crossed)
    BY DEF RejectedAgain, Lost, GivesUp, Older
  <1>2. lock # t
    BY <1>1, TokenConstants DEF HomeInv, TokenInv, TypeOK
  <1>3. HolderStays
    BY <1>1, <1>2, FailsStays
  <1>4. Crossing(t)
    BY <1>1 DEF Crossing
  <1>5. CallsOwned' /\ Beside' /\ (cut' \/ RefusalsDue') /\ (crossed' # "open" => crossed # "open")
    BY <1>1, <1>2, <1>3, <1>4, BesideStep
  <1>6. Doors' /\ OwnSession'
    BY <1>1, <1>5, FailedHome
  <1> QED
    BY <1>5, <1>6 DEF Homed

LEMMA RefreshHome == ASSUME HomeInv, NEW t \in Tasks, Refresh(t) PROVE Homed
  <1>1. PICK c \in CallIds :
            /\ Unused(c)
            /\ calls' = [calls EXCEPT ![c] = [NoCall EXCEPT !.pc = "sent", !.token = tokens]]
            /\ task' = [task EXCEPT ![t].pc = "refreshing", ![t].call = c]
    BY DEF Refresh
  <1>2. /\ task[t].pc = "rejected" /\ lock = NoTask /\ Signed /\ tokens = task[t].sent /\ lock' = t
        /\ UNCHANGED <<tokens, window, sessions, cut, crossed>>
    BY DEF Refresh
  <1>3. /\ task'[t].pc = "refreshing" /\ task'[t].op = task[t].op /\ task'[t].left = task[t].left
        /\ task'[t].home = task[t].home /\ task'[t].sent = task[t].sent /\ task'[t].call = c
        /\ \A r \in Tasks \ {t} : task'[r] = task[r]
    BY <1>1 DEF HomeInv, TokenInv, TypeOK, Coroutine
  <1>4. /\ calls'[c].pc = "sent" /\ calls'[c].token = tokens /\ calls'[c].answer = NoTokens
        /\ \A d \in CallIds \ {c} : calls'[d] = calls[d]
    BY <1>1 DEF NoCall, HomeInv, TokenInv, TypeOK
  <1>5. CallsOwned'
    BY <1>2, <1>3, <1>4, TokenConstants DEF HomeInv, CallsOwned
  <1>6. Beside'
    BY <1>2, <1>3 DEF Beside
  <1>7. RefusalsDue => RefusalsDue'
    BY <1>2, <1>4 DEF RefusalsDue, Current
  <1>8. Working(t) /\ Working(t)' /\ (Signed' <=> Signed)
    BY <1>2, <1>3 DEF Working, Signed
  <1>9. Doors' /\ OwnSession'
    BY <1>2, <1>3, <1>8, MovedHome
  <1> QED
    BY <1>2, <1>5, <1>6, <1>7, <1>9 DEF Homed, HomeInv

LEMMA RefreshAnsweredHome == ASSUME HomeInv, NEW t \in Tasks, RefreshAnswered(t) PROVE Homed
  <1> PICK c : c = task[t].call
    OBVIOUS
  <1>1. /\ task[t].pc = "refreshing" /\ lock = t /\ lock' = NoTask /\ c \in CallIds
        /\ calls' = [calls EXCEPT ![c] = NoCall]
        /\ UNCHANGED <<sessions, cut, crossed>>
    BY DEF RefreshAnswered, HomeInv, TokenInv, TypeOK, Sound, CoroutinesSound
  <1>2. /\ calls'[c] = NoCall /\ \A d \in CallIds \ {c} : calls'[d] = calls[d]
    BY <1>1 DEF HomeInv, TokenInv, TypeOK
  <1>3. CallsOwned'
    BY <1>1, <1>2, TokenConstants DEF HomeInv, CallsOwned, NoCall
  <1>4. Beside'
    BY <1>1 DEF Beside
  <1>5. RefusalsDue => RefusalsDue'
    BY <1>1, <1>2 DEF RefusalsDue, Current, NoCall
  <1>6. CASE calls[c].answer # NoTokens /\ tokens' = calls[c].answer /\ task' = Retried(t, calls[c].answer)
             /\ UNCHANGED window
    <2>1. tokens'.session = task[t].sent.session
      BY <1>1, <1>6 DEF HomeInv, CallsOwned
    <2>2. Working(t) /\ Working(t)' /\ Signed'
      BY <1>1, <1>6, RetriedRecord DEF Working, Signed
    <2>3. crossed # "open" => tokens = task[t].sent
      BY <1>1, <1>6, TokenConstants DEF HomeInv, TokenInv, TypeOK, Beside, Dead
    <2>4. Issued(task[t].sent) /\ NoTokens.session \notin SessionIds
      BY <1>1, TokenConstants, HolderAsks DEF HomeInv, NoTokens, SessionIds
    <2>5. crossed # "open" => Signed /\ tokens'.session = tokens.session
      BY <2>1, <2>3, <2>4 DEF Signed, Issued
    <2>6. Doors' /\ OwnSession'
      BY <1>1, <1>6, <2>2, <2>5, RetriedRecord, MovedHome
    <2> QED
      BY <1>1, <1>3, <1>4, <1>5, <2>6 DEF Homed, HomeInv
  <1>7. CASE Fails(t, NoTokens)
    <2>1. Doors' /\ OwnSession'
      BY <1>1, <1>7, FailedHome
    <2> QED
      BY <1>1, <1>3, <1>4, <1>5, <2>1 DEF Homed, HomeInv
  <1> QED
    BY <1>6, <1>7 DEF RefreshAnswered

LEMMA RefreshLostHome == ASSUME HomeInv, NEW t \in Tasks, RefreshLost(t) PROVE Homed
  <1>1. Fails(t, NoTokens) /\ lock' = NoTask /\ UNCHANGED <<sessions, calls, cut, crossed>>
    BY DEF RefreshLost
  <1>2. Doors' /\ OwnSession'
    BY <1>1, FailedHome
  <1>3. CallsOwned' /\ Beside' /\ (RefusalsDue => RefusalsDue')
    BY <1>1, TokenConstants DEF HomeInv, CallsOwned, Beside, RefusalsDue, Current
  <1> QED
    BY <1>1, <1>2, <1>3 DEF Homed, HomeInv

LEMMA CancelHome == ASSUME HomeInv, NEW t \in Tasks, Cancel(t) PROVE Homed
  <1>1. /\ task[t].op = "call" /\ task' = Ended(t) /\ (lock' = IF lock = t THEN NoTask ELSE lock)
        /\ cut' = (cut \/ task[t].pc = "refreshing")
        /\ UNCHANGED <<tokens, window, sessions, calls, crossed>>
    BY DEF Cancel
  <1>2. Doors' /\ OwnSession'
    BY <1>1, EndedHome
  <1>3. \A r \in Tasks \ {t} : task'[r] = task[r]
    BY <1>1 DEF Ended, HomeInv, TokenInv, TypeOK
  <1>4. CallsOwned' /\ (RefusalsDue => RefusalsDue')
    BY <1>1, <1>3, TokenConstants DEF HomeInv, CallsOwned, RefusalsDue, Current
  <1>5. Beside'
    <2> SUFFICES ASSUME lock # t, lock # NoTask PROVE Beside'
      BY <1>1 DEF Beside
    <2>1. lock' = lock /\ task'[lock] = task[lock]
      BY <1>1, <1>3, HolderAsks DEF HomeInv
    <2> QED
      BY <1>1, <2>1 DEF HomeInv, Beside, Dead
  <1> QED
    BY <1>1, <1>2, <1>4, <1>5 DEF Homed, HomeInv

(* The server's side of a refresh.                                         *)
Looked(c) ==
    LET k == calls[c].token IN
    /\ calls'[c].token = k /\ calls'[c].answer = NoTokens
    /\ calls'[c].pc = "answered" => sessions'[k.session].revoked
    /\ calls'[c].pc = "read" => k.gen = sessions'[k.session].gen
    /\ \A d \in CallIds \ {c} : calls'[d] = calls[d]
    /\ Older

LEMMA ReadsHome == ASSUME HomeInv, NEW c \in CallIds, RefreshReads(c) \/ RevokesReused(c) PROVE Homed
  <1> PICK k : k = calls[c].token
    OBVIOUS
  <1>1. /\ calls \in [CallIds -> Call] /\ calls[c] \in Call /\ sessions \in [SessionIds -> Session]
        /\ UNCHANGED <<tokens, lock, task, window, cut, crossed>>
        /\ calls[c].pc \in {"sent", "reused"} /\ calls[c].answer = NoTokens /\ k.session \in SessionIds
    BY DEF HomeInv, TokenInv, TypeOK, RefreshReads, RevokesReused, Sound, CallsSound, Sent, Issued
  <1>2. Looked(c)
    <2>1. CASE calls' = Answer(c, NoTokens) /\ sessions[k.session].revoked /\ UNCHANGED sessions
      BY <1>1, <2>1 DEF Answer, Call, Older, Looked
    <2>2. CASE /\ sessions' = [sessions EXCEPT ![k.session].revoked = TRUE]
               /\ calls' = Answer(c, NoTokens)
      <3>1. sessions'[k.session].revoked /\ Older
        BY <1>1, <2>2 DEF Older, Session
      <3>2. /\ calls'[c].token = k /\ calls'[c].answer = NoTokens /\ calls'[c].pc = "answered"
            /\ \A d \in CallIds \ {c} : calls'[d] = calls[d]
        BY <1>1, <2>2 DEF Answer, Call
      <3> QED
        BY <3>1, <3>2 DEF Looked
    <2>3. ASSUME NEW pc \in {"read", "reused"}, calls' = [calls EXCEPT ![c].pc = pc],
                 pc = "read" => sessions[k.session].gen = k.gen, UNCHANGED sessions
          PROVE  Looked(c)
      BY <1>1, <2>3 DEF Call, Older, Looked
    <2>4. RevokesReused(c) => Looked(c)
      BY <2>2 DEF RevokesReused
    <2>5. ASSUME RefreshReads(c) PROVE Looked(c)
      <3>1. CASE sessions[k.session].revoked
        BY <2>1, <2>5, <3>1 DEF RefreshReads
      <3>2. CASE ~sessions[k.session].revoked /\ sessions[k.session].gen = k.gen
        BY <2>3, <2>5, <3>2 DEF RefreshReads
      <3>3. CASE ~sessions[k.session].revoked /\ sessions[k.session].gen # k.gen
        BY <2>3, <2>5, <3>3 DEF RefreshReads
      <3> QED
        BY <3>1, <3>2, <3>3
    <2> QED
      BY <2>4, <2>5
  <1>3. Doors' /\ OwnSession'
    BY <1>1 DEF HomeInv, Doors, OwnSession, Working, Signed
  <1>4. \A d \in CallIds : calls'[d].token = calls[d].token /\ calls'[d].answer = calls[d].answer
    BY <1>1, <1>2 DEF Looked
  <1>5. CallsOwned'
    BY <1>1, <1>4, HolderAsks DEF HomeInv, CallsOwned, TokenInv, TypeOK, Sound, CoroutinesSound
  <1>6. Beside'
    <2> SUFFICES ASSUME lock # NoTask, Dead(lock) PROVE Dead(lock)'
      BY <1>1 DEF HomeInv, Beside
    <2> QED
      BY <1>1, <1>2, <1>4, HolderAsks DEF HomeInv, Dead, Older, Issued, Looked
  <1>7. RefusalsDue => RefusalsDue'
    <2>1. \A d \in CallIds : Sent(d) => calls[d].token.session \in SessionIds /\ sessions[calls[d].token.session].gen >= 1
      BY DEF HomeInv, TokenInv, TypeOK, Sound, CallsSound, Issued, Token, Session, Call
    <2> QED
      BY <1>2, <2>1 DEF RefusalsDue, Older, Current, Sent, Looked
  <1> QED
    BY <1>1, <1>3, <1>5, <1>6, <1>7 DEF Homed, HomeInv

LEMMA RotatesHome == ASSUME HomeInv, NEW c \in CallIds, Rotates(c) PROVE Homed
  <1> PICK k \in Token : k = calls[c].token
    BY DEF HomeInv, TokenInv, TypeOK, Call
  <1>1. /\ calls \in [CallIds -> Call] /\ calls[c] \in Call /\ sessions \in [SessionIds -> Session]
        /\ UNCHANGED <<tokens, lock, task, window, cut, crossed>>
        /\ calls[c].pc = "read" /\ Sent(c) /\ Issued(k) /\ k.session \in SessionIds
    BY DEF HomeInv, TokenInv, TypeOK, Rotates, Sound, CallsSound, Sent, Issued
  <1>2. Doors' /\ OwnSession'
    BY <1>1 DEF HomeInv, Doors, OwnSession, Working, Signed
  <1>3. PICK a \in Token :
            /\ calls' = Answer(c, a)
            /\ \/ /\ Rotatable(k) /\ a.session = k.session
                  /\ sessions' = [sessions EXCEPT ![k.session].gen = @ + 1]
               \/ ~Rotatable(k) /\ a = NoTokens /\ UNCHANGED sessions
    <2>1. CASE /\ Rotatable(k)
               /\ sessions' = [sessions EXCEPT ![k.session].gen = @ + 1]
               /\ calls' = Answer(c, [k EXCEPT !.gen = sessions'[k.session].gen])
      <3>1. sessions'[k.session].gen \in Nat
        BY <1>1, <2>1 DEF Session
      <3>2. [k EXCEPT !.gen = sessions'[k.session].gen] \in Token /\ [k EXCEPT !.gen = sessions'[k.session].gen].session = k.session
        BY <3>1 DEF Token
      <3> QED
        BY <2>1, <3>2
    <2>2. CASE ~Rotatable(k) /\ calls' = Answer(c, NoTokens) /\ UNCHANGED sessions
      BY <2>2, TokenConstants DEF Token, NoTokens
    <2> QED
      BY <2>1, <2>2 DEF Rotates
  <1>4. /\ calls'[c].pc = "answered" /\ calls'[c].token = k /\ calls'[c].answer = a
        /\ \A d \in CallIds \ {c} : calls'[d] = calls[d]
    BY <1>1, <1>3 DEF Answer, Call
  <1>5. /\ \A s \in SessionIds : sessions'[s].revoked = sessions[s].revoked
        /\ \A s \in SessionIds : s # k.session => sessions'[s].gen = sessions[s].gen
    BY <1>1, <1>3 DEF Session
  <1>6. a # NoTokens => a.session = k.session
    BY <1>3
  <1>7. CallsOwned'
    <2>1. \A d \in CallIds : calls'[d].token = calls[d].token
      BY <1>4
    <2> QED
      BY <1>1, <1>4, <1>6, <2>1 DEF HomeInv, CallsOwned, TokenInv, TypeOK, Sound, CoroutinesSound
  <1>8. Beside'
    \* a rotation needs a session that is not revoked
    <2> SUFFICES ASSUME lock # NoTask, Dead(lock) PROVE Dead(lock)'
      BY <1>1 DEF HomeInv, Beside
    <2>1. task[lock].sent.session \in SessionIds
      BY HolderAsks DEF HomeInv, Issued
    <2>2. calls'[task[lock].call].answer = NoTokens
      <3>1. CASE task[lock].call = c
        <4>1. sessions[k.session].revoked
          BY <3>1, HolderAsks DEF HomeInv, CallsOwned, Dead
        <4> QED
          BY <1>3, <1>4, <3>1, <4>1 DEF Rotatable
      <3>2. CASE task[lock].call # c
        BY <1>4, <3>2, HolderAsks DEF HomeInv, Dead
      <3> QED
        BY <3>1, <3>2
    <2> QED
      BY <1>1, <1>5, <2>1, <2>2 DEF Dead
  <1>9. ASSUME ~cut PROVE RefusalsDue'
    <2>1. RefusalsDue /\ SentOnce
      BY <1>9 DEF HomeInv, TokenInv, Uncut
    <2>2. \A d \in CallIds : Sent(d) => calls[d].token.session \in SessionIds
      BY DEF HomeInv, TokenInv, Sound, CallsSound, Issued
    <2>3. a = NoTokens => sessions'[k.session].revoked
      <3> HAVE a = NoTokens
      <3>1. ~Rotatable(k)
        BY <1>1, <1>3 DEF NoTokens, SessionIds
      <3>2. Current(k)
        BY <1>1, <2>1 DEF RefusalsDue
      <3> QED
        BY <1>1, <1>3, <3>1, <3>2 DEF Rotatable, Current
    <2>4. ASSUME NEW d \in CallIds \ {c}, calls[d].pc = "read" PROVE Current(calls[d].token)'
      <3>1. Current(calls[d].token) /\ Sent(d) /\ calls[d].token # k /\ calls[d].token \in Token
        BY <1>1, <2>1, <2>4 DEF RefusalsDue, Sent, SentOnce, Call
      <3>2. Current(k)
        BY <1>1, <2>1 DEF RefusalsDue
      <3>3. calls[d].token.session # k.session
        BY <3>1, <3>2 DEF Current, Token
      <3> QED
        BY <1>4, <1>5, <2>2, <3>1, <3>3 DEF Current
    <2> QED
      BY <1>4, <1>5, <2>1, <2>2, <2>3, <2>4 DEF RefusalsDue, Sent
  <1> QED
    BY <1>1, <1>2, <1>7, <1>8, <1>9 DEF Homed

LEMMA OutsideHome ==
  ASSUME HomeInv, Restored \/ \E s \in SessionIds : RunOut(s) \/ Revoke(s)
  PROVE  Homed
  <1>1. /\ UNCHANGED <<lock, task, window, calls, cut>> /\ tokens' \in {tokens, NoTokens}
        /\ Crossing(NoTask) \/ UNCHANGED <<tokens, crossed>>
    BY DEF Restored, RunOut, Revoke
  <1>2. Older
    BY DEF Restored, RunOut, Revoke, Older, HomeInv, TokenInv, TypeOK, Session
  <1>3. HolderStays
    BY <1>1 DEF HolderStays
  <1>4. lock = NoTask \/ lock # NoTask
    OBVIOUS
  <1>5. CallsOwned' /\ Beside' /\ (cut' \/ RefusalsDue') /\ (crossed' # "open" => crossed # "open")
    BY <1>1, <1>2, <1>3, <1>4, BesideStep
  <1>6. Doors' /\ OwnSession'
    BY <1>1, <1>5 DEF HomeInv, Doors, OwnSession, Working, Signed
  <1> QED
    BY <1>5, <1>6 DEF Homed

LEMMA HomeStep == HomeInv /\ [Next]_vars => HomeInv'
  <1> SUFFICES ASSUME HomeInv, [Next]_vars PROVE HomeInv'
    OBVIOUS
  <1>1. TokenInv'
    BY TokensStep DEF HomeInv
  <1>2. ASSUME NEW t \in Tasks, Begin(t) \/ Proceed(t) \/ Lost(t) \/ RefreshLost(t) \/ Cancel(t)
        PROVE  Homed
    BY <1>2, AskHome, StartLogoutHome, StartLoginHome, SignedInHome, NotSignedInHome, ServedHome,
       LoggedOutHome, RejectedHome, FailingHome, RenewedHome, RefreshHome, RefreshAnsweredHome,
       RefreshLostHome, CancelHome DEF Begin, Proceed
  <1>3. ASSUME NEW c \in CallIds, Serve(c) PROVE Homed
    BY <1>3, ReadsHome, RotatesHome DEF Serve
  <1>4. ASSUME Restored \/ \E s \in SessionIds : RunOut(s) \/ Revoke(s) PROVE Homed
    BY <1>4, OutsideHome
  <1>5. ASSUME UNCHANGED vars PROVE Homed
    BY <1>5 DEF vars, Homed, HomeInv, Doors, OwnSession, CallsOwned, Beside, RefusalsDue, Working,
                Signed, Dead, Current
  <1> QED
    BY <1>1, <1>2, <1>3, <1>4, <1>5 DEF Next, Homed, HomeInv

(* The invariant behind the next two: who works for which sign-in, whose   *)
(* answer comes back, and for what the server refuses.                     *)
THEOREM HomeInvariance == Spec => []HomeInv
  BY HomeInit, HomeStep, PTL DEF Spec

(* No request goes out under another sign-in than the one whose dashboard  *)
(* made it, for any number of coroutines, sign-outs and sign-ins: a        *)
(* coroutine that is suspended while the user changes neither takes over   *)
(* the next user's pair nor leaves its own in the client.                  *)
THEOREM OwnTokensCorrect == Spec => []OwnTokens
  <1>1. HomeInv => OwnTokens
    BY DEF HomeInv, OwnSession, OwnTokens, Working
  <1> QED
    BY <1>1, HomeInvariance, PTL

LEMMA ClearedBy ==
  ASSUME HomeInv, Next, Signed, ~Signed', window # 0, window' = window, ~Restored, faults' = faults
  PROVE  \E t \in Tasks : RefreshAnswered(t)
  <1>1. \A t \in Tasks : ~Lost(t) /\ ~RefreshLost(t) /\ ~Cancel(t)
    BY DEF Lost, RefreshLost, Cancel, Fault, HomeInv, TokenInv, TypeOK
  <1>2. tokens' # tokens /\ tokens' = NoTokens
    BY DEF Signed
  <1>3. ASSUME NEW t \in Tasks, Begin(t) PROVE FALSE
    BY <1>2, <1>3 DEF Begin, Ask, StartLogout, StartLogin, Leave
  <1>4. ASSUME NEW t \in Tasks, Proceed(t) PROVE RefreshAnswered(t)
    <2>1. ~Leave(t)
      BY DEF Leave
    <2>2. task[t].op # "login" \/ task[t].pc = "idle"
      BY DEF HomeInv, Doors
    <2>3. ~SignedIn(t)
      <3> SUFFICES ASSUME SignedIn(t) PROVE FALSE
        OBVIOUS
      <3>1. PICK s \in SessionIds : tokens' = [session |-> s, gen |-> 1]
        BY DEF SignedIn
      <3>2. tokens'.session # 0
        BY <3>1, TokenConstants DEF SessionIds
      <3> QED
        BY <1>2, <3>2 DEF NoTokens
    <2>4. ~NotSignedIn(t) /\ ~Served(t) /\ ~LoggedOut(t) /\ ~Rejected(t) /\ ~Renewed(t) /\ ~Refresh(t)
      BY <1>2, <2>1 DEF NotSignedIn, Served, LoggedOut, Rejected, Renewed, Refresh
    <2>5. ~RejectedAgain(t) /\ ~GivesUp(t)
      BY <1>2, <2>1, <2>2 DEF RejectedAgain, GivesUp, Fails, Signed
    <2> QED
      BY <1>4, <2>3, <2>4, <2>5 DEF Proceed
  <1>5. ASSUME NEW c \in CallIds, Serve(c) PROVE FALSE
    BY <1>2, <1>5 DEF Serve, RefreshReads, RevokesReused, Rotates
  <1>6. ASSUME NEW s \in SessionIds, RunOut(s) \/ Revoke(s) PROVE FALSE
    BY <1>2, <1>6 DEF RunOut, Revoke
  <1> QED
    BY <1>1, <1>3, <1>4, <1>5, <1>6 DEF Next

LEMMA RefusedBy ==
  ASSUME HomeInv, NEW t \in Tasks, RefreshAnswered(t), ~Signed', ~cut, crossed = "never"
  PROVE  sessions[tokens.session].revoked
  <1> PICK c : c = task[t].call
    OBVIOUS
  <1>1. c \in CallIds /\ lock = t /\ calls[c].pc = "answered"
    BY DEF RefreshAnswered, HomeInv, TokenInv, TypeOK, Sound, CoroutinesSound
  <1>2. calls[c].answer = NoTokens
    BY DEF RefreshAnswered, Signed
  <1>3. calls[c].token = task[t].sent /\ tokens = task[t].sent
    BY <1>1, TokenConstants DEF HomeInv, CallsOwned, Beside
  <1> QED
    BY <1>1, <1>2, <1>3 DEF HomeInv, RefusalsDue

(* A user is signed out in the middle of a dashboard only for a revoked    *)
(* session, a lost answer, a refresh that was cut off or outlived a        *)
(* sign-out, or a restored database: however many requests are rejected    *)
(* at once, none of them drops a pair that another has just renewed.       *)
THEOREM StaysSignedInCorrect == Spec => StaysSignedIn
  <1>1. HomeInv /\ [Next]_vars =>
            [Signed /\ ~Signed' /\ window # 0 /\ window' = window =>
                \/ sessions[tokens.session].revoked
                \/ faults' # faults \/ cut \/ crossed # "never"
                \/ Restored]_vars
    <2> SUFFICES ASSUME HomeInv, Next, Signed, ~Signed', window # 0, window' = window,
                        ~Restored, faults' = faults, ~cut, crossed = "never"
                 PROVE  sessions[tokens.session].revoked
      OBVIOUS
    <2> QED
      BY ClearedBy, RefusedBy
  <1> QED
    BY <1>1, HomeInvariance, PTL DEF Spec, StaysSignedIn
=============================================================================
