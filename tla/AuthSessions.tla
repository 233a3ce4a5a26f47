---------------------------- MODULE AuthSessions ----------------------------
(***************************************************************************)
(* Login sessions and their refresh tokens                                 *)
(* (src/auth/authentication.repository.ts and the endpoints that call it). *)
(*                                                                         *)
(* Several API requests (Calls) run against PostgreSQL at READ COMMITTED.  *)
(* A transaction's writes become visible at COMMIT and its row locks are   *)
(* held until then, so a transaction is modelled by the locks it takes     *)
(* (tokLock, sessLock), what it has decided (pc) and one step that applies *)
(* all its writes and releases the locks.                                  *)
(*                                                                         *)
(* user_id and client_type are never updated by the code: they are the     *)
(* constant functions Owner and ClientType.                                *)
(***************************************************************************)
EXTENDS Integers, FiniteSets

CONSTANTS
  Users, Sessions, Tokens, Calls,
  Owner,         \* authentication_sessions.user_id
  ClientType,    \* authentication_sessions.client_type
  Lifetime,      \* REFRESH_TOKEN_LIFETIME_MS, in ticks
  MaxNow,        \* bound: the clock stops here
  Faults,        \* whether a connection or a process may die during a call
  NoUser, NoSession, NoToken, NoCall

ResidentMobile == "resident_mobile"
SuperAdminWeb  == "super_admin_web"

ASSUME ConstantsAssumption ==
  /\ Owner \in [Sessions -> Users]
  /\ ClientType \in [Sessions -> {ResidentMobile, SuperAdminWeb}]
  /\ Lifetime \in Nat \ {0}
  /\ MaxNow \in Nat
  /\ Faults \in BOOLEAN
  /\ NoUser \notin Users
  /\ NoSession \notin Sessions
  /\ NoToken \notin Tokens
  /\ NoCall \notin Calls

VARIABLES
  now,          \* Date.now() of the API, now() of PostgreSQL
  userActive,   \* users.is_active
  sessStatus, sessExpires,              \* authentication_sessions
  tokStatus, tokSession, tokExpires,    \* refresh_tokens
  sessLock, tokLock,                    \* who holds the lock of a row
  pc,           \* how far each call is
  job,          \* what it was asked to do
  ownerActive,  \* the is_active its SELECT has read
  parent,       \* history: the token a rotation replaced by this one
  abandoned     \* history: sessions whose owner's revocation died half way

sessionRows == <<sessStatus, sessExpires>>
tokenRows == <<tokStatus, tokSession, tokExpires>>
locks == <<sessLock, tokLock>>
calls == <<pc, job, ownerActive>>
history == <<parent, abandoned>>
vars == <<now, userActive, sessionRows, tokenRows, locks, calls, history>>

NoJob == [token |-> NoToken, target |-> NoSession, actor |-> NoUser]

Init ==
  /\ now = 0
  /\ userActive = [u \in Users |-> TRUE]
  /\ sessStatus = [s \in Sessions |-> "absent"]
  /\ sessExpires = [s \in Sessions |-> 0]
  /\ tokStatus = [t \in Tokens |-> "unissued"]
  /\ tokSession = [t \in Tokens |-> NoSession]
  /\ tokExpires = [t \in Tokens |-> 0]
  /\ sessLock = [s \in Sessions |-> NoCall]
  /\ tokLock = [t \in Tokens |-> NoCall]
  /\ pc = [c \in Calls |-> "idle"]
  /\ job = [c \in Calls |-> NoJob]
  /\ ownerActive = [c \in Calls |-> FALSE]
  /\ parent = [t \in Tokens |-> NoToken]
  /\ abandoned = {}

Issued(t) == tokStatus[t] # "unissued"
TokensOf(s) == {t \in Tokens : tokSession[t] = s}
ActiveTokensOf(s) == {t \in TokensOf(s) : tokStatus[t] = "active"}
SessionOf(c) == tokSession[job[c].token]

\* Bound: a call is admitted only while a fresh token is left for every call in flight.
FreshTokenLeft ==
  Cardinality({c \in Calls : pc[c] # "idle"}) < Cardinality({t \in Tokens : ~Issued(t)})

\* Mutant: the lifetime is subtracted.
InsertRefreshTokenSign(s, t) ==
  /\ ~Issued(t)
  /\ tokSession' = [tokSession EXCEPT ![t] = s]
  /\ tokExpires' = [tokExpires EXCEPT ![t] = now - Lifetime]

\* insertRefreshToken: a row with a fresh token_hash.
InsertRefreshToken(s, t) ==
  /\ ~Issued(t)
  /\ tokSession' = [tokSession EXCEPT ![t] = s]
  /\ tokExpires' = [tokExpires EXCEPT ![t] = now + Lifetime]

(***************************************************************************)
(* insertSession: a session and its first refresh token, in the            *)
(* transaction of the login.  The OTP login reads is_active from the       *)
(* users row it has just locked; createSuperAdminSession does not.         *)
(***************************************************************************)
InsertSession(s, t) ==
  /\ sessStatus[s] = "absent"
  /\ FreshTokenLeft
  /\ ClientType[s] = ResidentMobile => userActive[Owner[s]]
  /\ sessStatus' = [sessStatus EXCEPT ![s] = "active"]
  /\ sessExpires' = [sessExpires EXCEPT ![s] = now + Lifetime]
  /\ InsertRefreshToken(s, t)
  /\ tokStatus' = [tokStatus EXCEPT ![t] = "active"]
  /\ UNCHANGED <<now, userActive, locks, calls, history>>

(***************************************************************************)
(* refreshResidentSession and refreshSuperAdminSession up to the call of   *)
(* rotateRefreshToken.  Whoever holds a token that was ever issued may     *)
(* present it, at either endpoint, any number of times; a token at the     *)
(* wrong endpoint, or without its CSRF token, is refused unread.           *)
(***************************************************************************)
PresentRefreshToken(c, t, endpoint, csrfMatches) ==
  /\ pc[c] = "idle"
  /\ Issued(t)
  /\ tokStatus[t] = "active" => FreshTokenLeft
  /\ endpoint = ClientType[tokSession[t]]
  /\ endpoint = SuperAdminWeb => csrfMatches
  /\ pc' = [pc EXCEPT ![c] = "begin"]
  /\ job' = [job EXCEPT ![c] = [token |-> t, target |-> NoSession, actor |-> NoUser]]
  /\ UNCHANGED <<now, userActive, sessionRows, tokenRows, locks, ownerActive, history>>

(***************************************************************************)
(* rotateRefreshToken.  The SELECT ... FOR UPDATE OF rt, s reads the user  *)
(* row from the snapshot of the statement, waits for the token's lock,     *)
(* then for the session's, and returns the latest version of both.         *)
(***************************************************************************)
BeginRotation(c) ==
  /\ pc[c] = "begin"
  /\ pc' = [pc EXCEPT ![c] = "lockToken"]
  /\ ownerActive' = [ownerActive EXCEPT ![c] = userActive[Owner[SessionOf(c)]]]
  /\ UNCHANGED <<now, userActive, sessionRows, tokenRows, locks, job, history>>

LockToken(c) ==
  /\ pc[c] = "lockToken"
  /\ tokLock[job[c].token] = NoCall
  /\ tokLock' = [tokLock EXCEPT ![job[c].token] = c]
  /\ pc' = [pc EXCEPT ![c] = "lockSession"]
  /\ UNCHANGED <<now, userActive, sessionRows, tokenRows, sessLock, job, ownerActive,
                 history>>

\* The SELECT's row: the token was used before, was revoked or is too old ...
Spent(t) == tokStatus[t] # "active" \/ tokExpires[t] <= now

\* ... or its session or its user no longer admits a refresh.
Closed(c) ==
  \/ sessStatus[SessionOf(c)] # "active"
  \/ sessExpires[SessionOf(c)] <= now
  \/ ~ownerActive[c]

\* Mutant: a rotated token is taken for a usable one.
DecisionRotatedAccepted(c) ==
  IF tokStatus[job[c].token] = "revoked" THEN "revoke"
  ELSE IF Closed(c) THEN "rollback" ELSE "rotate"

\* Mutant: the session is joined but its status is not looked at.
DecisionSessionIgnored(c) ==
  IF Spent(job[c].token) THEN "revoke"
  ELSE IF ~ownerActive[c] THEN "rollback" ELSE "rotate"

\* What the row makes rotateRefreshToken do.
Decision(c) ==
  IF Spent(job[c].token) THEN "revoke"
  ELSE IF Closed(c) THEN "rollback" ELSE "rotate"

\* Mutant: FOR UPDATE OF rt only.
LockSessionUnlocked(c) ==
  /\ pc[c] = "lockSession"
  /\ pc' = [pc EXCEPT ![c] = Decision(c)]
  /\ UNCHANGED <<now, userActive, sessionRows, tokenRows, locks, job, ownerActive, history>>

LockSession(c) ==
  /\ pc[c] = "lockSession"
  /\ sessLock[SessionOf(c)] = NoCall
  /\ sessLock' = [sessLock EXCEPT ![SessionOf(c)] = c]
  /\ pc' = [pc EXCEPT ![c] = Decision(c)]
  /\ UNCHANGED <<now, userActive, sessionRows, tokenRows, tokLock, job, ownerActive,
                 history>>

\* The call is over and holds no row lock.
End(c) ==
  /\ pc' = [pc EXCEPT ![c] = "idle"]
  /\ job' = [job EXCEPT ![c] = NoJob]
  /\ ownerActive' = [ownerActive EXCEPT ![c] = FALSE]
  /\ sessLock' = [s \in Sessions |-> IF sessLock[s] = c THEN NoCall ELSE sessLock[s]]
  /\ tokLock' = [t \in Tokens |-> IF tokLock[t] = c THEN NoCall ELSE tokLock[t]]

\* Mutant: the early throw skips ROLLBACK and client.release().
RollbackForgotten(c) ==
  /\ pc[c] = "rollback"
  /\ pc' = [pc EXCEPT ![c] = "idle"]
  /\ UNCHANGED <<now, userActive, sessionRows, tokenRows, locks, job, ownerActive, history>>

Rollback(c) ==
  /\ pc[c] = "rollback"
  /\ End(c)
  /\ UNCHANGED <<now, userActive, sessionRows, tokenRows, history>>

\* Mutant: the presented token is not marked rotated.
CommitRotationKeepsOld(c, new) ==
  /\ pc[c] = "rotate"
  /\ InsertRefreshToken(SessionOf(c), new)
  /\ tokStatus' = [tokStatus EXCEPT ![new] = "active"]
  /\ parent' = [parent EXCEPT ![new] = job[c].token]
  /\ End(c)
  /\ UNCHANGED <<now, userActive, sessionRows, abandoned>>

CommitRotation(c, new) ==
  /\ pc[c] = "rotate"
  /\ InsertRefreshToken(SessionOf(c), new)
  /\ tokStatus' = [tokStatus EXCEPT ![job[c].token] = "rotated", ![new] = "active"]
  /\ parent' = [parent EXCEPT ![new] = job[c].token]
  /\ End(c)
  /\ UNCHANGED <<now, userActive, sessionRows, abandoned>>

\* revokeSessionWithClient: the UPDATE of all the session's tokens locks them one by one ...
LockFamily(c, t) ==
  /\ pc[c] = "revoke"
  /\ t \in TokensOf(SessionOf(c))
  /\ tokLock[t] = NoCall
  /\ tokLock' = [tokLock EXCEPT ![t] = c]
  /\ UNCHANGED <<now, userActive, sessionRows, tokenRows, sessLock, calls, history>>

\* Mutant: only the presented token is revoked with the session.
CommitRevocationOneToken(c) ==
  /\ pc[c] = "revoke"
  /\ sessStatus' = [sessStatus EXCEPT ![SessionOf(c)] = "revoked"]
  /\ tokStatus' = [tokStatus EXCEPT ![job[c].token] = "revoked"]
  /\ End(c)
  /\ UNCHANGED <<now, userActive, sessExpires, tokSession, tokExpires, history>>

\* ... and the revocation is committed before the request is refused.
CommitRevocation(c) ==
  /\ pc[c] = "revoke"
  /\ \A t \in TokensOf(SessionOf(c)) : tokLock[t] = c
  /\ sessStatus' = [sessStatus EXCEPT ![SessionOf(c)] = "revoked"]
  /\ tokStatus' = [t \in Tokens |-> IF t \in TokensOf(SessionOf(c)) THEN "revoked"
                                                                   ELSE tokStatus[t]]
  /\ End(c)
  /\ UNCHANGED <<now, userActive, sessExpires, tokSession, tokExpires, history>>

(***************************************************************************)
(* DELETE sessions/:id.  The guard accepts the session of the access token *)
(* (getAuthenticatedActor); the handler then runs revokeSession, two       *)
(* statements that commit on their own.                                    *)
(***************************************************************************)
Authenticated(s) ==
  /\ sessStatus[s] = "active" /\ sessExpires[s] > now
  /\ userActive[Owner[s]]

RequestRevocation(c, own, target) ==
  /\ pc[c] = "idle"
  /\ Authenticated(own)
  /\ sessStatus[target] # "absent"
  /\ pc' = [pc EXCEPT ![c] = "revokeSession"]
  /\ job' = [job EXCEPT ![c] = [token |-> NoToken, target |-> target,
                                actor |-> Owner[own]]]
  /\ UNCHANGED <<now, userActive, sessionRows, tokenRows, locks, ownerActive, history>>

\* The WHERE clause of the first statement.
Revocable(c) ==
  Owner[job[c].target] = job[c].actor /\ sessStatus[job[c].target] = "active"

RevokeSessionRow(c) ==
  /\ pc[c] = "revokeSession"
  /\ Revocable(c)
  /\ sessLock[job[c].target] = NoCall
  /\ sessStatus' = [sessStatus EXCEPT ![job[c].target] = "revoked"]
  /\ pc' = [pc EXCEPT ![c] = "revokeTokens"]
  /\ UNCHANGED <<now, userActive, sessExpires, tokenRows, locks, job, ownerActive, history>>

DenyRevocation(c) ==
  /\ pc[c] = "revokeSession"
  /\ ~Revocable(c)
  /\ End(c)
  /\ UNCHANGED <<now, userActive, sessionRows, tokenRows, history>>

RevokeTokenRows(c) ==
  /\ pc[c] = "revokeTokens"
  /\ \A t \in ActiveTokensOf(job[c].target) : tokLock[t] = NoCall
  /\ tokStatus' = [t \in Tokens |-> IF t \in ActiveTokensOf(job[c].target)
                                      THEN "revoked" ELSE tokStatus[t]]
  /\ End(c)
  /\ UNCHANGED <<now, userActive, sessionRows, tokSession, tokExpires, history>>

(***************************************************************************)
(* PostgreSQL and the environment.                                         *)
(***************************************************************************)
WaitsFor(c, d) ==
  /\ c # d
  /\ \/ pc[c] = "lockToken" /\ tokLock[job[c].token] = d
     \/ pc[c] = "lockSession" /\ sessLock[SessionOf(c)] = d
     \/ pc[c] = "revoke" /\ \E t \in TokensOf(SessionOf(c)) : tokLock[t] = d

\* PostgreSQL aborts one transaction of a cycle of waits, whichever one looks first.
\* A call waits while it holds a lock only at "lockSession" and "revoke", so the
\* cycles have length two (WaitsAreMutual in AuthSessionsProofs).
DeadlockVictim(c) ==
  /\ \E d \in Calls : WaitsFor(c, d) /\ WaitsFor(d, c)
  /\ End(c)
  /\ UNCHANGED <<now, userActive, sessionRows, tokenRows, history>>

\* The connection breaks or the process dies: PostgreSQL rolls the transaction back.
Fail(c) ==
  /\ Faults
  /\ pc[c] # "idle"
  /\ End(c)
  /\ abandoned' = IF pc[c] = "revokeTokens" THEN abandoned \union {job[c].target}
                                            ELSE abandoned
  /\ UNCHANGED <<now, userActive, sessionRows, tokenRows, parent>>

\* An operator switches a user off or on: no code under src/ does.
SetUserActive(u) ==
  /\ userActive' = [userActive EXCEPT ![u] = ~userActive[u]]
  /\ UNCHANGED <<now, sessionRows, tokenRows, locks, calls, history>>

Tick ==
  /\ now < MaxNow
  /\ now' = now + 1
  /\ UNCHANGED <<userActive, sessionRows, tokenRows, locks, calls, history>>

Login == \E s \in Sessions, t \in Tokens : InsertSession(s, t)

Present(c) ==
  \E t \in Tokens, endpoint \in {ResidentMobile, SuperAdminWeb}, csrf \in BOOLEAN :
    PresentRefreshToken(c, t, endpoint, csrf)

Request(c) == \E own, target \in Sessions : RequestRevocation(c, own, target)

\* The steps the request takes on its own, without waiting for a row lock.
Advance(c) ==
  \/ BeginRotation(c)
  \/ Rollback(c)
  \/ \E new \in Tokens : CommitRotation(c, new)
  \/ CommitRevocation(c)
  \/ DenyRevocation(c)

\* The steps that wait for a row lock.
Acquire(c) ==
  \/ LockToken(c)
  \/ LockSession(c)
  \/ \E t \in Tokens : LockFamily(c, t)
  \/ RevokeSessionRow(c)
  \/ RevokeTokenRows(c)

Next ==
  \/ Login
  \/ \E c \in Calls : Present(c) \/ Request(c) \/ Advance(c) \/ Acquire(c)
                        \/ DeadlockVictim(c) \/ Fail(c)
  \/ \E u \in Users : SetUserActive(u)
  \/ Tick

Spec == Init /\ [][Next]_vars

(***************************************************************************)
(* A request in flight keeps running; PostgreSQL queues the waiters of a   *)
(* row, so a waiter is not overtaken for ever (strong fairness), and its   *)
(* deadlock detector runs.  Nothing obliges a client to call again.        *)
(***************************************************************************)
Fairness ==
  \A c \in Calls :
    /\ WF_vars(Advance(c))
    /\ SF_vars(Acquire(c))
    /\ WF_vars(DeadlockVictim(c))

FairSpec == Spec /\ Fairness

-----------------------------------------------------------------------------
Job == [token : Tokens \union {NoToken}, target : Sessions \union {NoSession},
        actor : Users \union {NoUser}]

\* Every table, lock and call has the shape the schema and the code give it.
TypeOK ==
  /\ now \in Nat
  /\ userActive \in [Users -> BOOLEAN]
  /\ sessStatus \in [Sessions -> {"absent", "active", "revoked"}]
  /\ sessExpires \in [Sessions -> Nat]
  /\ tokStatus \in [Tokens -> {"unissued", "active", "rotated", "revoked"}]
  /\ tokSession \in [Tokens -> Sessions \union {NoSession}]
  /\ tokExpires \in [Tokens -> Nat]
  /\ sessLock \in [Sessions -> Calls \union {NoCall}]
  /\ tokLock \in [Tokens -> Calls \union {NoCall}]
  /\ pc \in [Calls -> {"idle", "begin", "lockToken", "lockSession", "revoke", "rotate",
                       "rollback", "revokeSession", "revokeTokens"}]
  /\ job \in [Calls -> Job]
  /\ ownerActive \in [Calls -> BOOLEAN]
  /\ parent \in [Tokens -> Tokens \union {NoToken}]
  /\ abandoned \subseteq Sessions

\* A session never has two usable refresh tokens, whatever refreshes, replays,
\* revocations and crashes overlap (rotateRefreshToken's row locks).
OneActiveToken ==
  \A t1, t2 \in Tokens :
    (tokStatus[t1] = "active" /\ tokStatus[t2] = "active" /\ tokSession[t1] = tokSession[t2])
      => t1 = t2

\* Two concurrent refreshes with one token never both succeed: a token has at most
\* one successor, so the tokens of a session form a chain.
NoForkedFamily ==
  \A t1, t2 \in Tokens :
    (parent[t1] # NoToken /\ parent[t1] = parent[t2]) => t1 = t2

\* Once a session is revoked no usable token is left in it, except while its owner's
\* revocation is between its two statements or after it died there.
RevokedFamilyIsDead ==
  \A s \in Sessions :
    (sessStatus[s] = "revoked" /\ s \notin abandoned
       /\ \A c \in Calls : ~(pc[c] = "revokeTokens" /\ job[c].target = s))
      => ActiveTokensOf(s) = {}

\* A token is never born in a revoked session: a refresh that overlaps a revocation never
\* brings the session back. Of an expiry this says nothing: a session may expire between the
\* refresh's check and its COMMIT, and its new token is then refused by the session's expiry.
TokenBornAlive ==
  \A t \in Tokens :
    (tokStatus[t] # "active" /\ tokStatus'[t] = "active")
      => sessStatus'[tokSession'[t]] = "active"
NoTokenBornInDeadSession == [][TokenBornAlive]_vars

\* Every request ends: waits on row locks, and their deadlocks, are resolved.
CallsEnd == \A c \in Calls : pc[c] # "idle" ~> pc[c] = "idle"

\* DECISIONS.md: refresh tokens "revoke their session when reuse is detected".
ReuseRevokesSession ==
  [][\A c \in Calls :
       (pc[c] = "revoke" /\ tokStatus[job[c].token] # "active" /\ pc'[c] = "idle")
         => sessStatus'[SessionOf(c)] = "revoked"]_vars
=============================================================================
