--------------------------- MODULE SuperAdminLogin ---------------------------
(***************************************************************************)
(* Super Admin login: createSuperAdminChallenge (limits, password, a Redis *)
(* key) and createSuperAdminSession (Redis key, guess limit, the factor's  *)
(* transaction, DEL, the session's transaction), run by overlapping calls. *)
(*                                                                         *)
(* A tick is one TOTP time step of 30 s.  A six-digit code is the time     *)
(* step it was generated for; a recovery code is a model value.            *)
(***************************************************************************)
EXTENDS Integers, FiniteSets

CONSTANTS
  Admins, Enrolled,          \* the users, and those with a row in totp_factors
  Ips, Challenges,
  Requests,                  \* concurrent POSTs with a password
  Logins,                    \* concurrent POSTs with a code
  RecoveryCodes, WrongCode,
  Window, Lifetime,          \* 15 min; 5 min for the challenge and its guesses
  IdentityLimit, IpLimit, GuessLimit,  \* 5, 20 and 5
  MaxNow,                    \* bound: the clock stops here
  Prompt,                    \* no login crosses a time step between two reads of the time
  Faults,                    \* whether a connection or a process may die
  NoAdmin, NoIp, NoChallenge, Nobody

Steps == 0..(MaxNow + 1)     \* one more than the clock: a code from a fast authenticator
Evidence == Steps \union RecoveryCodes \union {WrongCode}

ASSUME LoginAssumption ==
  /\ Enrolled \subseteq Admins
  /\ Window \in Nat \ {0} /\ Lifetime \in Nat \ {0}
  /\ IdentityLimit \in Nat \ {0} /\ IpLimit \in Nat \ {0} /\ GuessLimit \in Nat \ {0}
  /\ MaxNow \in Nat /\ Prompt \in BOOLEAN /\ Faults \in BOOLEAN
  /\ RecoveryCodes \intersect Int = {} /\ WrongCode \notin Int \union RecoveryCodes
  /\ Admins \intersect Ips = {} /\ Admins \intersect Challenges = {}
  /\ Ips \intersect Challenges = {}
  /\ NoAdmin \notin Admins /\ NoIp \notin Ips /\ NoChallenge \notin Challenges
  /\ Nobody \notin Logins

NoStep == -1                 \* last_accepted_time_step is null

VARIABLES
  now,
  counter, counterExpires,   \* Redis admin-login:identity, admin-login:ip, admin-mfa-attempt
  mfaUser, mfaExpires,       \* Redis admin-mfa:<challenge>
  lastStep,                  \* totp_factors.last_accepted_time_step
  used,                      \* totp_recovery_codes.used_at IS NOT NULL
  factorLock,                \* who holds the factor's row
  guesses,                   \* history: codes checked for a challenge
  opened,                    \* history: sessions a piece of evidence opened
  rpc, radmin, rip,          \* createSuperAdminChallenge: step and locals
  lpc, lchallenge, ladmin,   \* createSuperAdminSession: step and locals
  levidence, lread, ldelta

redis == <<counter, counterExpires, mfaUser, mfaExpires>>
limits == <<counter, counterExpires>>
challenges == <<mfaUser, mfaExpires>>
factors == <<lastStep, used>>
history == <<guesses, opened>>
requests == <<rpc, radmin, rip>>
locals == <<lchallenge, ladmin, levidence, lread, ldelta>>
logins == <<lpc, locals>>
vars == <<now, redis, factors, factorLock, history, requests, logins>>

Keys == Admins \union Ips \union Challenges
Codes == Admins \X RecoveryCodes
Pieces == Admins \X Evidence

Init ==
  /\ now = 0
  /\ counter = [k \in Keys |-> 0]
  /\ counterExpires = [k \in Keys |-> 0]
  /\ mfaUser = [ch \in Challenges |-> NoAdmin]
  /\ mfaExpires = [ch \in Challenges |-> 0]
  /\ lastStep = [u \in Admins |-> NoStep]
  /\ used = [uc \in Codes |-> FALSE]
  /\ factorLock = [u \in Admins |-> Nobody]
  /\ guesses = [ch \in Challenges |-> 0]
  /\ opened = [ue \in Pieces |-> 0]
  /\ rpc = [r \in Requests |-> "idle"]
  /\ radmin = [r \in Requests |-> NoAdmin]
  /\ rip = [r \in Requests |-> NoIp]
  /\ lpc = [l \in Logins |-> "idle"]
  /\ lchallenge = [l \in Logins |-> NoChallenge]
  /\ ladmin = [l \in Logins |-> NoAdmin]
  /\ levidence = [l \in Logins |-> WrongCode]
  /\ lread = [l \in Logins |-> NoStep]
  /\ ldelta = [l \in Logins |-> 0]

EndRequest(r) ==
  /\ rpc' = [rpc EXCEPT ![r] = "idle"]
  /\ radmin' = [radmin EXCEPT ![r] = NoAdmin]
  /\ rip' = [rip EXCEPT ![r] = NoIp]

EndLogin(l) ==
  /\ lpc' = [lpc EXCEPT ![l] = "idle"]
  /\ lchallenge' = [lchallenge EXCEPT ![l] = NoChallenge]
  /\ ladmin' = [ladmin EXCEPT ![l] = NoAdmin]
  /\ levidence' = [levidence EXCEPT ![l] = WrongCode]
  /\ lread' = [lread EXCEPT ![l] = NoStep]
  /\ ldelta' = [ldelta EXCEPT ![l] = 0]

\* Bound: a counter stops one above its limit, for no code tells larger counts apart.
CountCap(k) ==
  1 + IF k \in Admins THEN IdentityLimit ELSE IF k \in Ips THEN IpLimit ELSE GuessLimit

\* MULTI INCR, EXPIRE NX: the value INCR returns, and the key it leaves.
Incremented(k) ==
  IF counterExpires[k] <= now THEN 1
  ELSE IF counter[k] < CountCap(k) THEN counter[k] + 1 ELSE CountCap(k)

Count(k, window) ==
  /\ counter' = [counter EXCEPT ![k] = Incremented(k)]
  /\ counterExpires' = [counterExpires EXCEPT
                          ![k] = IF counterExpires[k] <= now THEN now + window ELSE @]

(***************************************************************************)
(* createSuperAdminChallenge.                                              *)
(***************************************************************************)
AssertIdentityLimit(r, u, ip) ==
  /\ rpc[r] = "idle"
  /\ Count(u, Window)
  /\ \/ /\ Incremented(u) > IdentityLimit
        /\ UNCHANGED requests
     \/ /\ Incremented(u) <= IdentityLimit
        /\ rpc' = [rpc EXCEPT ![r] = "ipLimit"]
        /\ radmin' = [radmin EXCEPT ![r] = u]
        /\ rip' = [rip EXCEPT ![r] = ip]
  /\ UNCHANGED <<now, challenges, factors, factorLock, history, logins>>

AssertIpLimit(r) ==
  /\ rpc[r] = "ipLimit"
  /\ Count(rip[r], Window)
  /\ \/ /\ Incremented(rip[r]) > IpLimit
        /\ EndRequest(r)
     \/ /\ Incremented(rip[r]) <= IpLimit
        /\ rpc' = [rpc EXCEPT ![r] = "password"]
        /\ UNCHANGED <<radmin, rip>>
  /\ UNCHANGED <<now, challenges, factors, factorLock, history, logins>>

\* The right password of a user whose account and super_admin role are active: the only
\* reading of either in a login, so any user may pass or fail here.
FindPassword(r) ==
  /\ rpc[r] = "password"
  /\ rpc' = [rpc EXCEPT ![r] = "store"]
  /\ UNCHANGED <<now, redis, factors, factorLock, history, radmin, rip, logins>>

\* A wrong password, or a user the query does not return.
RefusePassword(r) ==
  /\ rpc[r] = "password"
  /\ EndRequest(r)
  /\ UNCHANGED <<now, redis, factors, factorLock, history, logins>>

\* SET admin-mfa:<random id> EX 300.
StoreChallenge(r, ch) ==
  /\ rpc[r] = "store"
  /\ mfaExpires[ch] = 0
  /\ mfaUser' = [mfaUser EXCEPT ![ch] = radmin[r]]
  /\ mfaExpires' = [mfaExpires EXCEPT ![ch] = now + Lifetime]
  /\ EndRequest(r)
  /\ UNCHANGED <<now, limits, factors, factorLock, history, logins>>

(***************************************************************************)
(* createSuperAdminSession: Redis.                                         *)
(***************************************************************************)
Live(ch) == mfaUser[ch] # NoAdmin /\ mfaExpires[ch] > now

\* GET admin-mfa:<id>; the challenge is deleted four steps later.
GetChallenge(l, ch, e) ==
  /\ lpc[l] = "idle"
  /\ Live(ch)
  /\ lpc' = [lpc EXCEPT ![l] = "limit"]
  /\ lchallenge' = [lchallenge EXCEPT ![l] = ch]
  /\ ladmin' = [ladmin EXCEPT ![l] = mfaUser[ch]]
  /\ levidence' = [levidence EXCEPT ![l] = e]
  /\ UNCHANGED <<now, redis, factors, factorLock, history, requests, lread, ldelta>>

\* Mutant: the counter is compared before it is incremented.
WithinGuessLimitBefore(l) == Incremented(lchallenge[l]) - 1 <= GuessLimit

WithinGuessLimit(l) == Incremented(lchallenge[l]) <= GuessLimit

AssertGuessLimit(l) ==
  /\ lpc[l] = "limit"
  /\ Count(lchallenge[l], Lifetime)
  /\ \/ /\ ~WithinGuessLimit(l)
        /\ EndLogin(l)
        /\ UNCHANGED guesses
     \/ /\ WithinGuessLimit(l)
        /\ lpc' = [lpc EXCEPT ![l] = "factor"]
        /\ guesses' = [guesses EXCEPT ![lchallenge[l]] = @ + 1]
        /\ UNCHANGED locals
  /\ UNCHANGED <<now, challenges, factors, factorLock, opened, requests>>

(***************************************************************************)
(* consumeSuperAdminMfa: one transaction under the factor's row lock.      *)
(***************************************************************************)
RejectUnenrolled(l) ==
  /\ lpc[l] = "factor"
  /\ ladmin[l] \notin Enrolled
  /\ EndLogin(l)
  /\ UNCHANGED <<now, redis, factors, factorLock, history, requests>>

ReadFactor(l) ==
  /\ lread' = [lread EXCEPT ![l] = lastStep[ladmin[l]]]
  /\ lpc' = [lpc EXCEPT ![l] = IF levidence[l] \in Steps THEN "verify" ELSE "recover"]
  /\ UNCHANGED <<now, redis, factors, history, requests, lchallenge, ladmin,
                 levidence, ldelta>>

\* Mutant: SELECT without FOR UPDATE.
LockFactorUnlocked(l) ==
  /\ lpc[l] = "factor"
  /\ ladmin[l] \in Enrolled
  /\ UNCHANGED factorLock
  /\ ReadFactor(l)

LockFactor(l) ==
  /\ lpc[l] = "factor"
  /\ ladmin[l] \in Enrolled
  /\ factorLock[ladmin[l]] = Nobody
  /\ factorLock' = [factorLock EXCEPT ![ladmin[l]] = l]
  /\ ReadFactor(l)

Release(l) == factorLock' = [u \in Admins |-> IF factorLock[u] = l THEN Nobody ELSE factorLock[u]]

Rollback(l) ==
  /\ Release(l)
  /\ EndLogin(l)
  /\ UNCHANGED <<now, redis, factors, history, requests>>

\* Mutant: a tolerance of 60 s.
VerifyTotpWide(l) ==
  /\ lpc[l] = "verify"
  /\ levidence[l] - now \in -2..2
  /\ ldelta' = [ldelta EXCEPT ![l] = levidence[l] - now]
  /\ lpc' = [lpc EXCEPT ![l] = "step"]
  /\ UNCHANGED <<now, redis, factors, factorLock, history, requests, lchallenge, ladmin,
                 levidence, lread>>

\* verifyTotp reads the clock and returns how far the code is from it, within 30 s.
VerifyTotp(l) ==
  /\ lpc[l] = "verify"
  /\ levidence[l] - now \in -1..1
  /\ ldelta' = [ldelta EXCEPT ![l] = levidence[l] - now]
  /\ lpc' = [lpc EXCEPT ![l] = "step"]
  /\ UNCHANGED <<now, redis, factors, factorLock, history, requests, lchallenge,
                 ladmin, levidence, lread>>

RejectTotp(l) ==
  /\ lpc[l] = "verify"
  /\ levidence[l] - now \notin -1..1
  /\ Rollback(l)

\* The time step comes from a second reading of the clock.
TimeStep(l) == now + ldelta[l]

\* Mutant: >= for >.
ReplayedBefore(l) == lread[l] # NoStep /\ TimeStep(l) < lread[l]

Replayed(l) == lread[l] # NoStep /\ TimeStep(l) <= lread[l]

Accept(l) ==
  /\ Release(l)
  /\ lpc' = [lpc EXCEPT ![l] = "delete"]
  /\ UNCHANGED <<now, redis, guesses, opened, requests, locals>>

StoreTimeStep(l) ==
  /\ lpc[l] = "step"
  /\ ~Replayed(l)
  /\ lastStep' = [lastStep EXCEPT ![ladmin[l]] = TimeStep(l)]
  /\ UNCHANGED used
  /\ Accept(l)

RejectReplay(l) ==
  /\ lpc[l] = "step"
  /\ Replayed(l)
  /\ Rollback(l)

\* Mutant: UPDATE without used_at IS NULL.
UnspentIgnored(l) == levidence[l] \in RecoveryCodes

Unspent(l) ==
  /\ levidence[l] \in RecoveryCodes
  /\ ~used[<<ladmin[l], levidence[l]>>]

UseRecoveryCode(l) ==
  /\ lpc[l] = "recover"
  /\ Unspent(l)
  /\ used' = [used EXCEPT ![<<ladmin[l], levidence[l]>>] = TRUE]
  /\ UNCHANGED lastStep
  /\ Accept(l)

RejectRecoveryCode(l) ==
  /\ lpc[l] = "recover"
  /\ ~Unspent(l)
  /\ Rollback(l)

(***************************************************************************)
(* createSuperAdminSession: after the factor's COMMIT.                     *)
(***************************************************************************)
DeleteChallenge(l) ==
  /\ lpc[l] = "delete"
  /\ mfaUser' = [mfaUser EXCEPT ![lchallenge[l]] = NoAdmin]
  /\ lpc' = [lpc EXCEPT ![l] = "session"]
  /\ UNCHANGED <<now, limits, mfaExpires, factors, factorLock, history, requests,
                 locals>>

\* A transaction of its own, which does not look at the user or the role again.
OpenSession(l) ==
  /\ lpc[l] = "session"
  /\ opened' = [opened EXCEPT ![<<ladmin[l], levidence[l]>>] = @ + 1]
  /\ EndLogin(l)
  /\ UNCHANGED <<now, redis, factors, factorLock, guesses, requests>>

(***************************************************************************)
(* The environment.                                                        *)
(***************************************************************************)
FailRequest(r) ==
  /\ Faults /\ rpc[r] # "idle"
  /\ EndRequest(r)
  /\ UNCHANGED <<now, redis, factors, factorLock, history, logins>>

\* After the factor's COMMIT the code is spent although no session was opened.
FailLogin(l) ==
  /\ Faults /\ lpc[l] # "idle"
  /\ Rollback(l)

Tick ==
  /\ now < MaxNow
  /\ Prompt => \A l \in Logins : lpc[l] \notin {"limit", "step"}
  /\ now' = now + 1
  /\ UNCHANGED <<redis, factors, factorLock, history, requests, logins>>

RequestStep(r) ==
  \/ \E u \in Admins, ip \in Ips : AssertIdentityLimit(r, u, ip)
  \/ AssertIpLimit(r) \/ FindPassword(r) \/ RefusePassword(r)
  \/ \E ch \in Challenges : StoreChallenge(r, ch)
  \/ FailRequest(r)

LoginStep(l) ==
  \/ \E ch \in Challenges, e \in Evidence : GetChallenge(l, ch, e)
  \/ AssertGuessLimit(l) \/ RejectUnenrolled(l) \/ LockFactor(l)
  \/ VerifyTotp(l) \/ RejectTotp(l) \/ StoreTimeStep(l) \/ RejectReplay(l)
  \/ UseRecoveryCode(l) \/ RejectRecoveryCode(l)
  \/ DeleteChallenge(l) \/ OpenSession(l)
  \/ FailLogin(l)

Next ==
  \/ \E r \in Requests : RequestStep(r)
  \/ \E l \in Logins : LoginStep(l)
  \/ Tick

Spec == Init /\ [][Next]_vars

-----------------------------------------------------------------------------
\* The keys, the rows and the steps have the shape Redis, the schema and the code give them.
TypeOK ==
  /\ now \in Nat
  /\ counter \in [Keys -> Nat]
  /\ counterExpires \in [Keys -> Nat]
  /\ mfaUser \in [Challenges -> Admins \union {NoAdmin}]
  /\ mfaExpires \in [Challenges -> Nat]
  /\ lastStep \in [Admins -> Int]
  /\ used \in [Codes -> BOOLEAN]
  /\ factorLock \in [Admins -> Logins \union {Nobody}]
  /\ guesses \in [Challenges -> Nat]
  /\ opened \in [Pieces -> Nat]
  /\ rpc \in [Requests -> {"idle", "ipLimit", "password", "store"}]
  /\ radmin \in [Requests -> Admins \union {NoAdmin}]
  /\ rip \in [Requests -> Ips \union {NoIp}]
  /\ lpc \in [Logins -> {"idle", "limit", "factor", "verify", "step", "recover", "delete",
                         "session"}]
  /\ lchallenge \in [Logins -> Challenges \union {NoChallenge}]
  /\ ladmin \in [Logins -> Admins \union {NoAdmin}]
  /\ levidence \in [Logins -> Evidence]
  /\ lread \in [Logins -> Int]
  /\ ldelta \in [Logins -> -1..1]

\* Concurrent logins with the same recovery code open one session between them.
OneLoginPerRecoveryCode ==
  \A u \in Admins : \A c \in RecoveryCodes : opened[<<u, c>>] <= 1

\* The stored time step of a factor only grows: a login that read the factor earlier cannot
\* store an older step over a newer one. Which codes a stored step refuses is
\* OneLoginPerTimeStep's matter.
TimeStepsAdvance ==
  [][\A u \in Admins : lastStep'[u] # lastStep[u] => lastStep'[u] > lastStep[u]]_vars

\* BACKEND_BUILD_CHECKLIST.md: "accepted time steps are persisted to reject replay".  The
\* code of one time step opens one session, in the run whose logins are prompt.
OneLoginPerTimeStep ==
  \A u \in Admins : \A k \in Steps : opened[<<u, k>>] <= 1

\* A challenge lets through at most GuessLimit codes: its counter outlives it, as long as no
\* login waits for a whole time step between GET and INCR.
GuessBudget ==
  \A ch \in Challenges : guesses[ch] <= GuessLimit
=============================================================================
