---------------------------- MODULE OtpChallenges ----------------------------
(***************************************************************************)
(* One-time codes: createOtpChallenge (Redis limits, PostgreSQL row, SMS)  *)
(* and consumeOtpChallenge, run by overlapping requests and attempts.      *)
(*                                                                         *)
(* Codes are abstract: an attempt presents the right code or a wrong one.  *)
(* The SMS is one step that succeeds or fails (SmsDispatch has its inside).*)
(***************************************************************************)
EXTENDS Integers, FiniteSets

CONSTANTS
  Phones, Ips, Challenges,
  Requests,         \* concurrent POSTs for a challenge
  Attempts,         \* concurrent POSTs with a code
  Cooldown, Window, OtpLifetime,       \* 60 s, 15 min and 5 min, in ticks
  PhoneLimit, IpLimit, MaxAttempts,    \* 3, 10 and 5
  MaxNow,           \* bound: the clock stops here
  Prompt,           \* no request spends a whole tick between Redis and its COMMIT
  Faults,           \* whether a connection or a process may die
  NoPhone, NoIp, NoChallenge, Nobody

ASSUME OtpAssumption ==
  /\ Cooldown \in Nat \ {0} /\ Window \in Nat \ {0} /\ OtpLifetime \in Nat \ {0}
  /\ PhoneLimit \in Nat \ {0} /\ IpLimit \in Nat \ {0} /\ MaxAttempts \in Nat \ {0}
  /\ MaxNow \in Nat /\ Prompt \in BOOLEAN /\ Faults \in BOOLEAN
  /\ NoPhone \notin Phones /\ NoIp \notin Ips /\ NoChallenge \notin Challenges
  /\ Phones \intersect Ips = {}
  /\ Requests \intersect Attempts = {}
  /\ Nobody \notin Requests \union Attempts

VARIABLES
  now,
  cooldown,                        \* Redis otp:cooldown:<phone>: when the key expires
  counter, counterExpires,         \* Redis otp:phone:<phone> and otp:ip:<ip>
  status, phone, expires, tries,   \* otp_challenges
  lock,                            \* who holds the lock of a challenge row
  userActive,                      \* users.is_active of the phone's user
  logins,                          \* history: sessions opened with each challenge
  rpc, rphone, rip, rchallenge,    \* createOtpChallenge: step and locals
  rseen,                           \* the rows its UPDATE works on
  apc, achallenge, aright          \* consumeOtpChallenge: step and input

redis == <<cooldown, counter, counterExpires>>
rows == <<status, phone, expires, tries>>
requests == <<rpc, rphone, rip, rchallenge, rseen>>
attempts == <<apc, achallenge, aright>>
vars == <<now, redis, rows, lock, userActive, logins, requests, attempts>>

Keys == Phones \union Ips

Init ==
  /\ now = 0
  /\ cooldown = [p \in Phones |-> 0]
  /\ counter = [k \in Keys |-> 0]
  /\ counterExpires = [k \in Keys |-> 0]
  /\ status = [ch \in Challenges |-> "absent"]
  /\ phone = [ch \in Challenges |-> NoPhone]
  /\ expires = [ch \in Challenges |-> 0]
  /\ tries = [ch \in Challenges |-> 0]
  /\ lock = [ch \in Challenges |-> Nobody]
  /\ userActive = [p \in Phones |-> TRUE]
  /\ logins = [ch \in Challenges |-> 0]
  /\ rpc = [r \in Requests |-> "idle"]
  /\ rphone = [r \in Requests |-> NoPhone]
  /\ rip = [r \in Requests |-> NoIp]
  /\ rchallenge = [r \in Requests |-> NoChallenge]
  /\ rseen = [r \in Requests |-> {}]
  /\ apc = [a \in Attempts |-> "idle"]
  /\ achallenge = [a \in Attempts |-> NoChallenge]
  /\ aright = [a \in Attempts |-> FALSE]

PendingOf(p) == {ch \in Challenges : phone[ch] = p /\ status[ch] = "pending"}

Release(x) == lock' = [ch \in Challenges |-> IF lock[ch] = x THEN Nobody ELSE lock[ch]]

EndRequest(r) ==
  /\ rpc' = [rpc EXCEPT ![r] = "idle"]
  /\ rphone' = [rphone EXCEPT ![r] = NoPhone]
  /\ rip' = [rip EXCEPT ![r] = NoIp]
  /\ rchallenge' = [rchallenge EXCEPT ![r] = NoChallenge]
  /\ rseen' = [rseen EXCEPT ![r] = {}]

EndAttempt(a) ==
  /\ apc' = [apc EXCEPT ![a] = "idle"]
  /\ achallenge' = [achallenge EXCEPT ![a] = NoChallenge]
  /\ aright' = [aright EXCEPT ![a] = FALSE]

(***************************************************************************)
(* createOtpChallenge: Redis.                                              *)
(***************************************************************************)
\* Mutant: SET without NX.
CooldownIgnored(p) == TRUE

\* SET key NX EX: fails while the key lives.
CooldownOver(p) == cooldown[p] <= now

AssertCooldown(r, p, ip) ==
  /\ rpc[r] = "idle"
  /\ CooldownOver(p)
  /\ cooldown' = [cooldown EXCEPT ![p] = now + Cooldown]
  /\ rpc' = [rpc EXCEPT ![r] = "phoneLimit"]
  /\ rphone' = [rphone EXCEPT ![r] = p]
  /\ rip' = [rip EXCEPT ![r] = ip]
  /\ UNCHANGED <<now, counter, counterExpires, rows, lock, userActive, logins, rchallenge,
                 rseen, attempts>>

\* MULTI INCR, EXPIRE NX: the value INCR returns.
Incremented(k) == IF counterExpires[k] <= now THEN 1 ELSE counter[k] + 1

Count(k) ==
  /\ counter' = [counter EXCEPT ![k] = Incremented(k)]
  /\ counterExpires' = [counterExpires EXCEPT
                          ![k] = IF counterExpires[k] <= now THEN now + Window ELSE @]

\* A refused call has been counted, and keeps the cooldown it has taken.
OverLimit(r, k, limit) ==
  /\ Incremented(k) > limit
  /\ EndRequest(r)

AssertPhoneLimit(r) ==
  /\ rpc[r] = "phoneLimit"
  /\ Count(rphone[r])
  /\ \/ OverLimit(r, rphone[r], PhoneLimit)
     \/ /\ Incremented(rphone[r]) <= PhoneLimit
        /\ rpc' = [rpc EXCEPT ![r] = "ipLimit"]
        /\ UNCHANGED <<rphone, rip, rchallenge, rseen>>
  /\ UNCHANGED <<now, cooldown, rows, lock, userActive, logins, attempts>>

AssertIpLimit(r) ==
  /\ rpc[r] = "ipLimit"
  /\ Count(rip[r])
  /\ \/ OverLimit(r, rip[r], IpLimit)
     \/ /\ Incremented(rip[r]) <= IpLimit
        /\ rpc' = [rpc EXCEPT ![r] = "begin"]
        /\ UNCHANGED <<rphone, rip, rchallenge, rseen>>
  /\ UNCHANGED <<now, cooldown, rows, lock, userActive, logins, attempts>>

(***************************************************************************)
(* createOtpChallenge: PostgreSQL.  The UPDATE sees the challenges that    *)
(* are committed when it starts, waits for the rows an attempt has locked  *)
(* and skips those that are no longer pending by then.                     *)
(***************************************************************************)
\* expiresAt is read before the connection is taken from the pool.
BeginCreate(r, ch) ==
  /\ rpc[r] = "begin"
  /\ status[ch] = "absent" /\ \A q \in Requests : rchallenge[q] # ch
  /\ rchallenge' = [rchallenge EXCEPT ![r] = ch]
  /\ expires' = [expires EXCEPT ![ch] = now + OtpLifetime]
  /\ rpc' = [rpc EXCEPT ![r] = "update"]
  /\ UNCHANGED <<now, redis, status, phone, tries, lock, userActive, logins, rphone, rip,
                 rseen, attempts>>

StartUpdate(r) ==
  /\ rpc[r] = "update"
  /\ rseen' = [rseen EXCEPT ![r] = PendingOf(rphone[r])]
  /\ rpc' = [rpc EXCEPT ![r] = "lock"]
  /\ UNCHANGED <<now, redis, rows, lock, userActive, logins, rphone, rip, rchallenge,
                 attempts>>

StillPending(r) == {ch \in rseen[r] : status[ch] = "pending"}

LockPending(r) ==
  /\ rpc[r] = "lock"
  /\ \A ch \in rseen[r] : lock[ch] = Nobody
  /\ rseen' = [rseen EXCEPT ![r] = StillPending(r)]
  /\ lock' = [ch \in Challenges |-> IF ch \in StillPending(r) THEN r ELSE lock[ch]]
  /\ rpc' = [rpc EXCEPT ![r] = "insert"]
  /\ UNCHANGED <<now, redis, rows, userActive, logins, rphone, rip, rchallenge, attempts>>

CommitCreate(r) ==
  /\ rpc[r] = "insert"
  /\ status' = [ch \in Challenges |-> IF ch = rchallenge[r] THEN "pending"
                                      ELSE IF ch \in rseen[r] THEN "invalidated"
                                      ELSE status[ch]]
  /\ phone' = [phone EXCEPT ![rchallenge[r]] = rphone[r]]
  /\ Release(r)
  /\ rpc' = [rpc EXCEPT ![r] = "deliver"]
  /\ UNCHANGED <<now, redis, expires, tries, userActive, logins, rphone, rip, rchallenge,
                 rseen, attempts>>

(***************************************************************************)
(* deliverOtp.  Any failure, also one after the SMS has left (a late       *)
(* answer, a failed INSERT of the delivery attempt), fails the challenge.  *)
(***************************************************************************)
Delivered(r) ==
  /\ rpc[r] = "deliver"
  /\ EndRequest(r)
  /\ UNCHANGED <<now, redis, rows, lock, userActive, logins, attempts>>

NotDelivered(r) ==
  /\ rpc[r] = "deliver"
  /\ rpc' = [rpc EXCEPT ![r] = "markFailed"]
  /\ UNCHANGED <<now, redis, rows, lock, userActive, logins, rphone, rip, rchallenge, rseen,
                 attempts>>

\* Mutant: UPDATE ... WHERE id = $1.
MarkOtpDeliveryFailedAlways(r) ==
  /\ rpc[r] = "markFailed"
  /\ lock[rchallenge[r]] = Nobody
  /\ status' = [status EXCEPT ![rchallenge[r]] = "delivery_failed"]
  /\ EndRequest(r)
  /\ UNCHANGED <<now, redis, phone, expires, tries, lock, userActive, logins, attempts>>

MarkOtpDeliveryFailed(r) ==
  /\ rpc[r] = "markFailed"
  /\ status[rchallenge[r]] = "pending" => lock[rchallenge[r]] = Nobody
  /\ status' = [status EXCEPT ![rchallenge[r]] =
                  IF @ = "pending" THEN "delivery_failed" ELSE @]
  /\ EndRequest(r)
  /\ UNCHANGED <<now, redis, phone, expires, tries, lock, userActive, logins, attempts>>

(***************************************************************************)
(* consumeOtpChallenge.                                                    *)
(***************************************************************************)
BeginAttempt(a, ch, right) ==
  /\ apc[a] = "idle"
  /\ status[ch] # "absent"
  /\ apc' = [apc EXCEPT ![a] = "lock"]
  /\ achallenge' = [achallenge EXCEPT ![a] = ch]
  /\ aright' = [aright EXCEPT ![a] = right]
  /\ UNCHANGED <<now, redis, rows, lock, userActive, logins, requests>>

Usable(ch) ==
  /\ status[ch] = "pending"
  /\ expires[ch] > now
  /\ tries[ch] < MaxAttempts

\* Mutant: SELECT without FOR UPDATE.
SelectUnlocked(a) ==
  /\ apc[a] = "lock"
  /\ Usable(achallenge[a])
  /\ apc' = [apc EXCEPT ![a] = IF aright[a] THEN "consume" ELSE "count"]
  /\ UNCHANGED <<now, redis, rows, lock, userActive, logins, requests, achallenge, aright>>

SelectForUpdate(a) ==
  /\ apc[a] = "lock"
  /\ lock[achallenge[a]] = Nobody
  /\ Usable(achallenge[a])
  /\ lock' = [lock EXCEPT ![achallenge[a]] = a]
  /\ apc' = [apc EXCEPT ![a] = IF aright[a] THEN "consume" ELSE "count"]
  /\ UNCHANGED <<now, redis, rows, userActive, logins, requests, achallenge, aright>>

\* The exception of an unusable challenge rolls back before anything is written.
RejectAttempt(a) ==
  /\ apc[a] = "lock"
  /\ lock[achallenge[a]] = Nobody
  /\ ~Usable(achallenge[a])
  /\ EndAttempt(a)
  /\ UNCHANGED <<now, redis, rows, lock, userActive, logins, requests>>

\* Mutant: the guesses that are left are counted down, from 0.
CountAttemptDown(a) ==
  /\ apc[a] = "count"
  /\ tries' = [tries EXCEPT ![achallenge[a]] = @ - 1]
  /\ Release(a)
  /\ EndAttempt(a)
  /\ UNCHANGED <<now, redis, status, phone, expires, userActive, logins, requests>>

\* A wrong code is counted and committed before the request is refused.
CountAttempt(a) ==
  /\ apc[a] = "count"
  /\ tries' = [tries EXCEPT ![achallenge[a]] = @ + 1]
  /\ status' = [status EXCEPT ![achallenge[a]] =
                  IF tries[achallenge[a]] + 1 >= MaxAttempts THEN "invalidated" ELSE @]
  /\ Release(a)
  /\ EndAttempt(a)
  /\ UNCHANGED <<now, redis, phone, expires, userActive, logins, requests>>

\* The challenge, the user and the session of a right code commit together.
Consume(a) ==
  /\ apc[a] = "consume"
  /\ userActive[phone[achallenge[a]]]
  /\ status' = [status EXCEPT ![achallenge[a]] = "consumed"]
  /\ logins' = [logins EXCEPT ![achallenge[a]] = @ + 1]
  /\ Release(a)
  /\ EndAttempt(a)
  /\ UNCHANGED <<now, redis, phone, expires, tries, userActive, requests>>

\* An inactive user's right code is rolled back: the challenge stays pending, uncounted.
RollbackInactive(a) ==
  /\ apc[a] = "consume"
  /\ ~userActive[phone[achallenge[a]]]
  /\ Release(a)
  /\ EndAttempt(a)
  /\ UNCHANGED <<now, redis, rows, userActive, logins, requests>>

(***************************************************************************)
(* The environment.                                                        *)
(***************************************************************************)
FailRequest(r) ==
  /\ Faults /\ rpc[r] # "idle"
  /\ Release(r)
  /\ EndRequest(r)
  /\ UNCHANGED <<now, redis, rows, userActive, logins, attempts>>

FailAttempt(a) ==
  /\ Faults /\ apc[a] # "idle"
  /\ Release(a)
  /\ EndAttempt(a)
  /\ UNCHANGED <<now, redis, rows, userActive, logins, requests>>

\* An operator switches a user off or on: no code under src/ does.
SetUserActive(p) ==
  /\ userActive' = [userActive EXCEPT ![p] = ~userActive[p]]
  /\ UNCHANGED <<now, redis, rows, lock, logins, requests, attempts>>

Creating(r) == rpc[r] \in {"phoneLimit", "ipLimit", "begin", "update", "lock", "insert"}

Tick ==
  /\ now < MaxNow
  /\ Prompt => \A r \in Requests : ~Creating(r)
  /\ now' = now + 1
  /\ UNCHANGED <<redis, rows, lock, userActive, logins, requests, attempts>>

RequestStep(r) ==
  \/ \E p \in Phones, ip \in Ips : AssertCooldown(r, p, ip)
  \/ AssertPhoneLimit(r) \/ AssertIpLimit(r)
  \/ \E ch \in Challenges : BeginCreate(r, ch)
  \/ StartUpdate(r) \/ LockPending(r) \/ CommitCreate(r)
  \/ Delivered(r) \/ NotDelivered(r) \/ MarkOtpDeliveryFailed(r)
  \/ FailRequest(r)

AttemptStep(a) ==
  \/ \E ch \in Challenges, right \in BOOLEAN : BeginAttempt(a, ch, right)
  \/ SelectForUpdate(a) \/ RejectAttempt(a)
  \/ CountAttempt(a) \/ Consume(a) \/ RollbackInactive(a)
  \/ FailAttempt(a)

Next ==
  \/ \E r \in Requests : RequestStep(r)
  \/ \E a \in Attempts : AttemptStep(a)
  \/ \E p \in Phones : SetUserActive(p)
  \/ Tick

Spec == Init /\ [][Next]_vars

-----------------------------------------------------------------------------
Statuses == {"absent", "pending", "consumed", "invalidated", "delivery_failed"}

\* The keys, the rows and the steps have the shape Redis, the schema and the code give them.
TypeOK ==
  /\ now \in Nat
  /\ cooldown \in [Phones -> Nat]
  /\ counter \in [Keys -> Nat]
  /\ counterExpires \in [Keys -> Nat]
  /\ status \in [Challenges -> Statuses]
  /\ phone \in [Challenges -> Phones \union {NoPhone}]
  /\ expires \in [Challenges -> Nat]
  /\ tries \in [Challenges -> Nat]
  /\ lock \in [Challenges -> Requests \union Attempts \union {Nobody}]
  /\ userActive \in [Phones -> BOOLEAN]
  /\ logins \in [Challenges -> Nat]
  /\ rpc \in [Requests -> {"idle", "phoneLimit", "ipLimit", "begin", "update", "lock",
                           "insert", "deliver", "markFailed"}]
  /\ rphone \in [Requests -> Phones \union {NoPhone}]
  /\ rip \in [Requests -> Ips \union {NoIp}]
  /\ rchallenge \in [Requests -> Challenges \union {NoChallenge}]
  /\ rseen \in [Requests -> SUBSET Challenges]
  /\ apc \in [Attempts -> {"idle", "lock", "count", "consume"}]
  /\ achallenge \in [Attempts -> Challenges \union {NoChallenge}]
  /\ aright \in [Attempts -> BOOLEAN]

\* A challenge opens one session at most, however many attempts carry its code at once.
OneLoginPerChallenge ==
  \A ch \in Challenges :
    /\ logins[ch] <= 1
    /\ logins[ch] = 1 <=> status[ch] = "consumed"

\* Concurrent guesses never exceed the budget, and none is left in a spent challenge.
GuessBudget ==
  \A ch \in Challenges :
    /\ tries[ch] <= MaxAttempts
    /\ status[ch] \in {"pending", "consumed"} => tries[ch] < MaxAttempts

\* A challenge that left "pending" never changes again: a late delivery failure does not
\* undo a login, an attempt does not revive a replaced challenge.
Finality ==
  \A ch \in Challenges :
    status[ch] \in {"consumed", "invalidated", "delivery_failed"} => status'[ch] = status[ch]
FinalStatuses == [][Finality]_vars

\* BACKEND_BUILD_CHECKLIST.md: a new challenge invalidates "prior pending challenges", so
\* a phone has one usable code.
OnePendingPerPhone ==
  \A p \in Phones : Cardinality(PendingOf(p)) <= 1
=============================================================================
