------------------------- MODULE OtpChallengesProofs -------------------------
(***************************************************************************)
(* Proofs about OtpChallenges, for every number of requests, attempts and  *)
(* challenges, every limit and lifetime, with and without faults.          *)
(***************************************************************************)
EXTENDS OtpChallengesRefinement, FiniteSetTheorems, TLAPS

\* What an attempt has read under its row lock still holds when it writes.
AttemptInv ==
  \A a \in Attempts :
    /\ apc[a] # "idle" => achallenge[a] \in Challenges
    /\ apc[a] \in {"count", "consume"} =>
         /\ lock[achallenge[a]] = a
         /\ status[achallenge[a]] = "pending"
         /\ tries[achallenge[a]] < MaxAttempts

\* A request creates a challenge of its own and replaces only rows it has locked.
RequestInv ==
  \A r \in Requests :
    /\ rpc[r] # "idle" => rphone[r] \in Phones /\ rip[r] \in Ips
    /\ rpc[r] \in {"update", "lock", "insert", "deliver", "markFailed"} =>
         rchallenge[r] \in Challenges
    /\ rpc[r] \in {"update", "lock", "insert"} => status[rchallenge[r]] = "absent"
    /\ rpc[r] = "insert" =>
         \A ch \in rseen[r] : lock[ch] = r /\ status[ch] = "pending"

OwnChallenge ==
  \A r, q \in Requests :
    (rchallenge[r] \in Challenges /\ rchallenge[r] = rchallenge[q]) => r = q

Fresh == \A ch \in Challenges : status[ch] = "absent" => tries[ch] = 0

IInv ==
  /\ TypeOK /\ AttemptInv /\ RequestInv /\ OwnChallenge /\ Fresh
  /\ OneLoginPerChallenge /\ GuessBudget

-----------------------------------------------------------------------------
\* INCR and EXPIRE keep the types of the counters, whatever the key.
LEMMA CountKeepsType ==
  ASSUME TypeOK, NEW k, Count(k)
  PROVE  counter' \in [Keys -> Nat] /\ counterExpires' \in [Keys -> Nat]
<1>1. CASE k \in Keys
  BY <1>1, OtpAssumption DEF TypeOK, Count, Incremented
<1>2. CASE k \notin Keys
  BY <1>2 DEF TypeOK, Count
<1> QED BY <1>1, <1>2

\* Every step keeps the inductive invariant.
LEMMA InvariantStep == IInv /\ [Next]_vars => IInv'
<1> SUFFICES ASSUME IInv, [Next]_vars PROVE IInv'
  OBVIOUS
<1> USE OtpAssumption DEF redis, rows, requests, attempts, Keys, Statuses
<1>1. ASSUME NEW r \in Requests, NEW p \in Phones, NEW ip \in Ips, AssertCooldown(r, p, ip)
      PROVE IInv'
  BY <1>1
     DEF AssertCooldown, IInv, TypeOK, AttemptInv, RequestInv, OwnChallenge, Fresh,
         OneLoginPerChallenge, GuessBudget
<1>2. ASSUME NEW r \in Requests, AssertPhoneLimit(r)
      PROVE IInv'
  <2>1. TypeOK'
    BY <1>2, CountKeepsType DEF IInv, TypeOK, AssertPhoneLimit, OverLimit, EndRequest
  <2>2. AttemptInv'
    BY <1>2
       DEF IInv, AttemptInv, AssertPhoneLimit, Count, Incremented, OverLimit, EndRequest,
           TypeOK, RequestInv
  <2>3. RequestInv'
    BY <1>2
       DEF IInv, RequestInv, AssertPhoneLimit, Count, Incremented, OverLimit, EndRequest,
           TypeOK, AttemptInv, OwnChallenge
  <2>4. OwnChallenge'
    BY <1>2
       DEF IInv, OwnChallenge, AssertPhoneLimit, Count, Incremented, OverLimit, EndRequest,
           TypeOK, RequestInv
  <2>5. Fresh'
    BY <1>2
       DEF IInv, Fresh, AssertPhoneLimit, Count, Incremented, OverLimit, EndRequest, TypeOK,
           AttemptInv, RequestInv
  <2>6. OneLoginPerChallenge'
    BY <1>2
       DEF IInv, OneLoginPerChallenge, AssertPhoneLimit, Count, Incremented, OverLimit,
           EndRequest, TypeOK, AttemptInv, RequestInv
  <2>7. GuessBudget'
    BY <1>2
       DEF IInv, GuessBudget, AssertPhoneLimit, Count, Incremented, OverLimit, EndRequest,
           TypeOK, AttemptInv, RequestInv, Fresh
  <2> QED BY <2>1, <2>2, <2>3, <2>4, <2>5, <2>6, <2>7 DEF IInv
<1>3. ASSUME NEW r \in Requests, AssertIpLimit(r)
      PROVE IInv'
  <2>1. TypeOK'
    BY <1>3, CountKeepsType DEF IInv, TypeOK, AssertIpLimit, OverLimit, EndRequest
  <2>2. AttemptInv'
    BY <1>3
       DEF IInv, AttemptInv, AssertIpLimit, Count, Incremented, OverLimit, EndRequest, TypeOK,
           RequestInv
  <2>3. RequestInv'
    BY <1>3
       DEF IInv, RequestInv, AssertIpLimit, Count, Incremented, OverLimit, EndRequest, TypeOK,
           AttemptInv, OwnChallenge
  <2>4. OwnChallenge'
    BY <1>3
       DEF IInv, OwnChallenge, AssertIpLimit, Count, Incremented, OverLimit, EndRequest,
           TypeOK, RequestInv
  <2>5. Fresh'
    BY <1>3
       DEF IInv, Fresh, AssertIpLimit, Count, Incremented, OverLimit, EndRequest, TypeOK,
           AttemptInv, RequestInv
  <2>6. OneLoginPerChallenge'
    BY <1>3
       DEF IInv, OneLoginPerChallenge, AssertIpLimit, Count, Incremented, OverLimit,
           EndRequest, TypeOK, AttemptInv, RequestInv
  <2>7. GuessBudget'
    BY <1>3
       DEF IInv, GuessBudget, AssertIpLimit, Count, Incremented, OverLimit, EndRequest,
           TypeOK, AttemptInv, RequestInv, Fresh
  <2> QED BY <2>1, <2>2, <2>3, <2>4, <2>5, <2>6, <2>7 DEF IInv
<1>4. ASSUME NEW r \in Requests, NEW ch \in Challenges, BeginCreate(r, ch)
      PROVE IInv'
  <2>1. TypeOK'
    BY <1>4 DEF IInv, TypeOK, BeginCreate, AttemptInv, RequestInv
  <2>2. AttemptInv'
    BY <1>4 DEF IInv, AttemptInv, BeginCreate, TypeOK, RequestInv
  <2>3. RequestInv'
    BY <1>4 DEF IInv, RequestInv, BeginCreate, TypeOK, AttemptInv, OwnChallenge
  <2>4. OwnChallenge'
    BY <1>4 DEF IInv, OwnChallenge, BeginCreate, TypeOK, RequestInv
  <2>5. Fresh'
    BY <1>4 DEF IInv, Fresh, BeginCreate, TypeOK, AttemptInv, RequestInv
  <2>6. OneLoginPerChallenge'
    BY <1>4 DEF IInv, OneLoginPerChallenge, BeginCreate, TypeOK, AttemptInv, RequestInv
  <2>7. GuessBudget'
    BY <1>4 DEF IInv, GuessBudget, BeginCreate, TypeOK, AttemptInv, RequestInv, Fresh
  <2> QED BY <2>1, <2>2, <2>3, <2>4, <2>5, <2>6, <2>7 DEF IInv
<1>5. ASSUME NEW r \in Requests, StartUpdate(r)
      PROVE IInv'
  <2>1. TypeOK'
    BY <1>5 DEF IInv, TypeOK, StartUpdate, PendingOf, AttemptInv, RequestInv
  <2>2. AttemptInv'
    BY <1>5 DEF IInv, AttemptInv, StartUpdate, PendingOf, TypeOK, RequestInv
  <2>3. RequestInv'
    BY <1>5 DEF IInv, RequestInv, StartUpdate, PendingOf, TypeOK, AttemptInv, OwnChallenge
  <2>4. OwnChallenge'
    BY <1>5 DEF IInv, OwnChallenge, StartUpdate, PendingOf, TypeOK, RequestInv
  <2>5. Fresh'
    BY <1>5 DEF IInv, Fresh, StartUpdate, PendingOf, TypeOK, AttemptInv, RequestInv
  <2>6. OneLoginPerChallenge'
    BY <1>5
       DEF IInv, OneLoginPerChallenge, StartUpdate, PendingOf, TypeOK, AttemptInv, RequestInv
  <2>7. GuessBudget'
    BY <1>5
       DEF IInv, GuessBudget, StartUpdate, PendingOf, TypeOK, AttemptInv, RequestInv, Fresh
  <2> QED BY <2>1, <2>2, <2>3, <2>4, <2>5, <2>6, <2>7 DEF IInv
<1>6. ASSUME NEW r \in Requests, LockPending(r)
      PROVE IInv'
  <2>1. TypeOK'
    BY <1>6 DEF IInv, TypeOK, LockPending, StillPending, AttemptInv, RequestInv
  <2>2. AttemptInv'
    BY <1>6 DEF IInv, AttemptInv, LockPending, StillPending, TypeOK, RequestInv
  <2>3. RequestInv'
    BY <1>6 DEF IInv, RequestInv, LockPending, StillPending, TypeOK, AttemptInv, OwnChallenge
  <2>4. OwnChallenge'
    BY <1>6 DEF IInv, OwnChallenge, LockPending, StillPending, TypeOK, RequestInv
  <2>5. Fresh'
    BY <1>6 DEF IInv, Fresh, LockPending, StillPending, TypeOK, AttemptInv, RequestInv
  <2>6. OneLoginPerChallenge'
    BY <1>6
       DEF IInv, OneLoginPerChallenge, LockPending, StillPending, TypeOK, AttemptInv,
           RequestInv
  <2>7. GuessBudget'
    BY <1>6
       DEF IInv, GuessBudget, LockPending, StillPending, TypeOK, AttemptInv, RequestInv, Fresh
  <2> QED BY <2>1, <2>2, <2>3, <2>4, <2>5, <2>6, <2>7 DEF IInv
<1>7. ASSUME NEW r \in Requests, CommitCreate(r)
      PROVE IInv'
  <2>1. TypeOK'
    BY <1>7 DEF IInv, TypeOK, CommitCreate, Release, AttemptInv, RequestInv
  <2>2. AttemptInv'
    BY <1>7 DEF IInv, AttemptInv, CommitCreate, Release, TypeOK, RequestInv
  <2>3. RequestInv'
    BY <1>7 DEF IInv, RequestInv, CommitCreate, Release, TypeOK, AttemptInv, OwnChallenge
  <2>4. OwnChallenge'
    BY <1>7 DEF IInv, OwnChallenge, CommitCreate, Release, TypeOK, RequestInv
  <2>5. Fresh'
    BY <1>7 DEF IInv, Fresh, CommitCreate, Release, TypeOK, AttemptInv, RequestInv
  <2>6. OneLoginPerChallenge'
    BY <1>7
       DEF IInv, OneLoginPerChallenge, CommitCreate, Release, TypeOK, AttemptInv, RequestInv
  <2>7. GuessBudget'
    BY <1>7
       DEF IInv, GuessBudget, CommitCreate, Release, TypeOK, AttemptInv, RequestInv, Fresh
  <2> QED BY <2>1, <2>2, <2>3, <2>4, <2>5, <2>6, <2>7 DEF IInv
<1>8. ASSUME NEW r \in Requests, Delivered(r)
      PROVE IInv'
  BY <1>8
     DEF Delivered, EndRequest, IInv, TypeOK, AttemptInv, RequestInv, OwnChallenge, Fresh,
         OneLoginPerChallenge, GuessBudget
<1>9. ASSUME NEW r \in Requests, NotDelivered(r)
      PROVE IInv'
  BY <1>9
     DEF NotDelivered, IInv, TypeOK, AttemptInv, RequestInv, OwnChallenge, Fresh,
         OneLoginPerChallenge, GuessBudget
<1>10. ASSUME NEW r \in Requests, MarkOtpDeliveryFailed(r)
      PROVE IInv'
  <2>1. TypeOK'
    BY <1>10 DEF IInv, TypeOK, MarkOtpDeliveryFailed, EndRequest, AttemptInv, RequestInv
  <2>2. AttemptInv'
    BY <1>10 DEF IInv, AttemptInv, MarkOtpDeliveryFailed, EndRequest, TypeOK, RequestInv
  <2>3. RequestInv'
    BY <1>10
       DEF IInv, RequestInv, MarkOtpDeliveryFailed, EndRequest, TypeOK, AttemptInv,
           OwnChallenge
  <2>4. OwnChallenge'
    BY <1>10 DEF IInv, OwnChallenge, MarkOtpDeliveryFailed, EndRequest, TypeOK, RequestInv
  <2>5. Fresh'
    BY <1>10
       DEF IInv, Fresh, MarkOtpDeliveryFailed, EndRequest, TypeOK, AttemptInv, RequestInv
  <2>6. OneLoginPerChallenge'
    BY <1>10
       DEF IInv, OneLoginPerChallenge, MarkOtpDeliveryFailed, EndRequest, TypeOK, AttemptInv,
           RequestInv
  <2>7. GuessBudget'
    BY <1>10
       DEF IInv, GuessBudget, MarkOtpDeliveryFailed, EndRequest, TypeOK, AttemptInv,
           RequestInv, Fresh
  <2> QED BY <2>1, <2>2, <2>3, <2>4, <2>5, <2>6, <2>7 DEF IInv
<1>11. ASSUME NEW r \in Requests, FailRequest(r)
      PROVE IInv'
  <2>1. TypeOK'
    BY <1>11 DEF IInv, TypeOK, FailRequest, Release, EndRequest, AttemptInv, RequestInv
  <2>2. AttemptInv'
    BY <1>11 DEF IInv, AttemptInv, FailRequest, Release, EndRequest, TypeOK, RequestInv
  <2>3. RequestInv'
    BY <1>11
       DEF IInv, RequestInv, FailRequest, Release, EndRequest, TypeOK, AttemptInv,
           OwnChallenge
  <2>4. OwnChallenge'
    BY <1>11 DEF IInv, OwnChallenge, FailRequest, Release, EndRequest, TypeOK, RequestInv
  <2>5. Fresh'
    BY <1>11 DEF IInv, Fresh, FailRequest, Release, EndRequest, TypeOK, AttemptInv, RequestInv
  <2>6. OneLoginPerChallenge'
    BY <1>11
       DEF IInv, OneLoginPerChallenge, FailRequest, Release, EndRequest, TypeOK, AttemptInv,
           RequestInv
  <2>7. GuessBudget'
    BY <1>11
       DEF IInv, GuessBudget, FailRequest, Release, EndRequest, TypeOK, AttemptInv,
           RequestInv, Fresh
  <2> QED BY <2>1, <2>2, <2>3, <2>4, <2>5, <2>6, <2>7 DEF IInv
<1>12. ASSUME NEW a \in Attempts, NEW ch \in Challenges, NEW right \in BOOLEAN,
             BeginAttempt(a, ch, right)
      PROVE IInv'
  BY <1>12
     DEF BeginAttempt, IInv, TypeOK, AttemptInv, RequestInv, OwnChallenge, Fresh,
         OneLoginPerChallenge, GuessBudget
<1>13. ASSUME NEW a \in Attempts, SelectForUpdate(a)
      PROVE IInv'
  <2>1. TypeOK'
    BY <1>13 DEF IInv, TypeOK, SelectForUpdate, Usable, AttemptInv, RequestInv
  <2>2. AttemptInv'
    BY <1>13 DEF IInv, AttemptInv, SelectForUpdate, Usable, TypeOK, RequestInv
  <2>3. RequestInv'
    BY <1>13 DEF IInv, RequestInv, SelectForUpdate, Usable, TypeOK, AttemptInv, OwnChallenge
  <2>4. OwnChallenge'
    BY <1>13 DEF IInv, OwnChallenge, SelectForUpdate, Usable, TypeOK, RequestInv
  <2>5. Fresh'
    BY <1>13 DEF IInv, Fresh, SelectForUpdate, Usable, TypeOK, AttemptInv, RequestInv
  <2>6. OneLoginPerChallenge'
    BY <1>13
       DEF IInv, OneLoginPerChallenge, SelectForUpdate, Usable, TypeOK, AttemptInv, RequestInv
  <2>7. GuessBudget'
    BY <1>13
       DEF IInv, GuessBudget, SelectForUpdate, Usable, TypeOK, AttemptInv, RequestInv, Fresh
  <2> QED BY <2>1, <2>2, <2>3, <2>4, <2>5, <2>6, <2>7 DEF IInv
<1>14. ASSUME NEW a \in Attempts, RejectAttempt(a)
      PROVE IInv'
  <2>1. TypeOK'
    BY <1>14 DEF IInv, TypeOK, RejectAttempt, EndAttempt, AttemptInv, RequestInv
  <2>2. AttemptInv'
    BY <1>14 DEF IInv, AttemptInv, RejectAttempt, EndAttempt, TypeOK, RequestInv
  <2>3. RequestInv'
    BY <1>14 DEF IInv, RequestInv, RejectAttempt, EndAttempt, TypeOK, AttemptInv, OwnChallenge
  <2>4. OwnChallenge'
    BY <1>14 DEF IInv, OwnChallenge, RejectAttempt, EndAttempt, TypeOK, RequestInv
  <2>5. Fresh'
    BY <1>14 DEF IInv, Fresh, RejectAttempt, EndAttempt, TypeOK, AttemptInv, RequestInv
  <2>6. OneLoginPerChallenge'
    BY <1>14
       DEF IInv, OneLoginPerChallenge, RejectAttempt, EndAttempt, TypeOK, AttemptInv,
           RequestInv
  <2>7. GuessBudget'
    BY <1>14
       DEF IInv, GuessBudget, RejectAttempt, EndAttempt, TypeOK, AttemptInv, RequestInv, Fresh
  <2> QED BY <2>1, <2>2, <2>3, <2>4, <2>5, <2>6, <2>7 DEF IInv
<1>15. ASSUME NEW a \in Attempts, CountAttempt(a)
      PROVE IInv'
  <2>1. TypeOK'
    BY <1>15 DEF IInv, TypeOK, CountAttempt, Release, EndAttempt, AttemptInv, RequestInv
  <2>2. AttemptInv'
    BY <1>15 DEF IInv, AttemptInv, CountAttempt, Release, EndAttempt, TypeOK, RequestInv
  <2>3. RequestInv'
    BY <1>15
       DEF IInv, RequestInv, CountAttempt, Release, EndAttempt, TypeOK, AttemptInv,
           OwnChallenge
  <2>4. OwnChallenge'
    BY <1>15 DEF IInv, OwnChallenge, CountAttempt, Release, EndAttempt, TypeOK, RequestInv
  <2>5. Fresh'
    BY <1>15
       DEF IInv, Fresh, CountAttempt, Release, EndAttempt, TypeOK, AttemptInv, RequestInv
  <2>6. OneLoginPerChallenge'
    BY <1>15
       DEF IInv, OneLoginPerChallenge, CountAttempt, Release, EndAttempt, TypeOK, AttemptInv,
           RequestInv
  <2>7. GuessBudget'
    BY <1>15
       DEF IInv, GuessBudget, CountAttempt, Release, EndAttempt, TypeOK, AttemptInv,
           RequestInv, Fresh
  <2> QED BY <2>1, <2>2, <2>3, <2>4, <2>5, <2>6, <2>7 DEF IInv
<1>16. ASSUME NEW a \in Attempts, Consume(a)
      PROVE IInv'
  <2>0. achallenge[a] \in Challenges /\ logins[achallenge[a]] = 0
    <3>1. achallenge[a] \in Challenges /\ status[achallenge[a]] = "pending"
      BY <1>16 DEF IInv, Consume, AttemptInv
    <3>2. logins[achallenge[a]] \in Nat /\ logins[achallenge[a]] <= 1 /\ logins[achallenge[a]] # 1
      BY <3>1 DEF IInv, TypeOK, OneLoginPerChallenge
    <3> QED BY <3>1, <3>2
  <2>1. TypeOK'
    BY <1>16 DEF IInv, TypeOK, Consume, Release, EndAttempt, AttemptInv, RequestInv
  <2>2. AttemptInv'
    BY <1>16 DEF IInv, AttemptInv, Consume, Release, EndAttempt, TypeOK, RequestInv
  <2>3. RequestInv'
    BY <1>16
       DEF IInv, RequestInv, Consume, Release, EndAttempt, TypeOK, AttemptInv, OwnChallenge
  <2>4. OwnChallenge'
    BY <1>16 DEF IInv, OwnChallenge, Consume, Release, EndAttempt, TypeOK, RequestInv
  <2>5. Fresh'
    BY <1>16 DEF IInv, Fresh, Consume, Release, EndAttempt, TypeOK, AttemptInv, RequestInv
  <2>6. OneLoginPerChallenge'
    BY <1>16, <2>0 DEF IInv, TypeOK, Consume, OneLoginPerChallenge
  <2>7. GuessBudget'
    BY <1>16
       DEF IInv, GuessBudget, Consume, Release, EndAttempt, TypeOK, AttemptInv, RequestInv,
           Fresh
  <2> QED BY <2>1, <2>2, <2>3, <2>4, <2>5, <2>6, <2>7 DEF IInv
<1>17. ASSUME NEW a \in Attempts, RollbackInactive(a)
      PROVE IInv'
  <2>1. TypeOK'
    BY <1>17 DEF IInv, TypeOK, RollbackInactive, Release, EndAttempt, AttemptInv, RequestInv
  <2>2. AttemptInv'
    BY <1>17 DEF IInv, AttemptInv, RollbackInactive, Release, EndAttempt, TypeOK, RequestInv
  <2>3. RequestInv'
    BY <1>17
       DEF IInv, RequestInv, RollbackInactive, Release, EndAttempt, TypeOK, AttemptInv,
           OwnChallenge
  <2>4. OwnChallenge'
    BY <1>17 DEF IInv, OwnChallenge, RollbackInactive, Release, EndAttempt, TypeOK, RequestInv
  <2>5. Fresh'
    BY <1>17
       DEF IInv, Fresh, RollbackInactive, Release, EndAttempt, TypeOK, AttemptInv, RequestInv
  <2>6. OneLoginPerChallenge'
    BY <1>17
       DEF IInv, OneLoginPerChallenge, RollbackInactive, Release, EndAttempt, TypeOK,
           AttemptInv, RequestInv
  <2>7. GuessBudget'
    BY <1>17
       DEF IInv, GuessBudget, RollbackInactive, Release, EndAttempt, TypeOK, AttemptInv,
           RequestInv, Fresh
  <2> QED BY <2>1, <2>2, <2>3, <2>4, <2>5, <2>6, <2>7 DEF IInv
<1>18. ASSUME NEW a \in Attempts, FailAttempt(a)
      PROVE IInv'
  <2>1. TypeOK'
    BY <1>18 DEF IInv, TypeOK, FailAttempt, Release, EndAttempt, AttemptInv, RequestInv
  <2>2. AttemptInv'
    BY <1>18 DEF IInv, AttemptInv, FailAttempt, Release, EndAttempt, TypeOK, RequestInv
  <2>3. RequestInv'
    BY <1>18
       DEF IInv, RequestInv, FailAttempt, Release, EndAttempt, TypeOK, AttemptInv,
           OwnChallenge
  <2>4. OwnChallenge'
    BY <1>18 DEF IInv, OwnChallenge, FailAttempt, Release, EndAttempt, TypeOK, RequestInv
  <2>5. Fresh'
    BY <1>18 DEF IInv, Fresh, FailAttempt, Release, EndAttempt, TypeOK, AttemptInv, RequestInv
  <2>6. OneLoginPerChallenge'
    BY <1>18
       DEF IInv, OneLoginPerChallenge, FailAttempt, Release, EndAttempt, TypeOK, AttemptInv,
           RequestInv
  <2>7. GuessBudget'
    BY <1>18
       DEF IInv, GuessBudget, FailAttempt, Release, EndAttempt, TypeOK, AttemptInv,
           RequestInv, Fresh
  <2> QED BY <2>1, <2>2, <2>3, <2>4, <2>5, <2>6, <2>7 DEF IInv
<1>19. ASSUME NEW p \in Phones, SetUserActive(p)
      PROVE IInv'
  BY <1>19
     DEF SetUserActive, IInv, TypeOK, AttemptInv, RequestInv, OwnChallenge, Fresh,
         OneLoginPerChallenge, GuessBudget
<1>20. CASE Tick
  BY <1>20
     DEF Tick, IInv, TypeOK, AttemptInv, RequestInv, OwnChallenge, Fresh,
         OneLoginPerChallenge, GuessBudget
<1>21. CASE UNCHANGED vars
  BY <1>21
     DEF vars, IInv, TypeOK, AttemptInv, RequestInv, OwnChallenge, Fresh,
         OneLoginPerChallenge, GuessBudget
<1> QED
  BY <1>1, <1>2, <1>3, <1>4, <1>5, <1>6, <1>7, <1>8, <1>9, <1>10, <1>11, <1>12, <1>13, <1>14, <1>15, <1>16, <1>17, <1>18, <1>19, <1>20, <1>21
     DEF Next, RequestStep, AttemptStep

\* IInv is an inductive invariant of the system.
THEOREM Invariance == Spec => []IInv
<1>1. Init => IInv
  BY OtpAssumption
     DEF Init, IInv, TypeOK, Keys, Statuses, AttemptInv, RequestInv, OwnChallenge, Fresh,
         OneLoginPerChallenge, GuessBudget
<1> QED BY <1>1, InvariantStep, PTL DEF Spec

\* The shape of the state, in every reachable state.
THEOREM TypeCorrect == Spec => []TypeOK
BY Invariance, PTL DEF IInv

\* A challenge opens at most one session.
THEOREM OneLogin == Spec => []OneLoginPerChallenge
BY Invariance, PTL DEF IInv

\* No interleaving of attempts gets more than MaxAttempts wrong guesses out of a challenge.
THEOREM GuessBudgetHolds == Spec => []GuessBudget
BY Invariance, PTL DEF IInv

\* A challenge that is no longer pending never changes.
THEOREM FinalStatusesHold == Spec => FinalStatuses
<1>1. IInv /\ [Next]_vars => [Finality]_vars
  <2> SUFFICES ASSUME IInv, Next, NEW ch \in Challenges,
                      status[ch] \in {"consumed", "invalidated", "delivery_failed"}
               PROVE status'[ch] = status[ch]
    BY DEF Finality
  <2> USE OtpAssumption DEF IInv, TypeOK, redis, rows
  <2>1. ASSUME NEW r \in Requests, CommitCreate(r) PROVE status'[ch] = status[ch]
    BY <2>1 DEF CommitCreate, RequestInv
  <2>2. ASSUME NEW r \in Requests, MarkOtpDeliveryFailed(r) PROVE status'[ch] = status[ch]
    BY <2>2 DEF MarkOtpDeliveryFailed
  <2>3. ASSUME NEW a \in Attempts, CountAttempt(a) \/ Consume(a)
        PROVE status'[ch] = status[ch]
    BY <2>3 DEF CountAttempt, Consume, AttemptInv
  <2>4. ASSUME NEW r \in Requests, RequestStep(r),
               ~CommitCreate(r), ~MarkOtpDeliveryFailed(r)
        PROVE status'[ch] = status[ch]
    BY <2>4 DEF RequestStep, AssertCooldown, AssertPhoneLimit, AssertIpLimit, BeginCreate,
       StartUpdate, LockPending, Delivered, NotDelivered, FailRequest
  <2>5. ASSUME NEW a \in Attempts, AttemptStep(a), ~CountAttempt(a), ~Consume(a)
        PROVE status'[ch] = status[ch]
    BY <2>5 DEF AttemptStep, BeginAttempt, SelectForUpdate, RejectAttempt, RollbackInactive,
       FailAttempt
  <2>6. ASSUME (\E p \in Phones : SetUserActive(p)) \/ Tick
        PROVE status'[ch] = status[ch]
    BY <2>6 DEF SetUserActive, Tick
  <2> QED BY <2>1, <2>2, <2>3, <2>4, <2>5, <2>6 DEF Next
<1> QED BY <1>1, Invariance, PTL DEF Spec, FinalStatuses

-----------------------------------------------------------------------------
\* A request that replaces rows of a phone has seen every pending one ...
SeenAll ==
  \A r \in Requests : rpc[r] \in {"lock", "insert"} => PendingOf(rphone[r]) \subseteq rseen[r]

\* ... for nobody else creates one: the cooldown it has taken still runs.
CooldownHeld ==
  /\ \A r \in Requests : Creating(r) => cooldown[rphone[r]] > now
  /\ \A r, q \in Requests : Creating(r) /\ Creating(q) /\ rphone[r] = rphone[q] => r = q

AtMostOnePending ==
  \A c, d \in Challenges :
    status[c] = "pending" /\ status[d] = "pending" /\ phone[c] = phone[d] => c = d

PromptInv == SeenAll /\ CooldownHeld /\ AtMostOnePending

\* A step that makes no challenge pending and takes no cooldown.
LEMMA CalmStep ==
  ASSUME PromptInv, UNCHANGED <<now, cooldown>>,
         \A c \in Challenges : status'[c] = "pending" =>
           status[c] = "pending" /\ phone'[c] = phone[c],
         \A r \in Requests : Creating(r)' => Creating(r) /\ rphone'[r] = rphone[r],
         \A r \in Requests : rpc'[r] \in {"lock", "insert"} =>
           rpc[r] \in {"lock", "insert"} /\ rseen'[r] = rseen[r]
  PROVE  PromptInv'
<1>1. SeenAll'
  BY DEF PromptInv, SeenAll, PendingOf, Creating
<1>2. CooldownHeld'
  BY DEF PromptInv, CooldownHeld
<1>3. AtMostOnePending'
  BY DEF PromptInv, AtMostOnePending
<1> QED BY <1>1, <1>2, <1>3 DEF PromptInv

\* As long as requests are prompt, every step keeps what the cooldown guarantees.
LEMMA PromptStep ==
  ASSUME Prompt, IInv, PromptInv, [Next]_vars
  PROVE  PromptInv'
<1> USE OtpAssumption DEF redis, rows, requests, attempts, IInv, TypeOK, RequestInv, AttemptInv
<1>1. ASSUME NEW r \in Requests, NEW p \in Phones, NEW ip \in Ips, AssertCooldown(r, p, ip)
      PROVE PromptInv'
  <2>1. SeenAll' /\ AtMostOnePending'
    BY <1>1 DEF AssertCooldown, PromptInv, SeenAll, AtMostOnePending, PendingOf
  <2>2. \A q \in Requests : q # r /\ Creating(q) => rphone[q] # p
    BY <1>1 DEF AssertCooldown, CooldownOver, PromptInv, CooldownHeld, Creating
  <2>3. CooldownHeld'
    BY <1>1, <2>2 DEF AssertCooldown, PromptInv, CooldownHeld, Creating
  <2> QED BY <2>1, <2>3 DEF PromptInv
<1>2. ASSUME NEW r \in Requests, StartUpdate(r) PROVE PromptInv'
  BY <1>2
     DEF StartUpdate, PromptInv, SeenAll, CooldownHeld, AtMostOnePending, PendingOf, Creating
<1>3. ASSUME NEW r \in Requests, LockPending(r) PROVE PromptInv'
  BY <1>3
     DEF LockPending, StillPending, PromptInv, SeenAll, CooldownHeld, AtMostOnePending,
         PendingOf, Creating
<1>4. ASSUME NEW r \in Requests, CommitCreate(r) PROVE PromptInv'
  <2> DEFINE new == rchallenge[r]
  <2>1. /\ new \in Challenges /\ status'[new] = "pending" /\ phone'[new] = rphone[r]
        /\ \A c \in Challenges : c # new /\ status'[c] = "pending" =>
             status[c] = "pending" /\ phone'[c] = phone[c] /\ c \notin rseen[r]
        /\ UNCHANGED <<now, cooldown, rphone, rseen>>
        /\ rpc'[r] = "deliver" /\ \A q \in Requests : q # r => rpc'[q] = rpc[q]
    BY <1>4 DEF CommitCreate
  <2>2. \A c \in Challenges : c # new /\ status'[c] = "pending" => phone[c] # rphone[r]
    BY <1>4, <2>1 DEF CommitCreate, PromptInv, SeenAll, PendingOf
  <2>3. \A q \in Requests : q # r /\ Creating(q) => rphone[q] # rphone[r]
    BY <1>4 DEF CommitCreate, PromptInv, CooldownHeld, Creating
  <2>4. AtMostOnePending'
    BY <2>1, <2>2 DEF PromptInv, AtMostOnePending
  <2>5. SeenAll'
    BY <2>1, <2>2, <2>3 DEF PromptInv, SeenAll, PendingOf, Creating
  <2>6. CooldownHeld'
    BY <2>1 DEF PromptInv, CooldownHeld, Creating
  <2> QED BY <2>4, <2>5, <2>6 DEF PromptInv
<1>5. CASE Tick
  BY <1>5
     DEF Tick, PromptInv, SeenAll, CooldownHeld, AtMostOnePending, PendingOf, Creating
<1>6. ASSUME NEW r \in Requests,
             \/ AssertPhoneLimit(r) \/ AssertIpLimit(r)
             \/ \E ch \in Challenges : BeginCreate(r, ch)
             \/ Delivered(r) \/ NotDelivered(r) \/ MarkOtpDeliveryFailed(r) \/ FailRequest(r)
      PROVE PromptInv'
  <2>1. UNCHANGED <<now, cooldown, phone>>
    BY <1>6
       DEF AssertPhoneLimit, AssertIpLimit, BeginCreate, Delivered, NotDelivered,
           MarkOtpDeliveryFailed, FailRequest
  <2>2. \A c \in Challenges : status'[c] = "pending" => status[c] = "pending"
    BY <1>6
       DEF AssertPhoneLimit, AssertIpLimit, BeginCreate, Delivered, NotDelivered,
           MarkOtpDeliveryFailed, FailRequest
  <2>3. \A q \in Requests :
          /\ Creating(q)' => Creating(q) /\ rphone'[q] = rphone[q]
          /\ rpc'[q] \in {"lock", "insert"} =>
               rpc[q] \in {"lock", "insert"} /\ rseen'[q] = rseen[q]
    BY <1>6
       DEF AssertPhoneLimit, AssertIpLimit, OverLimit, BeginCreate, Delivered, NotDelivered,
           MarkOtpDeliveryFailed, FailRequest, EndRequest, Creating
  <2> QED BY <2>1, <2>2, <2>3, CalmStep
<1>7. ASSUME NEW a \in Attempts, AttemptStep(a) PROVE PromptInv'
  <2>1. UNCHANGED <<now, cooldown, phone, rpc, rphone, rseen>>
    BY <1>7
       DEF AttemptStep, BeginAttempt, SelectForUpdate, RejectAttempt, CountAttempt, Consume,
           RollbackInactive, FailAttempt
  <2>2. \A c \in Challenges : status'[c] = "pending" => status[c] = "pending"
    BY <1>7
       DEF AttemptStep, BeginAttempt, SelectForUpdate, RejectAttempt, CountAttempt, Consume,
           RollbackInactive, FailAttempt
  <2> QED BY <2>1, <2>2, CalmStep DEF Creating
<1>8. CASE UNCHANGED vars \/ \E p \in Phones : SetUserActive(p)
  BY <1>8, CalmStep DEF vars, SetUserActive, Creating
<1> QED
  BY <1>1, <1>2, <1>3, <1>4, <1>5, <1>6, <1>7, <1>8 DEF Next, RequestStep

\* As long as no request stalls past the cooldown, a phone has one usable code.
THEOREM OnePendingPerPhoneHolds ==
  ASSUME Prompt
  PROVE  Spec => []OnePendingPerPhone
<1>1. Init => PromptInv
  BY DEF Init, PromptInv, SeenAll, CooldownHeld, AtMostOnePending, Creating
<1>2. IInv /\ PromptInv /\ [Next]_vars => PromptInv'
  BY PromptStep
<1>3. PromptInv => OnePendingPerPhone
  <2> SUFFICES ASSUME PromptInv, NEW p \in Phones PROVE Cardinality(PendingOf(p)) <= 1
    BY DEF OnePendingPerPhone
  <2>1. CASE PendingOf(p) = {}
    BY <2>1, FS_EmptySet
  <2>2. CASE \E c \in Challenges : PendingOf(p) = {c}
    BY <2>2, FS_Singleton
  <2> QED BY <2>1, <2>2 DEF PromptInv, AtMostOnePending, PendingOf
<1> QED BY <1>1, <1>2, <1>3, Invariance, PTL DEF Spec

-----------------------------------------------------------------------------
(***************************************************************************)
(* The refinement.                                                         *)
(***************************************************************************)
\* The mapped state reads the status, the guesses and the logins and nothing else.
LEMMA SameCodes ==
  ASSUME UNCHANGED <<status, tries, logins>>
  PROVE  UNCHANGED Codes!cvars
BY DEF Codes!cvars, lifeBar, leftBar

\* A commit that changes the row of one challenge changes the mapped state there alone.
LEMMA OneRow ==
  ASSUME NEW ch \in Challenges, TypeOK, TypeOK',
         \A c \in Challenges : c # ch => status'[c] = status[c] /\ tries'[c] = tries[c]
  PROVE  /\ lifeBar' = [lifeBar EXCEPT ![ch] = Life[status'[ch]]]
         /\ leftBar' = [leftBar EXCEPT ![ch] =
                          IF status'[ch] = "pending" THEN MaxAttempts - tries'[ch] ELSE 0]
BY DEF lifeBar, leftBar

\* Every step of the requests and attempts is a change of one code or changes none.
LEMMA RefinementStep ==
  IInv /\ IInv' /\ [Next]_vars => [Codes!CodesNext]_(Codes!cvars)
<1> SUFFICES ASSUME IInv, IInv', [Next]_vars PROVE [Codes!CodesNext]_(Codes!cvars)
  OBVIOUS
<1>0. TypeOK /\ TypeOK'
  BY DEF IInv
<1> USE OtpAssumption DEF rows, redis
<1>1. ASSUME NEW r \in Requests, CommitCreate(r)
      PROVE  Codes!CodesNext
  <2> DEFINE new == rchallenge[r]
             replaced == rseen[r]
  <2>1. /\ new \in Challenges /\ status[new] = "absent" /\ tries[new] = 0
        /\ \A ch \in replaced : ch \in Challenges /\ status[ch] = "pending"
    BY <1>0, <1>1 DEF IInv, RequestInv, Fresh, CommitCreate, TypeOK
  <2>2. /\ status' = [ch \in Challenges |-> IF ch = new THEN "pending"
                                            ELSE IF ch \in replaced THEN "invalidated"
                                            ELSE status[ch]]
        /\ UNCHANGED <<tries, logins>>
    BY <1>1 DEF CommitCreate
  <2> HIDE DEF new, replaced
  <2>3. lifeBar' = [ch \in Challenges |-> IF ch = new THEN "open"
                                         ELSE IF ch \in replaced THEN "dead" ELSE lifeBar[ch]]
    BY <2>1, <2>2 DEF lifeBar, Life
  <2>4. leftBar' = [ch \in Challenges |-> IF ch = new THEN MaxAttempts
                                         ELSE IF ch \in replaced THEN 0 ELSE leftBar[ch]]
    BY <2>1, <2>2 DEF leftBar
  <2>5. lifeBar[new] = "unissued" /\ replaced \in SUBSET Codes!Open
    BY <2>1 DEF lifeBar, Life, Codes!Open
  <2>6. Codes!Issue(new)
    BY <2>2, <2>3, <2>4, <2>5 DEF Codes!Issue
  <2>7. QED
    BY <2>1, <2>6 DEF Codes!CodesNext
<1>2. ASSUME NEW r \in Requests, MarkOtpDeliveryFailed(r)
      PROVE  [Codes!CodesNext]_(Codes!cvars)
  <2> DEFINE ch == rchallenge[r]
  <2>1. /\ ch \in Challenges /\ UNCHANGED <<tries, logins>>
        /\ \A c \in Challenges : c # ch => status'[c] = status[c]
        /\ status'[ch] = IF status[ch] = "pending" THEN "delivery_failed" ELSE status[ch]
    BY <1>0, <1>2 DEF IInv, RequestInv, MarkOtpDeliveryFailed, TypeOK
  <2> HIDE DEF ch
  <2>2. CASE status[ch] = "pending"
    <3>1. lifeBar[ch] = "open" /\ lifeBar' = [lifeBar EXCEPT ![ch] = "dead"]
      BY <1>0, <2>1, <2>2, OneRow DEF lifeBar, Life
    <3>2. leftBar' = [leftBar EXCEPT ![ch] = 0]
      BY <1>0, <2>1, <2>2, OneRow
    <3>3. Codes!Withdraw(ch)
      BY <2>1, <3>1, <3>2 DEF Codes!Withdraw
    <3>4. QED
      BY <2>1, <3>3 DEF Codes!CodesNext
  <2>3. CASE status[ch] # "pending"
    <3>1. status' = status
      BY <1>0, <2>1, <2>3 DEF TypeOK
    <3>2. QED
      BY <2>1, <3>1, SameCodes
  <2>4. QED
    BY <2>2, <2>3
<1>3. ASSUME NEW a \in Attempts, CountAttempt(a)
      PROVE  Codes!CodesNext
  <2> DEFINE ch == achallenge[a]
  <2>1. /\ ch \in Challenges /\ status[ch] = "pending"
        /\ tries[ch] \in Nat /\ tries[ch] < MaxAttempts /\ UNCHANGED logins
        /\ \A c \in Challenges : c # ch => status'[c] = status[c] /\ tries'[c] = tries[c]
        /\ tries'[ch] = tries[ch] + 1
        /\ status'[ch] = IF tries[ch] + 1 >= MaxAttempts THEN "invalidated" ELSE "pending"
    BY <1>0, <1>3 DEF IInv, AttemptInv, CountAttempt, TypeOK
  <2> HIDE DEF ch
  <2>2. /\ lifeBar[ch] = "open" /\ leftBar[ch] = MaxAttempts - tries[ch]
        /\ lifeBar' = [lifeBar EXCEPT ![ch] = Life[status'[ch]]]
        /\ leftBar' = [leftBar EXCEPT ![ch] =
                         IF status'[ch] = "pending" THEN MaxAttempts - tries'[ch] ELSE 0]
    <3>1. lifeBar[ch] = "open" /\ leftBar[ch] = MaxAttempts - tries[ch]
      BY <2>1 DEF lifeBar, leftBar, Life
    <3>2. QED
      BY <1>0, <2>1, <3>1, OneRow
  <2>3. leftBar[ch] > 0 /\ (leftBar[ch] = 1 <=> status'[ch] = "invalidated")
    BY <2>1, <2>2
  <2>4. Life[status'[ch]] = IF leftBar[ch] = 1 THEN "dead" ELSE lifeBar[ch]
    BY <2>1, <2>2, <2>3 DEF Life
  <2>5. (IF status'[ch] = "pending" THEN MaxAttempts - tries'[ch] ELSE 0) = leftBar[ch] - 1
    BY <2>1, <2>2
  <2>6. Codes!GuessWrong(ch)
    BY <2>1, <2>2, <2>3, <2>4, <2>5 DEF Codes!GuessWrong
  <2>7. QED
    BY <2>1, <2>6 DEF Codes!CodesNext
<1>4. ASSUME NEW a \in Attempts, Consume(a)
      PROVE  Codes!CodesNext
  <2> DEFINE ch == achallenge[a]
  <2>1. /\ ch \in Challenges /\ status[ch] = "pending"
        /\ UNCHANGED tries /\ logins' = [logins EXCEPT ![ch] = @ + 1]
        /\ \A c \in Challenges : c # ch => status'[c] = status[c]
        /\ status'[ch] = "consumed"
    BY <1>0, <1>4 DEF IInv, AttemptInv, Consume, TypeOK
  <2> HIDE DEF ch
  <2>2. lifeBar[ch] = "open" /\ lifeBar' = [lifeBar EXCEPT ![ch] = "used"]
    BY <1>0, <2>1, OneRow DEF lifeBar, Life
  <2>3. leftBar' = [leftBar EXCEPT ![ch] = 0]
    BY <1>0, <2>1, OneRow
  <2>4. Codes!GuessRight(ch)
    BY <2>1, <2>2, <2>3 DEF Codes!GuessRight
  <2>5. QED
    BY <2>1, <2>4 DEF Codes!CodesNext
<1>5. ASSUME NEW r \in Requests,
             \/ \E p \in Phones, ip \in Ips : AssertCooldown(r, p, ip)
             \/ AssertPhoneLimit(r) \/ AssertIpLimit(r)
             \/ \E ch \in Challenges : BeginCreate(r, ch)
             \/ StartUpdate(r) \/ LockPending(r) \/ Delivered(r) \/ NotDelivered(r) \/ FailRequest(r)
      PROVE  UNCHANGED <<status, tries, logins>>
  BY <1>5 DEF AssertCooldown, AssertPhoneLimit, AssertIpLimit, BeginCreate, StartUpdate,
     LockPending, Delivered, NotDelivered, FailRequest
<1>6. ASSUME NEW a \in Attempts,
             \/ \E ch \in Challenges, right \in BOOLEAN : BeginAttempt(a, ch, right)
             \/ SelectForUpdate(a) \/ RejectAttempt(a) \/ RollbackInactive(a) \/ FailAttempt(a)
      PROVE  UNCHANGED <<status, tries, logins>>
  BY <1>6 DEF BeginAttempt, SelectForUpdate, RejectAttempt, RollbackInactive, FailAttempt
<1>7. ASSUME (\E p \in Phones : SetUserActive(p)) \/ Tick \/ UNCHANGED vars
      PROVE  UNCHANGED <<status, tries, logins>>
  BY <1>7 DEF SetUserActive, Tick, vars
<1>8. QED
  BY <1>1, <1>2, <1>3, <1>4, <1>5, <1>6, <1>7, SameCodes DEF Next, RequestStep, AttemptStep

\* The rows, as overlapping requests and attempts change them, implement one-time codes.
THEOREM Refinement == Spec => ImplementsOneTimeCodes
<1>1. Init => Codes!CodesInit
  BY OtpAssumption DEF Init, Codes!CodesInit, lifeBar, leftBar, Life
<1>2. QED
  BY <1>1, RefinementStep, Invariance, PTL DEF Spec, ImplementsOneTimeCodes, Codes!CodesSpec

-----------------------------------------------------------------------------
\* The converse of AttemptInv and RequestInv: a row is locked only by a transaction that is
\* about to write it.
NoStrayLock ==
  \A ch \in Challenges :
    /\ \A r \in Requests : lock[ch] = r => rpc[r] = "insert" /\ ch \in rseen[r]
    /\ \A a \in Attempts : lock[ch] = a => apc[a] \in {"count", "consume"} /\ achallenge[a] = ch

\* A transaction that ends gives its locks back, and takes nobody else's.
LEMMA ReleaseFrees ==
  ASSUME TypeOK, NEW x \in Requests \union Attempts, Release(x)
  PROVE  \A ch \in Challenges :
           lock'[ch] # x /\ \A y \in Requests \union Attempts : lock'[ch] = y => lock[ch] = y
BY OtpAssumption DEF TypeOK, Release

\* No step leaves a lock behind.
LEMMA NoStrayLockStep == IInv /\ NoStrayLock /\ [Next]_vars => NoStrayLock'
<1> SUFFICES ASSUME IInv, NoStrayLock, [Next]_vars PROVE NoStrayLock'
  OBVIOUS
<1>0. TypeOK
  BY DEF IInv
<1> USE OtpAssumption DEF redis, rows, requests, attempts
<1>1. ASSUME NEW r \in Requests, NEW p \in Phones, NEW ip \in Ips, AssertCooldown(r, p, ip)
      PROVE  NoStrayLock'
  BY <1>0, <1>1 DEF AssertCooldown, NoStrayLock, TypeOK
<1>2. ASSUME NEW r \in Requests, AssertPhoneLimit(r) \/ AssertIpLimit(r)
      PROVE  NoStrayLock'
  BY <1>0, <1>2 DEF AssertPhoneLimit, AssertIpLimit, OverLimit, EndRequest, NoStrayLock, TypeOK
<1>3. ASSUME NEW r \in Requests, (\E ch \in Challenges : BeginCreate(r, ch)) \/ StartUpdate(r)
      PROVE  NoStrayLock'
  BY <1>0, <1>3 DEF BeginCreate, StartUpdate, NoStrayLock, TypeOK
<1>4. ASSUME NEW r \in Requests, LockPending(r)
      PROVE  NoStrayLock'
  <2>1. /\ rpc[r] = "lock" /\ rpc'[r] = "insert" /\ rseen'[r] = StillPending(r)
        /\ \A ch \in Challenges : lock'[ch] = IF ch \in StillPending(r) THEN r ELSE lock[ch]
        /\ \A q \in Requests : q # r => rpc'[q] = rpc[q] /\ rseen'[q] = rseen[q]
        /\ UNCHANGED <<apc, achallenge>>
    BY <1>0, <1>4 DEF LockPending, TypeOK
  <2>2. QED
    BY <2>1 DEF NoStrayLock
<1>5. ASSUME NEW r \in Requests, CommitCreate(r)
      PROVE  NoStrayLock'
  BY <1>0, <1>5, ReleaseFrees DEF CommitCreate, NoStrayLock, TypeOK
<1>6. ASSUME NEW r \in Requests,
             Delivered(r) \/ NotDelivered(r) \/ MarkOtpDeliveryFailed(r)
      PROVE  NoStrayLock'
  BY <1>0, <1>6
     DEF Delivered, NotDelivered, MarkOtpDeliveryFailed, EndRequest, NoStrayLock, TypeOK
<1>7. ASSUME NEW r \in Requests, FailRequest(r)
      PROVE  NoStrayLock'
  BY <1>0, <1>7, ReleaseFrees DEF FailRequest, EndRequest, NoStrayLock, TypeOK
<1>8. ASSUME NEW a \in Attempts, NEW ch \in Challenges, NEW right \in BOOLEAN,
             BeginAttempt(a, ch, right)
      PROVE  NoStrayLock'
  BY <1>0, <1>8 DEF BeginAttempt, NoStrayLock, TypeOK
<1>9. ASSUME NEW a \in Attempts, SelectForUpdate(a)
      PROVE  NoStrayLock'
  BY <1>0, <1>9 DEF SelectForUpdate, IInv, AttemptInv, NoStrayLock, TypeOK
<1>10. ASSUME NEW a \in Attempts, RejectAttempt(a)
       PROVE  NoStrayLock'
  BY <1>0, <1>10 DEF RejectAttempt, EndAttempt, NoStrayLock, TypeOK
<1>11. ASSUME NEW a \in Attempts,
              CountAttempt(a) \/ Consume(a) \/ RollbackInactive(a) \/ FailAttempt(a)
       PROVE  NoStrayLock'
  <2>1. /\ Release(a) /\ UNCHANGED <<rpc, rseen>>
        /\ \A b \in Attempts : b # a => apc'[b] = apc[b] /\ achallenge'[b] = achallenge[b]
    BY <1>0, <1>11
       DEF CountAttempt, Consume, RollbackInactive, FailAttempt, EndAttempt, TypeOK
  <2>2. QED
    BY <1>0, <2>1, ReleaseFrees DEF NoStrayLock
<1>12. CASE (\E p \in Phones : SetUserActive(p)) \/ Tick \/ UNCHANGED vars
  BY <1>12 DEF SetUserActive, Tick, vars, NoStrayLock
<1>13. QED
  BY <1>1, <1>2, <1>3, <1>4, <1>5, <1>6, <1>7, <1>8, <1>9, <1>10, <1>11, <1>12
     DEF Next, RequestStep, AttemptStep

\* A challenge's row is locked only by a transaction that has yet to write it, with or without
\* faults: no refusal, rollback or broken connection leaves a code locked.
THEOREM NoStrayLockHolds == Spec => []NoStrayLock
<1>1. Init => NoStrayLock
  BY OtpAssumption DEF Init, NoStrayLock
<1>2. QED
  BY <1>1, NoStrayLockStep, Invariance, PTL DEF Spec
=============================================================================
