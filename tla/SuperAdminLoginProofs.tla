------------------------ MODULE SuperAdminLoginProofs ------------------------
(***************************************************************************)
(* What the factor's row lock and the Redis counters guarantee, for any    *)
(* number of administrators, challenges, requests and logins.              *)
(***************************************************************************)
EXTENDS SuperAdminLogin, TLAPS

InFactor == {"verify", "step", "recover"}
Accepted == {"delete", "session"}

\* A login past its first read has a user and a challenge; inside the factor's transaction
\* it holds the row and its read is current; past verifyTotp the time has not gone back.
LoginInv ==
  \A l \in Logins :
    /\ lpc[l] # "idle" => ladmin[l] \in Admins /\ lchallenge[l] \in Challenges
    /\ lpc[l] \in InFactor => factorLock[ladmin[l]] = l
    /\ lpc[l] \in {"verify", "step"} =>
         levidence[l] \in Steps /\ lread[l] = lastStep[ladmin[l]]
    /\ lpc[l] = "step" => /\ levidence[l] <= now + ldelta[l]
                          /\ Prompt => levidence[l] = now + ldelta[l]

RequestInv == \A r \in Requests : rpc[r] = "ipLimit" => rip[r] \in Ips

\* Codes that open one session at most: time steps only where logins are prompt.
SingleUse(e) == e \in RecoveryCodes \/ (Prompt /\ e \in Steps)

Spent(u, e) ==
  \/ e \in RecoveryCodes /\ used[<<u, e>>]
  \/ e \in Steps /\ e <= lastStep[u]

OpenedOnce(u, e) ==
  /\ opened[<<u, e>>] <= 1
  /\ ~Spent(u, e) => opened[<<u, e>>] = 0

\* An accepted code is spent, has opened nothing yet, and belongs to one login.
EvidenceInv ==
  /\ \A u \in Admins : \A e \in Evidence : SingleUse(e) => OpenedOnce(u, e)
  /\ \A l \in Logins : lpc[l] \in Accepted /\ SingleUse(levidence[l]) =>
       Spent(ladmin[l], levidence[l]) /\ opened[<<ladmin[l], levidence[l]>>] = 0
  /\ \A l, m \in Logins :
       /\ lpc[l] \in Accepted /\ lpc[m] \in Accepted /\ SingleUse(levidence[l])
       /\ ladmin[l] = ladmin[m] /\ levidence[l] = levidence[m]
       => l = m

\* The guess counter runs as long as the challenge, and counts every guess.
BudgetInv ==
  /\ \A ch \in Challenges :
       /\ mfaExpires[ch] <= now + Lifetime
       /\ counterExpires[ch] > 0 => 0 < mfaExpires[ch] /\ mfaExpires[ch] <= counterExpires[ch]
       /\ guesses[ch] > 0 => counterExpires[ch] > 0
       /\ guesses[ch] <= counter[ch]
       /\ guesses[ch] <= GuessLimit
  /\ \A l \in Logins : lpc[l] = "limit" => mfaExpires[lchallenge[l]] > now

IInv == TypeOK /\ LoginInv /\ RequestInv /\ EvidenceInv /\ (Prompt => BudgetInv)

\* Frames: steps that leave a part's variables alone.
LEMMA EvidenceKept ==
  ASSUME IInv, UNCHANGED <<factors, opened>>,
         \A l \in Logins : lpc'[l] \in Accepted =>
           lpc[l] \in Accepted /\ ladmin'[l] = ladmin[l] /\ levidence'[l] = levidence[l]
  PROVE  EvidenceInv'
BY DEF IInv, factors, EvidenceInv, SingleUse, Spent, OpenedOnce

\* The same for the guess counters; other keys may change.
LEMMA BudgetKept ==
  ASSUME IInv, UNCHANGED <<now, guesses, mfaExpires>>,
         \A ch \in Challenges :
           counter'[ch] = counter[ch] /\ counterExpires'[ch] = counterExpires[ch],
         \A l \in Logins : lpc'[l] = "limit" =>
           lpc[l] = "limit" /\ lchallenge'[l] = lchallenge[l]
  PROVE  Prompt => BudgetInv'
BY DEF IInv, BudgetInv

\* INCR on a user's or an address's key.
LEMMA OtherCounters ==
  ASSUME TypeOK, NEW k \in Admins \union Ips, NEW window \in Nat, Count(k, window)
  PROVE  /\ counter' \in [Keys -> Nat] /\ counterExpires' \in [Keys -> Nat]
         /\ \A ch \in Challenges :
              counter'[ch] = counter[ch] /\ counterExpires'[ch] = counterExpires[ch]
BY LoginAssumption DEF TypeOK, Count, Incremented, CountCap, Keys

\* Every step of a request with a password keeps the invariant.
LEMMA RequestKeeps ==
  ASSUME IInv, NEW r \in Requests, RequestStep(r)
  PROVE  IInv'
<1> USE LoginAssumption DEF redis, limits, challenges, factors, history, logins, locals
<1>1. ASSUME NEW u \in Admins, NEW ip \in Ips, AssertIdentityLimit(r, u, ip) PROVE IInv'
  <2>1. u \in Admins \union Ips /\ Window \in Nat /\ Count(u, Window)
    BY <1>1 DEF IInv, RequestInv, AssertIdentityLimit
  <2>2. TypeOK'
    BY <1>1, <2>1, OtherCounters DEF IInv, TypeOK, AssertIdentityLimit, requests
  <2>3. LoginInv' /\ RequestInv'
    BY <1>1 DEF IInv, TypeOK, LoginInv, RequestInv, AssertIdentityLimit, requests
  <2>4. EvidenceInv'
    BY <1>1, EvidenceKept DEF AssertIdentityLimit
  <2>5. Prompt => BudgetInv'
    BY <1>1, <2>1, OtherCounters, BudgetKept DEF IInv, AssertIdentityLimit
  <2> QED BY <2>2, <2>3, <2>4, <2>5 DEF IInv
<1>2. ASSUME AssertIpLimit(r) PROVE IInv'
  <2>1. rip[r] \in Admins \union Ips /\ Window \in Nat /\ Count(rip[r], Window)
    BY <1>2 DEF IInv, RequestInv, AssertIpLimit
  <2>2. TypeOK'
    BY <1>2, <2>1, OtherCounters DEF IInv, TypeOK, AssertIpLimit, requests, EndRequest
  <2>3. LoginInv' /\ RequestInv'
    BY <1>2 DEF IInv, TypeOK, LoginInv, RequestInv, AssertIpLimit, requests, EndRequest
  <2>4. EvidenceInv'
    BY <1>2, EvidenceKept DEF AssertIpLimit
  <2>5. Prompt => BudgetInv'
    BY <1>2, <2>1, OtherCounters, BudgetKept DEF IInv, AssertIpLimit
  <2> QED BY <2>2, <2>3, <2>4, <2>5 DEF IInv
<1>3. ASSUME FindPassword(r) PROVE IInv'
  <2>1. TypeOK'
    BY <1>3 DEF IInv, TypeOK, FindPassword, requests
  <2>2. LoginInv' /\ RequestInv'
    BY <1>3 DEF IInv, TypeOK, LoginInv, RequestInv, FindPassword, requests
  <2>3. EvidenceInv'
    BY <1>3, EvidenceKept DEF FindPassword
  <2>4. Prompt => BudgetInv'
    BY <1>3, BudgetKept DEF FindPassword
  <2> QED BY <2>1, <2>2, <2>3, <2>4 DEF IInv
<1>4. ASSUME RefusePassword(r) PROVE IInv'
  <2>1. TypeOK'
    BY <1>4 DEF IInv, TypeOK, RefusePassword, requests, EndRequest
  <2>2. LoginInv' /\ RequestInv'
    BY <1>4 DEF IInv, TypeOK, LoginInv, RequestInv, RefusePassword, requests, EndRequest
  <2>3. EvidenceInv'
    BY <1>4, EvidenceKept DEF RefusePassword
  <2>4. Prompt => BudgetInv'
    BY <1>4, BudgetKept DEF RefusePassword
  <2> QED BY <2>1, <2>2, <2>3, <2>4 DEF IInv
<1>5. ASSUME NEW ch \in Challenges, StoreChallenge(r, ch) PROVE IInv'
  <2>1. TypeOK'
    BY <1>5 DEF IInv, TypeOK, StoreChallenge, requests, EndRequest
  <2>2. LoginInv' /\ RequestInv'
    BY <1>5 DEF IInv, TypeOK, LoginInv, RequestInv, StoreChallenge, requests, EndRequest
  <2>3. EvidenceInv'
    BY <1>5, EvidenceKept DEF StoreChallenge
  <2>4. Prompt => BudgetInv'
    BY <1>5 DEF IInv, TypeOK, BudgetInv, StoreChallenge, requests, EndRequest
  <2> QED BY <2>1, <2>2, <2>3, <2>4 DEF IInv
<1>6. ASSUME FailRequest(r) PROVE IInv'
  <2>1. TypeOK'
    BY <1>6 DEF IInv, TypeOK, FailRequest, requests, EndRequest
  <2>2. LoginInv' /\ RequestInv'
    BY <1>6 DEF IInv, TypeOK, LoginInv, RequestInv, FailRequest, requests, EndRequest
  <2>3. EvidenceInv'
    BY <1>6, EvidenceKept DEF FailRequest
  <2>4. Prompt => BudgetInv'
    BY <1>6, BudgetKept DEF FailRequest
  <2> QED BY <2>1, <2>2, <2>3, <2>4 DEF IInv
<1> QED BY <1>1, <1>2, <1>3, <1>4, <1>5, <1>6 DEF RequestStep

\* COMMIT of the factor's transaction: the code was not spent, and now is.
LEMMA AcceptKeepsEvidence ==
  ASSUME IInv, NEW l \in Logins, Accept(l),
         ladmin[l] \in Admins, levidence[l] \in Evidence,
         SingleUse(levidence[l]) => ~Spent(ladmin[l], levidence[l]),
         SingleUse(levidence[l]) => Spent(ladmin[l], levidence[l])',
         \A v \in Admins : \A e \in Evidence : Spent(v, e) => Spent(v, e)'
  PROVE  EvidenceInv'
<1> USE DEF Accepted, locals
<1>1. /\ \A m \in Logins : m # l => UNCHANGED <<lpc[m], ladmin[m], levidence[m]>>
      /\ UNCHANGED <<opened, ladmin, levidence>> /\ lpc'[l] = "delete"
  BY DEF Accept, IInv, TypeOK
<1>2. \A v \in Admins : \A e \in Evidence : SingleUse(e) => OpenedOnce(v, e)'
  BY <1>1 DEF IInv, EvidenceInv, OpenedOnce, Spent
<1>3. \A m \in Logins : m # l /\ lpc[m] \in Accepted /\ SingleUse(levidence[l]) =>
         ~(ladmin[m] = ladmin[l] /\ levidence[m] = levidence[l])
  BY DEF IInv, EvidenceInv
<1>4. SingleUse(levidence[l]) => opened[<<ladmin[l], levidence[l]>>] = 0
  BY DEF IInv, EvidenceInv, OpenedOnce
<1>5. \A m \in Logins : lpc'[m] \in Accepted /\ SingleUse(levidence[m]) =>
         Spent(ladmin[m], levidence[m])' /\ opened[<<ladmin[m], levidence[m]>>] = 0
  BY <1>1, <1>4 DEF IInv, EvidenceInv, LoginInv, TypeOK, Spent
<1>6. \A a, m \in Logins :
         /\ lpc'[a] \in Accepted /\ lpc'[m] \in Accepted /\ SingleUse(levidence[a])
         /\ ladmin[a] = ladmin[m] /\ levidence[a] = levidence[m]
         => a = m
  BY <1>1, <1>3 DEF IInv, EvidenceInv
<1> QED BY <1>1, <1>2, <1>5, <1>6 DEF EvidenceInv, SingleUse, OpenedOnce, Spent

\* Every step of a login keeps the invariant.
LEMMA LoginKeeps ==
  ASSUME IInv, NEW l \in Logins, LoginStep(l)
  PROVE  IInv'
<1> USE LoginAssumption
    DEF redis, limits, challenges, factors, history, requests, locals, InFactor, Accepted
<1>1. ASSUME NEW ch \in Challenges, NEW e \in Evidence, GetChallenge(l, ch, e) PROVE IInv'
  <2>1. TypeOK'
    BY <1>1 DEF IInv, TypeOK, GetChallenge, Live
  <2>2. LoginInv' /\ RequestInv'
    BY <1>1 DEF IInv, TypeOK, LoginInv, RequestInv, GetChallenge, Live
  <2>3. EvidenceInv'
    BY <1>1, EvidenceKept DEF IInv, TypeOK, GetChallenge, Live
  <2>4. Prompt => BudgetInv'
    BY <1>1 DEF IInv, TypeOK, LoginInv, BudgetInv, GetChallenge, Live
  <2> QED BY <2>1, <2>2, <2>3, <2>4 DEF IInv
<1>2. ASSUME AssertGuessLimit(l) PROVE IInv'
  <2>1. TypeOK'
    <3>1. lchallenge[l] \in Challenges /\ lchallenge[l] \in Keys
      BY <1>2 DEF AssertGuessLimit, IInv, LoginInv, Keys
    <3>2. Incremented(lchallenge[l]) \in Nat
      BY <3>1 DEF Incremented, CountCap, IInv, TypeOK
    <3>3. counter' \in [Keys -> Nat] /\ counterExpires' \in [Keys -> Nat]
      BY <1>2, <3>1, <3>2 DEF AssertGuessLimit, Count, IInv, TypeOK
    <3>4. guesses' \in [Challenges -> Nat]
      BY <1>2, <3>1 DEF AssertGuessLimit, IInv, TypeOK
    <3> QED BY <1>2, <3>3, <3>4 DEF AssertGuessLimit, EndLogin, NoStep, Evidence, IInv, TypeOK
  <2>2. LoginInv' /\ RequestInv'
    BY <1>2
       DEF IInv, TypeOK, LoginInv, RequestInv, AssertGuessLimit, Count, Incremented,
           CountCap, WithinGuessLimit, EndLogin, Keys
  <2>3. EvidenceInv'
    BY <1>2, EvidenceKept
       DEF IInv, TypeOK, AssertGuessLimit, Count, Incremented, CountCap, WithinGuessLimit,
           EndLogin, Keys
  <2>4. Prompt => BudgetInv'
    BY <1>2
       DEF IInv, TypeOK, LoginInv, BudgetInv, AssertGuessLimit, Count, Incremented,
           CountCap, WithinGuessLimit, EndLogin, Keys
  <2> QED BY <2>1, <2>2, <2>3, <2>4 DEF IInv
<1>3. ASSUME RejectUnenrolled(l) PROVE IInv'
  <2>1. TypeOK'
    BY <1>3 DEF IInv, TypeOK, RejectUnenrolled, EndLogin, NoStep, Evidence
  <2>2. LoginInv' /\ RequestInv'
    BY <1>3 DEF IInv, TypeOK, LoginInv, RequestInv, RejectUnenrolled, EndLogin
  <2>3. EvidenceInv'
    BY <1>3, EvidenceKept DEF IInv, TypeOK, RejectUnenrolled, EndLogin
  <2>4. Prompt => BudgetInv'
    BY <1>3, BudgetKept DEF IInv, TypeOK, RejectUnenrolled, EndLogin
  <2> QED BY <2>1, <2>2, <2>3, <2>4 DEF IInv
<1>4. ASSUME LockFactor(l) PROVE IInv'
  <2>1. TypeOK'
    BY <1>4 DEF IInv, TypeOK, LockFactor, ReadFactor, LoginInv, Codes, Pieces
  <2>2. LoginInv' /\ RequestInv'
    BY <1>4 DEF IInv, TypeOK, LoginInv, RequestInv, LockFactor, ReadFactor
  <2>3. EvidenceInv'
    BY <1>4, EvidenceKept DEF IInv, TypeOK, LockFactor, ReadFactor
  <2>4. Prompt => BudgetInv'
    BY <1>4, BudgetKept DEF IInv, TypeOK, LockFactor, ReadFactor
  <2> QED BY <2>1, <2>2, <2>3, <2>4 DEF IInv
<1>5. ASSUME VerifyTotp(l) PROVE IInv'
  <2>1. TypeOK'
    BY <1>5 DEF IInv, TypeOK, VerifyTotp, LoginInv, Codes, Pieces
  <2>2. LoginInv' /\ RequestInv'
    BY <1>5 DEF IInv, TypeOK, LoginInv, RequestInv, VerifyTotp, Steps
  <2>3. EvidenceInv'
    BY <1>5, EvidenceKept DEF IInv, TypeOK, VerifyTotp
  <2>4. Prompt => BudgetInv'
    BY <1>5, BudgetKept DEF IInv, TypeOK, VerifyTotp
  <2> QED BY <2>1, <2>2, <2>3, <2>4 DEF IInv
<1>6. ASSUME RejectTotp(l) PROVE IInv'
  <2>1. TypeOK'
    BY <1>6 DEF IInv, TypeOK, RejectTotp, Rollback, Release, EndLogin, NoStep, Evidence
  <2>2. LoginInv' /\ RequestInv'
    BY <1>6
       DEF IInv, TypeOK, LoginInv, RequestInv, RejectTotp, Rollback, Release, EndLogin
  <2>3. EvidenceInv'
    BY <1>6, EvidenceKept DEF IInv, TypeOK, RejectTotp, Rollback, Release, EndLogin
  <2>4. Prompt => BudgetInv'
    BY <1>6, BudgetKept DEF IInv, TypeOK, RejectTotp, Rollback, Release, EndLogin
  <2> QED BY <2>1, <2>2, <2>3, <2>4 DEF IInv
<1>7. ASSUME StoreTimeStep(l) PROVE IInv'
  <2>1. TypeOK'
    BY <1>7
       DEF IInv, TypeOK, StoreTimeStep, Accept, Release, TimeStep, Replayed, LoginInv,
           Codes, Pieces
  <2>2. LoginInv' /\ RequestInv'
    BY <1>7
       DEF IInv, TypeOK, LoginInv, RequestInv, StoreTimeStep, Accept, Release, TimeStep,
           Replayed
  <2>3. EvidenceInv'
    <3>1. /\ ladmin[l] \in Admins /\ levidence[l] \in Steps
          /\ lread[l] = lastStep[ladmin[l]] /\ lastStep[ladmin[l]] \in Int
          /\ TimeStep(l) \in Int /\ levidence[l] <= TimeStep(l)
          /\ Prompt => levidence[l] = TimeStep(l)
          /\ lastStep[ladmin[l]] < TimeStep(l)
      BY <1>7 DEF StoreTimeStep, Replayed, TimeStep, NoStep, Steps, IInv, TypeOK, LoginInv
    <3>2. SingleUse(levidence[l]) => ~Spent(ladmin[l], levidence[l])
      BY <3>1 DEF SingleUse, Spent, Steps
    <3>3. \A v \in Admins : \A e \in Evidence : Spent(v, e) => Spent(v, e)'
      BY <1>7, <3>1 DEF StoreTimeStep, Spent, Steps, IInv, TypeOK
    <3>4. SingleUse(levidence[l]) => Spent(ladmin[l], levidence[l])'
      BY <1>7, <3>1 DEF StoreTimeStep, Accept, Spent, IInv, TypeOK
    <3> QED BY <1>7, <3>1, <3>2, <3>3, <3>4, AcceptKeepsEvidence DEF StoreTimeStep, Evidence
  <2>4. Prompt => BudgetInv'
    BY <1>7, BudgetKept
       DEF IInv, TypeOK, StoreTimeStep, Accept, Release, TimeStep, Replayed
  <2> QED BY <2>1, <2>2, <2>3, <2>4 DEF IInv
<1>8. ASSUME RejectReplay(l) PROVE IInv'
  <2>1. TypeOK'
    BY <1>8 DEF IInv, TypeOK, RejectReplay, Rollback, Release, EndLogin, NoStep, Evidence
  <2>2. LoginInv' /\ RequestInv'
    BY <1>8
       DEF IInv, TypeOK, LoginInv, RequestInv, RejectReplay, Rollback, Release, EndLogin
  <2>3. EvidenceInv'
    BY <1>8, EvidenceKept DEF IInv, TypeOK, RejectReplay, Rollback, Release, EndLogin
  <2>4. Prompt => BudgetInv'
    BY <1>8, BudgetKept DEF IInv, TypeOK, RejectReplay, Rollback, Release, EndLogin
  <2> QED BY <2>1, <2>2, <2>3, <2>4 DEF IInv
<1>9. ASSUME UseRecoveryCode(l) PROVE IInv'
  <2>1. TypeOK'
    BY <1>9
       DEF IInv, TypeOK, UseRecoveryCode, Accept, Release, Unspent, LoginInv, Codes,
           Pieces
  <2>2. LoginInv' /\ RequestInv'
    BY <1>9
       DEF IInv, TypeOK, LoginInv, RequestInv, UseRecoveryCode, Accept, Release, Unspent
  <2>3. EvidenceInv'
    <3>1. /\ ladmin[l] \in Admins /\ levidence[l] \in RecoveryCodes /\ levidence[l] \notin Steps
          /\ ~used[<<ladmin[l], levidence[l]>>]
      BY <1>9 DEF UseRecoveryCode, Unspent, IInv, LoginInv, Steps
    <3>2. SingleUse(levidence[l]) => ~Spent(ladmin[l], levidence[l])
      BY <3>1 DEF Spent
    <3>3. \A v \in Admins : \A e \in Evidence : Spent(v, e) => Spent(v, e)'
      BY <1>9, <3>1 DEF UseRecoveryCode, Spent, IInv, TypeOK, Codes
    <3>4. SingleUse(levidence[l]) => Spent(ladmin[l], levidence[l])'
      BY <1>9, <3>1 DEF UseRecoveryCode, Accept, Spent, IInv, TypeOK, Codes
    <3> QED BY <1>9, <3>1, <3>2, <3>3, <3>4, AcceptKeepsEvidence DEF UseRecoveryCode, Evidence
  <2>4. Prompt => BudgetInv'
    BY <1>9, BudgetKept DEF IInv, TypeOK, UseRecoveryCode, Accept, Release, Unspent
  <2> QED BY <2>1, <2>2, <2>3, <2>4 DEF IInv
<1>10. ASSUME RejectRecoveryCode(l) PROVE IInv'
  <2>1. TypeOK'
    BY <1>10
       DEF IInv, TypeOK, RejectRecoveryCode, Rollback, Release, EndLogin, NoStep,
           Evidence
  <2>2. LoginInv' /\ RequestInv'
    BY <1>10
       DEF IInv, TypeOK, LoginInv, RequestInv, RejectRecoveryCode, Rollback, Release,
           EndLogin
  <2>3. EvidenceInv'
    BY <1>10, EvidenceKept
       DEF IInv, TypeOK, RejectRecoveryCode, Rollback, Release, EndLogin
  <2>4. Prompt => BudgetInv'
    BY <1>10, BudgetKept DEF IInv, TypeOK, RejectRecoveryCode, Rollback, Release, EndLogin
  <2> QED BY <2>1, <2>2, <2>3, <2>4 DEF IInv
<1>11. ASSUME DeleteChallenge(l) PROVE IInv'
  <2>1. TypeOK'
    BY <1>11 DEF IInv, TypeOK, DeleteChallenge
  <2>2. LoginInv' /\ RequestInv'
    BY <1>11 DEF IInv, TypeOK, LoginInv, RequestInv, DeleteChallenge
  <2>3. EvidenceInv'
    BY <1>11, EvidenceKept DEF IInv, TypeOK, DeleteChallenge
  <2>4. Prompt => BudgetInv'
    BY <1>11, BudgetKept DEF IInv, TypeOK, DeleteChallenge
  <2> QED BY <2>1, <2>2, <2>3, <2>4 DEF IInv
<1>12. ASSUME OpenSession(l) PROVE IInv'
  <2>1. TypeOK'
    BY <1>12
       DEF IInv, TypeOK, OpenSession, EndLogin, NoStep, Evidence, LoginInv, Codes, Pieces
  <2>2. LoginInv' /\ RequestInv'
    BY <1>12 DEF IInv, TypeOK, LoginInv, RequestInv, OpenSession, EndLogin
  <2>3. EvidenceInv'
    BY <1>12
       DEF IInv, TypeOK, LoginInv, EvidenceInv, SingleUse, Spent, OpenedOnce, NoStep,
           Pieces, Codes, Evidence, Steps, OpenSession, EndLogin
  <2>4. Prompt => BudgetInv'
    BY <1>12, BudgetKept DEF IInv, TypeOK, OpenSession, EndLogin
  <2> QED BY <2>1, <2>2, <2>3, <2>4 DEF IInv
<1>13. ASSUME FailLogin(l) PROVE IInv'
  <2>1. TypeOK'
    BY <1>13 DEF IInv, TypeOK, FailLogin, Rollback, Release, EndLogin, NoStep, Evidence
  <2>2. LoginInv' /\ RequestInv'
    BY <1>13
       DEF IInv, TypeOK, LoginInv, RequestInv, FailLogin, Rollback, Release, EndLogin
  <2>3. EvidenceInv'
    BY <1>13, EvidenceKept DEF IInv, TypeOK, FailLogin, Rollback, Release, EndLogin
  <2>4. Prompt => BudgetInv'
    BY <1>13, BudgetKept DEF IInv, TypeOK, FailLogin, Rollback, Release, EndLogin
  <2> QED BY <2>1, <2>2, <2>3, <2>4 DEF IInv
<1> QED
  BY <1>1, <1>2, <1>3, <1>4, <1>5, <1>6, <1>7, <1>8, <1>9, <1>10, <1>11, <1>12, <1>13
     DEF LoginStep

\* The invariant is inductive.
LEMMA InvariantStep == IInv /\ [Next]_vars => IInv'
<1> SUFFICES ASSUME IInv, [Next]_vars PROVE IInv'
  OBVIOUS
<1>1. CASE Tick
  <2> USE <1>1, LoginAssumption
      DEF Tick, redis, limits, challenges, factors, history, requests, locals, logins
  <2>1. TypeOK'
    BY DEF IInv, TypeOK
  <2>2. LoginInv' /\ RequestInv'
    BY DEF IInv, TypeOK, LoginInv, RequestInv, InFactor, Steps
  <2>3. EvidenceInv'
    BY EvidenceKept
  <2>4. Prompt => BudgetInv'
    BY DEF IInv, TypeOK, BudgetInv
  <2> QED BY <2>1, <2>2, <2>3, <2>4 DEF IInv
<1>2. CASE UNCHANGED vars
  <2> USE <1>2
      DEF vars, redis, limits, challenges, factors, history, requests, locals, logins
  <2>1. TypeOK'
    BY DEF IInv, TypeOK
  <2>2. LoginInv' /\ RequestInv'
    BY DEF IInv, LoginInv, RequestInv
  <2> QED BY <2>1, <2>2, EvidenceKept, BudgetKept DEF IInv
<1> QED BY <1>1, <1>2, RequestKeeps, LoginKeeps DEF Next

\* IInv is an inductive invariant of the system.
THEOREM Invariance == Spec => []IInv
<1>1. Init => IInv
  <2> SUFFICES ASSUME Init PROVE IInv
    OBVIOUS
  <2> USE LoginAssumption DEF Init
  <2>1. TypeOK
    BY DEF TypeOK, NoStep, Evidence
  <2>2. LoginInv /\ RequestInv
    BY DEF LoginInv, RequestInv, InFactor
  <2>3. EvidenceInv
    BY DEF EvidenceInv, OpenedOnce, Pieces, Accepted
  <2>4. BudgetInv
    BY DEF BudgetInv, Keys
  <2> QED BY <2>1, <2>2, <2>3, <2>4 DEF IInv
<1> QED BY <1>1, InvariantStep, PTL DEF Spec

\* The shape of the state, in every reachable state.
THEOREM TypeCorrect == Spec => []TypeOK
BY Invariance, PTL DEF IInv

\* Concurrent logins with one recovery code open at most one session, also where logins
\* stall across time steps and where connections die.
THEOREM OneLoginPerRecoveryCodeHolds == Spec => []OneLoginPerRecoveryCode
<1>1. IInv => OneLoginPerRecoveryCode
  BY DEF IInv, EvidenceInv, SingleUse, OpenedOnce, OneLoginPerRecoveryCode, Evidence
<1> QED BY <1>1, Invariance, PTL

\* Where no login crosses a time step, the code of one time step opens at most one session.
THEOREM OneLoginPerTimeStepHolds ==
  ASSUME Prompt
  PROVE  Spec => []OneLoginPerTimeStep
<1>1. IInv => OneLoginPerTimeStep
  BY DEF IInv, EvidenceInv, SingleUse, OpenedOnce, OneLoginPerTimeStep, Evidence
<1> QED BY <1>1, Invariance, PTL

\* Where no login crosses a time step, a challenge lets at most GuessLimit codes through.
THEOREM GuessBudgetHolds ==
  ASSUME Prompt
  PROVE  Spec => []GuessBudget
<1>1. IInv => GuessBudget
  BY DEF IInv, BudgetInv, GuessBudget
<1> QED BY <1>1, Invariance, PTL

\* The stored time step of a factor only grows, whether logins are prompt or not.
THEOREM TimeStepsAdvanceHolds == Spec => TimeStepsAdvance
<1> DEFINE Advance == \A u \in Admins : lastStep'[u] # lastStep[u] => lastStep'[u] > lastStep[u]
<1>1. IInv /\ [Next]_vars => [Advance]_vars
  <2> SUFFICES ASSUME IInv, Next, lastStep' # lastStep PROVE Advance
    BY DEF IInv
  <2>1. PICK l \in Logins : StoreTimeStep(l)
    BY 
       DEF Next, RequestStep, LoginStep, Tick, AssertIdentityLimit, AssertIpLimit,
           FindPassword,
       RefusePassword, StoreChallenge, FailRequest, GetChallenge, AssertGuessLimit,
       RejectUnenrolled, LockFactor, ReadFactor, VerifyTotp, RejectTotp, RejectReplay,
       UseRecoveryCode, RejectRecoveryCode, DeleteChallenge, OpenSession, FailLogin, Rollback,
       factors
  <2>2. /\ ladmin[l] \in Admins /\ lread[l] = lastStep[ladmin[l]]
        /\ levidence[l] \in Steps /\ levidence[l] <= now + ldelta[l]
    BY <2>1 DEF StoreTimeStep, IInv, LoginInv
  <2>3. TimeStep(l) \in Int /\ TimeStep(l) > lastStep[ladmin[l]]
    BY <2>1, <2>2, LoginAssumption
       DEF StoreTimeStep, Replayed, TimeStep, NoStep, Steps, IInv, TypeOK
  <2> QED BY <2>1, <2>2, <2>3 DEF StoreTimeStep, IInv, TypeOK
<1> QED BY <1>1, Invariance, PTL DEF Spec, TimeStepsAdvance

-----------------------------------------------------------------------------
\* A factor's row is locked only by a login inside the factor's transaction.
NoStrayLock ==
  \A u \in Admins : \A l \in Logins :
    factorLock[u] = l => lpc[l] \in InFactor /\ ladmin[l] = u

\* COMMIT and ROLLBACK give the row back, and end the login's part in the transaction.
LEMMA ReleaseFrees ==
  ASSUME TypeOK, NEW l \in Logins, Release(l)
  PROVE  \A u \in Admins :
           factorLock'[u] # l /\ \A m \in Logins : factorLock'[u] = m => factorLock[u] = m
BY LoginAssumption DEF TypeOK, Release

\* No step leaves a lock behind.
LEMMA NoStrayLockStep == IInv /\ NoStrayLock /\ [Next]_vars => NoStrayLock'
<1> SUFFICES ASSUME IInv, NoStrayLock, [Next]_vars PROVE NoStrayLock'
  OBVIOUS
<1>0. TypeOK
  BY DEF IInv
<1> USE LoginAssumption DEF logins, locals
<1>1. ASSUME UNCHANGED <<factorLock, logins>> PROVE NoStrayLock'
  BY <1>1 DEF NoStrayLock
<1>2. ASSUME NEW r \in Requests, RequestStep(r) PROVE UNCHANGED <<factorLock, logins>>
  BY <1>2
     DEF RequestStep, AssertIdentityLimit, AssertIpLimit, FindPassword, RefusePassword,
         StoreChallenge, FailRequest
<1>3. ASSUME NEW l \in Logins, Release(l),
             \A m \in Logins : m # l => lpc'[m] = lpc[m] /\ ladmin'[m] = ladmin[m]
      PROVE  NoStrayLock'
  BY <1>0, <1>3, ReleaseFrees DEF NoStrayLock
<1>4. ASSUME NEW l \in Logins, LoginStep(l) PROVE NoStrayLock'
  <2>1. CASE \E ch \in Challenges, e \in Evidence : GetChallenge(l, ch, e)
    BY <1>0, <2>1 DEF GetChallenge, NoStrayLock, InFactor, TypeOK
  <2>2. CASE AssertGuessLimit(l) \/ RejectUnenrolled(l)
    BY <1>0, <2>2 DEF AssertGuessLimit, RejectUnenrolled, EndLogin, NoStrayLock, InFactor, TypeOK
  <2>3. CASE LockFactor(l)
    BY <1>0, <2>3 DEF LockFactor, ReadFactor, NoStrayLock, InFactor, TypeOK
  <2>4. CASE VerifyTotp(l)
    BY <1>0, <2>4 DEF VerifyTotp, NoStrayLock, InFactor, TypeOK
  <2>5. CASE StoreTimeStep(l) \/ UseRecoveryCode(l)
    BY <1>0, <1>3, <2>5 DEF StoreTimeStep, UseRecoveryCode, Accept, TypeOK
  <2>6. CASE RejectTotp(l) \/ RejectReplay(l) \/ RejectRecoveryCode(l) \/ FailLogin(l)
    BY <1>0, <1>3, <2>6
       DEF RejectTotp, RejectReplay, RejectRecoveryCode, FailLogin, Rollback, EndLogin, TypeOK
  <2>7. CASE DeleteChallenge(l) \/ OpenSession(l)
    BY <1>0, <2>7 DEF DeleteChallenge, OpenSession, EndLogin, NoStrayLock, InFactor, TypeOK
  <2>8. QED
    BY <1>4, <2>1, <2>2, <2>3, <2>4, <2>5, <2>6, <2>7 DEF LoginStep
<1>5. QED
  BY <1>1, <1>2, <1>4 DEF Next, Tick, vars

\* A factor's row is held only from SELECT FOR UPDATE to the end of its transaction, also
\* where logins are refused, replayed or die there: nobody is locked out by a failed login.
THEOREM NoStrayLockHolds == Spec => []NoStrayLock
<1>1. Init => NoStrayLock
  BY LoginAssumption DEF Init, NoStrayLock
<1>2. QED
  BY <1>1, NoStrayLockStep, Invariance, PTL DEF Spec
=============================================================================
