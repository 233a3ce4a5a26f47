------------------------- MODULE AuthSessionsProofs -------------------------
(***************************************************************************)
(* Proofs about AuthSessions, for every set of users, sessions, tokens and *)
(* concurrent calls, every lifetime and with or without faults.            *)
(***************************************************************************)
EXTENDS AuthSessionsRefinement, TLAPS

Rotating == {"begin", "lockToken", "lockSession", "revoke", "rotate", "rollback"}

\* What a call works on exists.
CallInv ==
  \A c \in Calls :
    /\ pc[c] \in Rotating => job[c].token \in Tokens /\ SessionOf(c) \in Sessions
    /\ pc[c] \in {"revokeSession", "revokeTokens"} => job[c].target \in Sessions
    /\ pc[c] = "revokeTokens" => sessStatus[job[c].target] = "revoked"

\* Which rows a rotation has locked, by how far it is.
LockInv ==
  \A c \in Calls :
    /\ pc[c] \in {"lockSession", "revoke", "rotate", "rollback"} => tokLock[job[c].token] = c
    /\ pc[c] \in {"revoke", "rotate", "rollback"} => sessLock[SessionOf(c)] = c

\* What rotateRefreshToken has read is still so when it commits.
DecisionInv ==
  \A c \in Calls :
    pc[c] = "rotate" =>
      tokStatus[job[c].token] = "active" /\ sessStatus[SessionOf(c)] = "active"

\* Tokens belong to sessions that exist; a token that has a successor is spent.
FamilyInv ==
  \A t \in Tokens :
    /\ Issued(t) <=> tokSession[t] \in Sessions
    /\ tokSession[t] \in Sessions => sessStatus[tokSession[t]] # "absent"
    /\ parent[t] # NoToken => Issued(t)
    /\ parent[t] \in Tokens => tokStatus[parent[t]] \in {"rotated", "revoked"}

IInv ==
  /\ TypeOK
  /\ CallInv /\ LockInv /\ DecisionInv /\ FamilyInv
  /\ OneActiveToken /\ NoForkedFamily /\ RevokedFamilyIsDead

-----------------------------------------------------------------------------
\* The shape of the tables, locks and calls is kept by every step (TypeOK).
LEMMA TypeStep == TypeOK /\ CallInv /\ [Next]_vars => TypeOK'
<1> SUFFICES ASSUME TypeOK, CallInv, [Next]_vars PROVE TypeOK'
  OBVIOUS
<1> USE ConstantsAssumption DEF TypeOK, Job, NoJob, sessionRows, tokenRows, locks, calls,
        history
<1>1. ASSUME NEW s \in Sessions, NEW t \in Tokens, InsertSession(s, t)
      PROVE TypeOK'
  <2>1. now + Lifetime \in Nat
    OBVIOUS
  <2> QED BY <1>1, <2>1 DEF InsertSession, InsertRefreshToken
<1>2. ASSUME NEW c \in Calls, Present(c)
      PROVE TypeOK'
  BY <1>2 DEF Present, PresentRefreshToken
<1>3. ASSUME NEW c \in Calls, Request(c)
      PROVE TypeOK'
  BY <1>3 DEF Request, RequestRevocation
<1>4. ASSUME NEW c \in Calls, Advance(c)
      PROVE TypeOK'
  <2>1. CASE BeginRotation(c)
    <3>1. SessionOf(c) \in Sessions
      BY <2>1 DEF BeginRotation, CallInv, Rotating
    <3> QED BY <2>1, <3>1 DEF BeginRotation
  <2>2. CASE Rollback(c)
    BY <2>2 DEF Rollback, End
  <2>3. ASSUME NEW new \in Tokens, CommitRotation(c, new)
        PROVE TypeOK'
    <3>1. now + Lifetime \in Nat
      OBVIOUS
    <3>2. job[c].token \in Tokens /\ SessionOf(c) \in Sessions
      BY <2>3 DEF CommitRotation, CallInv, Rotating
    <3> QED BY <2>3, <3>1, <3>2 DEF CommitRotation, InsertRefreshToken, End
  <2>4. CASE CommitRevocation(c)
    BY <2>4 DEF CommitRevocation, End
  <2>5. CASE DenyRevocation(c)
    BY <2>5 DEF DenyRevocation, End
  <2> QED BY <1>4, <2>1, <2>2, <2>3, <2>4, <2>5 DEF Advance
<1>5. ASSUME NEW c \in Calls, Acquire(c)
      PROVE TypeOK'
  <2>1. CASE LockToken(c)
    BY <2>1 DEF LockToken
  <2>2. CASE LockSession(c)
    <3>1. Decision(c) \in {"revoke", "rollback", "rotate"}
      BY DEF Decision
    <3> QED BY <2>2, <3>1 DEF LockSession
  <2>3. ASSUME NEW t \in Tokens, LockFamily(c, t)
        PROVE TypeOK'
    BY <2>3 DEF LockFamily
  <2>4. CASE RevokeSessionRow(c)
    BY <2>4 DEF RevokeSessionRow
  <2>5. CASE RevokeTokenRows(c)
    BY <2>5 DEF RevokeTokenRows, End
  <2> QED BY <1>5, <2>1, <2>2, <2>3, <2>4, <2>5 DEF Acquire
<1>6. ASSUME NEW c \in Calls, DeadlockVictim(c)
      PROVE TypeOK'
  BY <1>6 DEF DeadlockVictim, End
<1>7. ASSUME NEW c \in Calls, Fail(c)
      PROVE TypeOK'
  <2>1. abandoned' \subseteq Sessions
    BY <1>7 DEF Fail, CallInv
  <2> QED BY <1>7, <2>1 DEF Fail, End
<1>8. ASSUME NEW u \in Users, SetUserActive(u)
      PROVE TypeOK'
  BY <1>8 DEF SetUserActive
<1>9. CASE Tick
  BY <1>9 DEF Tick
<1>10. CASE UNCHANGED vars
  BY <1>10 DEF vars
<1> QED
  BY <1>1, <1>2, <1>3, <1>4, <1>5, <1>6, <1>7, <1>8, <1>9, <1>10 DEF Next, Login
-----------------------------------------------------------------------------
\* Every step keeps the inductive invariant.
LEMMA InvariantStep == IInv /\ [Next]_vars => IInv'
<1> SUFFICES ASSUME IInv, [Next]_vars PROVE IInv'
  OBVIOUS
<1>0. TypeOK /\ TypeOK'
  BY TypeStep DEF IInv
<1> USE ConstantsAssumption, <1>0 DEF TypeOK, Job, NoJob, sessionRows, tokenRows, locks,
        calls, history
<1>1. ASSUME NEW s \in Sessions, NEW t \in Tokens, InsertSession(s, t)
      PROVE IInv'
  <2>1. CallInv'
    BY <1>1 DEF IInv, InsertSession, InsertRefreshToken, Issued, CallInv, Rotating, SessionOf
  <2>2. LockInv'
    BY <1>1 DEF IInv, InsertSession, InsertRefreshToken, Issued, LockInv, CallInv, Rotating,
           SessionOf, FamilyInv
  <2>3. DecisionInv'
    BY <1>1 DEF IInv, InsertSession, InsertRefreshToken, Issued, DecisionInv, LockInv, CallInv,
           Rotating, SessionOf, FamilyInv
  <2>4. FamilyInv'
    BY <1>1 DEF IInv, InsertSession, InsertRefreshToken, Issued, FamilyInv, CallInv, Rotating,
           SessionOf, DecisionInv
  <2>5. OneActiveToken'
    BY <1>1 DEF IInv, InsertSession, InsertRefreshToken, Issued, OneActiveToken, FamilyInv,
           CallInv, Rotating, SessionOf, DecisionInv
  <2>6. NoForkedFamily'
    BY <1>1 DEF IInv, InsertSession, InsertRefreshToken, Issued, NoForkedFamily, FamilyInv,
           DecisionInv, CallInv, Rotating, SessionOf
  <2>7. RevokedFamilyIsDead'
    BY <1>1 DEF IInv, InsertSession, InsertRefreshToken, Issued, RevokedFamilyIsDead,
           ActiveTokensOf, TokensOf, DecisionInv, CallInv, Rotating, SessionOf, LockInv
  <2> QED BY <1>0, <2>1, <2>2, <2>3, <2>4, <2>5, <2>6, <2>7 DEF IInv
<1>2. ASSUME NEW c \in Calls, Present(c)
      PROVE IInv'
  BY <1>2 DEF IInv, Present, PresentRefreshToken, Issued, FamilyInv, CallInv, LockInv,
         DecisionInv, FamilyInv, OneActiveToken, NoForkedFamily, RevokedFamilyIsDead,
         ActiveTokensOf, TokensOf, Rotating, SessionOf, Issued
<1>3. ASSUME NEW c \in Calls, Request(c)
      PROVE IInv'
  BY <1>3 DEF IInv, Request, RequestRevocation, CallInv, LockInv, DecisionInv, FamilyInv,
         OneActiveToken, NoForkedFamily, RevokedFamilyIsDead, ActiveTokensOf, TokensOf,
         Rotating, SessionOf, Issued
<1>4. ASSUME NEW c \in Calls, BeginRotation(c)
      PROVE IInv'
  BY <1>4 DEF IInv, BeginRotation, CallInv, LockInv, DecisionInv, FamilyInv, OneActiveToken,
         NoForkedFamily, RevokedFamilyIsDead, ActiveTokensOf, TokensOf, Rotating, SessionOf,
         Issued
<1>5. ASSUME NEW c \in Calls, Rollback(c)
      PROVE IInv'
  <2>1. CallInv'
    BY <1>5 DEF IInv, Rollback, End, CallInv, Rotating, SessionOf
  <2>2. LockInv'
    BY <1>5 DEF IInv, Rollback, End, LockInv, CallInv, Rotating, SessionOf
  <2>3. DecisionInv'
    BY <1>5 DEF IInv, Rollback, End, DecisionInv, LockInv, CallInv, Rotating, SessionOf,
           FamilyInv, Issued
  <2>4. FamilyInv'
    BY <1>5
       DEF IInv, Rollback, End, FamilyInv, Issued, CallInv, Rotating, SessionOf, DecisionInv
  <2>5. OneActiveToken'
    BY <1>5 DEF IInv, Rollback, End, OneActiveToken, FamilyInv, Issued, CallInv, Rotating,
           SessionOf, DecisionInv
  <2>6. NoForkedFamily'
    BY <1>5 DEF IInv, Rollback, End, NoForkedFamily, FamilyInv, DecisionInv, CallInv, Rotating,
           SessionOf, Issued
  <2>7. RevokedFamilyIsDead'
    BY <1>5 DEF IInv, Rollback, End, RevokedFamilyIsDead, ActiveTokensOf, TokensOf, DecisionInv,
           CallInv, Rotating, SessionOf, LockInv
  <2> QED BY <1>0, <2>1, <2>2, <2>3, <2>4, <2>5, <2>6, <2>7 DEF IInv
<1>6. ASSUME NEW c \in Calls, NEW new \in Tokens, CommitRotation(c, new)
      PROVE IInv'
  <2>0. /\ job[c].token \in Tokens /\ tokStatus[job[c].token] = "active"
        /\ parent[new] = NoToken
    BY <1>6 DEF IInv, CommitRotation, InsertRefreshToken, CallInv, Rotating, DecisionInv,
                FamilyInv
  <2>1. CallInv'
    BY <1>6 DEF IInv, CommitRotation, InsertRefreshToken, End, CallInv, Rotating, SessionOf
  <2>2. LockInv'
    BY <1>6 DEF IInv, CommitRotation, InsertRefreshToken, End, LockInv, CallInv, Rotating,
           SessionOf, FamilyInv, Issued
  <2>3. DecisionInv'
    BY <1>6 DEF IInv, CommitRotation, InsertRefreshToken, End, DecisionInv, LockInv, CallInv,
           Rotating, SessionOf, FamilyInv, Issued
  <2>4. FamilyInv'
    BY <1>6 DEF IInv, CommitRotation, InsertRefreshToken, End, FamilyInv, Issued, CallInv,
           Rotating, SessionOf, DecisionInv
  <2>5. OneActiveToken'
    BY <1>6
       DEF IInv, CommitRotation, InsertRefreshToken, End, OneActiveToken, FamilyInv, Issued,
           CallInv, Rotating, SessionOf, DecisionInv
  <2>6. NoForkedFamily'
    BY <1>6, <2>0 DEF IInv, CommitRotation, NoForkedFamily, FamilyInv
  <2>7. RevokedFamilyIsDead'
    BY <1>6 DEF IInv, CommitRotation, InsertRefreshToken, End, RevokedFamilyIsDead,
           ActiveTokensOf, TokensOf, DecisionInv, CallInv, Rotating, SessionOf, LockInv
  <2> QED BY <1>0, <2>1, <2>2, <2>3, <2>4, <2>5, <2>6, <2>7 DEF IInv
<1>7. ASSUME NEW c \in Calls, CommitRevocation(c)
      PROVE IInv'
  <2>1. CallInv'
    BY <1>7 DEF IInv, CommitRevocation, End, TokensOf, CallInv, Rotating, SessionOf
  <2>2. LockInv'
    BY <1>7 DEF IInv, CommitRevocation, End, TokensOf, LockInv, CallInv, Rotating, SessionOf
  <2>3. DecisionInv'
    BY <1>7 DEF IInv, CommitRevocation, End, TokensOf, DecisionInv, LockInv, CallInv, Rotating,
           SessionOf, FamilyInv, Issued
  <2>4. FamilyInv'
    BY <1>7 DEF IInv, CommitRevocation, End, TokensOf, FamilyInv, Issued, CallInv, Rotating,
           SessionOf, DecisionInv
  <2>5. OneActiveToken'
    BY <1>7
       DEF IInv, CommitRevocation, End, TokensOf, OneActiveToken, FamilyInv, Issued, CallInv,
           Rotating, SessionOf, DecisionInv
  <2>6. NoForkedFamily'
    BY <1>7 DEF IInv, CommitRevocation, End, TokensOf, NoForkedFamily, FamilyInv, DecisionInv,
           CallInv, Rotating, SessionOf, Issued
  <2>7. RevokedFamilyIsDead'
    BY <1>7 DEF IInv, CommitRevocation, End, TokensOf, RevokedFamilyIsDead, ActiveTokensOf,
           DecisionInv, CallInv, Rotating, SessionOf, LockInv
  <2> QED BY <1>0, <2>1, <2>2, <2>3, <2>4, <2>5, <2>6, <2>7 DEF IInv
<1>8. ASSUME NEW c \in Calls, DenyRevocation(c)
      PROVE IInv'
  <2>1. CallInv'
    BY <1>8 DEF IInv, DenyRevocation, End, CallInv, Rotating, SessionOf
  <2>2. LockInv'
    BY <1>8 DEF IInv, DenyRevocation, End, LockInv, CallInv, Rotating, SessionOf
  <2>3. DecisionInv'
    BY <1>8 DEF IInv, DenyRevocation, End, DecisionInv, LockInv, CallInv, Rotating, SessionOf,
           FamilyInv, Issued
  <2>4. FamilyInv'
    BY <1>8 DEF IInv, DenyRevocation, End, FamilyInv, Issued, CallInv, Rotating, SessionOf,
           DecisionInv
  <2>5. OneActiveToken'
    BY <1>8 DEF IInv, DenyRevocation, End, OneActiveToken, FamilyInv, Issued, CallInv, Rotating,
           SessionOf, DecisionInv
  <2>6. NoForkedFamily'
    BY <1>8 DEF IInv, DenyRevocation, End, NoForkedFamily, FamilyInv, DecisionInv, CallInv,
           Rotating, SessionOf, Issued
  <2>7. RevokedFamilyIsDead'
    BY <1>8 DEF IInv, DenyRevocation, End, RevokedFamilyIsDead, ActiveTokensOf, TokensOf,
           DecisionInv, CallInv, Rotating, SessionOf, LockInv
  <2> QED BY <1>0, <2>1, <2>2, <2>3, <2>4, <2>5, <2>6, <2>7 DEF IInv
<1>9. ASSUME NEW c \in Calls, LockToken(c)
      PROVE IInv'
  BY <1>9 DEF IInv, LockToken, CallInv, LockInv, DecisionInv, FamilyInv, OneActiveToken,
         NoForkedFamily, RevokedFamilyIsDead, ActiveTokensOf, TokensOf, Rotating, SessionOf,
         Issued
<1>10. ASSUME NEW c \in Calls, LockSession(c)
      PROVE IInv'
  <2>1. CallInv'
    BY <1>10 DEF IInv, LockSession, Decision, Spent, Closed, CallInv, Rotating, SessionOf
  <2>2. LockInv'
    BY <1>10
       DEF IInv, LockSession, Decision, Spent, Closed, LockInv, CallInv, Rotating, SessionOf
  <2>3. DecisionInv'
    BY <1>10 DEF IInv, LockSession, Decision, Spent, Closed, DecisionInv, LockInv, CallInv,
           Rotating, SessionOf, FamilyInv, Issued
  <2>4. FamilyInv'
    BY <1>10
       DEF IInv, LockSession, Decision, Spent, Closed, FamilyInv, Issued, CallInv, Rotating,
           SessionOf, DecisionInv
  <2>5. OneActiveToken'
    BY <1>10 DEF IInv, LockSession, Decision, Spent, Closed, OneActiveToken, FamilyInv, Issued,
           CallInv, Rotating, SessionOf, DecisionInv
  <2>6. NoForkedFamily'
    BY <1>10 DEF IInv, LockSession, Decision, Spent, Closed, NoForkedFamily, FamilyInv,
           DecisionInv, CallInv, Rotating, SessionOf, Issued
  <2>7. RevokedFamilyIsDead'
    BY <1>10
       DEF IInv, LockSession, Decision, Spent, Closed, RevokedFamilyIsDead, ActiveTokensOf,
           TokensOf, DecisionInv, CallInv, Rotating, SessionOf, LockInv
  <2> QED BY <1>0, <2>1, <2>2, <2>3, <2>4, <2>5, <2>6, <2>7 DEF IInv
<1>11. ASSUME NEW c \in Calls, NEW t \in Tokens, LockFamily(c, t)
      PROVE IInv'
  <2>1. CallInv'
    BY <1>11 DEF IInv, LockFamily, TokensOf, CallInv, Rotating, SessionOf
  <2>2. LockInv'
    BY <1>11 DEF IInv, LockFamily, TokensOf, LockInv, CallInv, Rotating, SessionOf
  <2>3. DecisionInv'
    BY <1>11 DEF IInv, LockFamily, TokensOf, DecisionInv, LockInv, CallInv, Rotating, SessionOf,
           FamilyInv, Issued
  <2>4. FamilyInv'
    BY <1>11 DEF IInv, LockFamily, TokensOf, FamilyInv, Issued, CallInv, Rotating, SessionOf,
           DecisionInv
  <2>5. OneActiveToken'
    BY <1>11
       DEF IInv, LockFamily, TokensOf, OneActiveToken, FamilyInv, Issued, CallInv, Rotating,
           SessionOf, DecisionInv
  <2>6. NoForkedFamily'
    BY <1>11 DEF IInv, LockFamily, TokensOf, NoForkedFamily, FamilyInv, DecisionInv, CallInv,
           Rotating, SessionOf, Issued
  <2>7. RevokedFamilyIsDead'
    BY <1>11 DEF IInv, LockFamily, TokensOf, RevokedFamilyIsDead, ActiveTokensOf, DecisionInv,
           CallInv, Rotating, SessionOf, LockInv
  <2> QED BY <1>0, <2>1, <2>2, <2>3, <2>4, <2>5, <2>6, <2>7 DEF IInv
<1>12. ASSUME NEW c \in Calls, RevokeSessionRow(c)
      PROVE IInv'
  <2>1. CallInv'
    BY <1>12 DEF IInv, RevokeSessionRow, Revocable, CallInv, Rotating, SessionOf
  <2>2. LockInv'
    BY <1>12 DEF IInv, RevokeSessionRow, Revocable, LockInv, CallInv, Rotating, SessionOf
  <2>3. DecisionInv'
    BY <1>12 DEF IInv, RevokeSessionRow, Revocable, DecisionInv, LockInv, CallInv, Rotating,
           SessionOf, FamilyInv, Issued
  <2>4. FamilyInv'
    BY <1>12 DEF IInv, RevokeSessionRow, Revocable, FamilyInv, Issued, CallInv, Rotating,
           SessionOf, DecisionInv
  <2>5. OneActiveToken'
    BY <1>12 DEF IInv, RevokeSessionRow, Revocable, OneActiveToken, FamilyInv, Issued, CallInv,
           Rotating, SessionOf, DecisionInv
  <2>6. NoForkedFamily'
    BY <1>12 DEF IInv, RevokeSessionRow, Revocable, NoForkedFamily, FamilyInv, DecisionInv,
           CallInv, Rotating, SessionOf, Issued
  <2>7. RevokedFamilyIsDead'
    BY <1>12
       DEF IInv, RevokeSessionRow, Revocable, RevokedFamilyIsDead, ActiveTokensOf, TokensOf,
           DecisionInv, CallInv, Rotating, SessionOf, LockInv
  <2> QED BY <1>0, <2>1, <2>2, <2>3, <2>4, <2>5, <2>6, <2>7 DEF IInv
<1>13. ASSUME NEW c \in Calls, RevokeTokenRows(c)
      PROVE IInv'
  <2>1. CallInv'
    BY <1>13
       DEF IInv, RevokeTokenRows, End, ActiveTokensOf, TokensOf, CallInv, Rotating, SessionOf
  <2>2. LockInv'
    BY <1>13
       DEF IInv, RevokeTokenRows, End, ActiveTokensOf, TokensOf, LockInv, CallInv, Rotating,
           SessionOf
  <2>3. DecisionInv'
    BY <1>13 DEF IInv, RevokeTokenRows, End, ActiveTokensOf, TokensOf, DecisionInv, LockInv,
           CallInv, Rotating, SessionOf, FamilyInv, Issued
  <2>4. FamilyInv'
    BY <1>13
       DEF IInv, RevokeTokenRows, End, ActiveTokensOf, TokensOf, FamilyInv, Issued, CallInv,
           Rotating, SessionOf, DecisionInv
  <2>5. OneActiveToken'
    BY <1>13
       DEF IInv, RevokeTokenRows, End, ActiveTokensOf, TokensOf, OneActiveToken, FamilyInv,
           Issued, CallInv, Rotating, SessionOf, DecisionInv
  <2>6. NoForkedFamily'
    BY <1>13
       DEF IInv, RevokeTokenRows, End, ActiveTokensOf, TokensOf, NoForkedFamily, FamilyInv,
           DecisionInv, CallInv, Rotating, SessionOf, Issued
  <2>7. RevokedFamilyIsDead'
    BY <1>13 DEF IInv, RevokeTokenRows, End, ActiveTokensOf, TokensOf, RevokedFamilyIsDead,
           DecisionInv, CallInv, Rotating, SessionOf, LockInv
  <2> QED BY <1>0, <2>1, <2>2, <2>3, <2>4, <2>5, <2>6, <2>7 DEF IInv
<1>14. ASSUME NEW c \in Calls, DeadlockVictim(c)
      PROVE IInv'
  BY <1>14 DEF IInv, DeadlockVictim, WaitsFor, End, CallInv, LockInv, DecisionInv, FamilyInv,
         OneActiveToken, NoForkedFamily, RevokedFamilyIsDead, ActiveTokensOf, TokensOf,
         Rotating, SessionOf, Issued
<1>15. ASSUME NEW c \in Calls, Fail(c)
      PROVE IInv'
  <2>1. CallInv'
    BY <1>15 DEF IInv, Fail, End, CallInv, Rotating, SessionOf
  <2>2. LockInv'
    BY <1>15 DEF IInv, Fail, End, LockInv, CallInv, Rotating, SessionOf
  <2>3. DecisionInv'
    BY <1>15 DEF IInv, Fail, End, DecisionInv, LockInv, CallInv, Rotating, SessionOf, FamilyInv,
           Issued
  <2>4. FamilyInv'
    BY <1>15 DEF IInv, Fail, End, FamilyInv, Issued, CallInv, Rotating, SessionOf, DecisionInv
  <2>5. OneActiveToken'
    BY <1>15
       DEF IInv, Fail, End, OneActiveToken, FamilyInv, Issued, CallInv, Rotating, SessionOf,
           DecisionInv
  <2>6. NoForkedFamily'
    BY <1>15 DEF IInv, Fail, End, NoForkedFamily, FamilyInv, DecisionInv, CallInv, Rotating,
           SessionOf, Issued
  <2>7. RevokedFamilyIsDead'
    BY <1>15 DEF IInv, Fail, End, RevokedFamilyIsDead, ActiveTokensOf, TokensOf, DecisionInv,
           CallInv, Rotating, SessionOf, LockInv
  <2> QED BY <1>0, <2>1, <2>2, <2>3, <2>4, <2>5, <2>6, <2>7 DEF IInv
<1>16. ASSUME NEW u \in Users, SetUserActive(u)
      PROVE IInv'
  BY <1>16 DEF IInv, SetUserActive, CallInv, LockInv, DecisionInv, FamilyInv, OneActiveToken,
         NoForkedFamily, RevokedFamilyIsDead, ActiveTokensOf, TokensOf, Rotating, SessionOf,
         Issued
<1>17. CASE Tick
  BY <1>17 DEF IInv, Tick, CallInv, LockInv, DecisionInv, FamilyInv, OneActiveToken,
         NoForkedFamily, RevokedFamilyIsDead, ActiveTokensOf, TokensOf, Rotating, SessionOf,
         Issued
<1>18. CASE UNCHANGED vars
  BY <1>18 DEF IInv, vars, CallInv, LockInv, DecisionInv, FamilyInv, OneActiveToken,
         NoForkedFamily, RevokedFamilyIsDead, ActiveTokensOf, TokensOf, Rotating, SessionOf,
         Issued
<1> QED
  BY <1>1, <1>2, <1>3, <1>4, <1>5, <1>6, <1>7, <1>8, <1>9, <1>10, <1>11, <1>12, <1>13, <1>14, <1>15, <1>16, <1>17, <1>18
     DEF Next, Login, Advance, Acquire

\* IInv is an inductive invariant of the system.
THEOREM Invariance == Spec => []IInv
<1>1. Init => IInv
  BY ConstantsAssumption
     DEF Init, IInv, TypeOK, Job, NoJob, CallInv, LockInv, DecisionInv, FamilyInv, Issued,
         OneActiveToken, NoForkedFamily, RevokedFamilyIsDead, Rotating, ActiveTokensOf,
         TokensOf
<1> QED BY <1>1, InvariantStep, PTL DEF Spec

\* The shape of the state, in every reachable state.
THEOREM TypeCorrect == Spec => []TypeOK
BY Invariance, PTL DEF IInv

\* Whatever calls overlap, a session has at most one usable refresh token.
THEOREM OneActiveTokenHolds == Spec => []OneActiveToken
BY Invariance, PTL DEF IInv

\* Of several refreshes with one token at most one succeeds.
THEOREM NoForkedFamilyHolds == Spec => []NoForkedFamily
BY Invariance, PTL DEF IInv

\* A completed revocation leaves no usable token.
THEOREM RevokedFamilyIsDeadHolds == Spec => []RevokedFamilyIsDead
BY Invariance, PTL DEF IInv

\* No step makes a token usable in a revoked session, expired or not.
THEOREM NoResurrection == Spec => NoTokenBornInDeadSession
<1>1. IInv /\ [Next]_vars => [TokenBornAlive]_vars
  <2> SUFFICES ASSUME IInv, Next, NEW t \in Tokens,
                      tokStatus[t] # "active", tokStatus'[t] = "active"
               PROVE sessStatus'[tokSession'[t]] = "active"
    BY DEF TokenBornAlive
  <2> USE ConstantsAssumption DEF IInv, TypeOK, sessionRows, tokenRows
  <2>1. CASE Login
    BY <2>1 DEF Login, InsertSession, InsertRefreshToken
  <2>2. ASSUME NEW c \in Calls, NEW new \in Tokens, CommitRotation(c, new)
        PROVE sessStatus'[tokSession'[t]] = "active"
    BY <2>2 DEF CommitRotation, InsertRefreshToken, DecisionInv, CallInv, Rotating
  <2>3. ASSUME NEW c \in Calls, CommitRevocation(c) \/ RevokeTokenRows(c)
        PROVE FALSE
    BY <2>3 DEF CommitRevocation, RevokeTokenRows
  <2>4. ASSUME NEW c \in Calls,
               \/ Present(c) \/ Request(c) \/ Acquire(c) \/ DeadlockVictim(c) \/ Fail(c)
               \/ BeginRotation(c) \/ Rollback(c) \/ DenyRevocation(c)
        PROVE FALSE
    BY <2>3, <2>4
       DEF Present, PresentRefreshToken, Request, RequestRevocation, Acquire, LockToken,
       LockSession, LockFamily, RevokeSessionRow, DeadlockVictim, Fail, BeginRotation,
       Rollback, DenyRevocation
  <2>5. ASSUME NEW u \in Users, SetUserActive(u)
        PROVE FALSE
    BY <2>5 DEF SetUserActive
  <2>6. CASE Tick
    BY <2>6 DEF Tick
  <2> QED BY <2>1, <2>2, <2>3, <2>4, <2>5, <2>6 DEF Next, Advance
<1> QED BY <1>1, Invariance, PTL DEF Spec, NoTokenBornInDeadSession

-----------------------------------------------------------------------------
\* In a live session the token a refresh accepts is the one active row.
CurrentInv ==
  \A s \in Sessions : \A t \in ActiveTokensOf(s) :
    sessStatus[s] = "active" => CurrentOf(s) = t

LEMMA CurrentToken == IInv => CurrentInv
<1> SUFFICES ASSUME IInv, NEW s \in Sessions, NEW t \in ActiveTokensOf(s),
                    sessStatus[s] = "active"
             PROVE CurrentOf(s) = t
  BY DEF CurrentInv
<1>1. \A x \in ActiveTokensOf(s) : x = t
  BY DEF IInv, OneActiveToken, ActiveTokensOf, TokensOf
<1>2. (CHOOSE x \in ActiveTokensOf(s) : TRUE) \in ActiveTokensOf(s)
  OBVIOUS
<1> QED BY <1>1, <1>2 DEF CurrentOf

\* The current token of a session depends on its own rows only.
LEMMA SameFamily ==
  ASSUME NEW s, ActiveTokensOf(s)' = ActiveTokensOf(s), sessStatus'[s] = sessStatus[s]
  PROVE  CurrentOf(s)' = CurrentOf(s)
BY DEF CurrentOf

\* The mapped state reads the status and the session of the rows and nothing else.
LEMMA SameRows ==
  ASSUME UNCHANGED <<sessStatus, tokStatus, tokSession>>
  PROVE  UNCHANGED Family!fvars
<1>1. \A s \in Sessions : CurrentOf(s)' = CurrentOf(s)
  BY SameFamily DEF ActiveTokensOf, TokensOf
<1>2. phaseBar' = phaseBar /\ spentBar' = spentBar
  BY DEF phaseBar, spentBar, Issued
<1>3. currentBar' = currentBar
  BY <1>1 DEF currentBar
<1> QED BY <1>2, <1>3 DEF Family!fvars

\* Every step of the requests is a step of the token family or changes nothing of it.
LEMMA RefinementStep ==
  IInv /\ IInv' /\ [Next]_vars => [Family!FamilyNext]_(Family!fvars)
<1> SUFFICES ASSUME IInv, IInv', [Next]_vars PROVE [Family!FamilyNext]_(Family!fvars)
  OBVIOUS
<1> USE ConstantsAssumption DEF TypeOK, sessionRows, tokenRows
<1>0. TypeOK /\ TypeOK'
  BY DEF IInv
<1>00. CurrentInv'
  BY CurrentToken, PTL
<1>1. ASSUME NEW s \in Sessions, NEW t \in Tokens, InsertSession(s, t)
      PROVE Family!FamilyNext
  <2>1. phaseBar[s] = "absent" /\ t \notin spentBar
    BY <1>0, <1>1 DEF InsertSession, InsertRefreshToken, phaseBar, spentBar
  <2>2. phaseBar' = [phaseBar EXCEPT ![s] = "live"]
    BY <1>0, <1>1 DEF InsertSession, phaseBar
  <2>3. spentBar' = spentBar \union {t}
    BY <1>0, <1>1 DEF InsertSession, InsertRefreshToken, spentBar, Issued
  <2>4. CurrentOf(s)' = t
    <3>1. sessStatus'[s] = "active" /\ t \in ActiveTokensOf(s)'
      BY <1>0, <1>1 DEF InsertSession, InsertRefreshToken, ActiveTokensOf, TokensOf
    <3> QED BY <1>00, <3>1 DEF CurrentInv
  <2>5. ASSUME NEW x \in Sessions, x # s PROVE CurrentOf(x)' = CurrentOf(x)
    <3>1. ActiveTokensOf(x)' = ActiveTokensOf(x)
      BY <1>0, <1>1, <2>5
         DEF InsertSession, InsertRefreshToken, ActiveTokensOf, TokensOf, Issued, IInv,
                FamilyInv
    <3>2. sessStatus'[x] = sessStatus[x]
      BY <1>0, <1>1, <2>5 DEF InsertSession
    <3> QED BY <3>1, <3>2, SameFamily
  <2>6. currentBar' = [currentBar EXCEPT ![s] = t]
    BY <2>4, <2>5 DEF currentBar
  <2> QED BY <2>1, <2>2, <2>3, <2>6 DEF Family!FamilyNext, Family!Open
<1>2. ASSUME NEW c \in Calls, NEW new \in Tokens, CommitRotation(c, new)
      PROVE Family!FamilyNext
  <2>0. PICK s \in Sessions : s = SessionOf(c)
    BY <1>2 DEF IInv, CommitRotation, CallInv, Rotating
  <2>1. sessStatus[s] = "active" /\ job[c].token \in Tokens
    BY <1>2, <2>0 DEF IInv, CommitRotation, DecisionInv, CallInv, Rotating
  <2>2. phaseBar[s] = "live" /\ phaseBar' = phaseBar /\ new \notin spentBar
    BY <1>0, <1>2, <2>0, <2>1 DEF CommitRotation, InsertRefreshToken, phaseBar, spentBar
  <2>3. spentBar' = spentBar \union {new}
    BY <1>0, <1>2, <2>0, <2>1
       DEF CommitRotation, InsertRefreshToken, spentBar, Issued, IInv, DecisionInv
  <2>4. CurrentOf(s)' = new
    <3>1. sessStatus'[s] = "active" /\ new \in ActiveTokensOf(s)'
      BY <1>0, <1>2, <2>0, <2>1 DEF CommitRotation, InsertRefreshToken, ActiveTokensOf, TokensOf
    <3> QED BY <1>00, <3>1 DEF CurrentInv
  <2>5. ASSUME NEW x \in Sessions, x # s PROVE CurrentOf(x)' = CurrentOf(x)
    <3>1. ActiveTokensOf(x)' = ActiveTokensOf(x)
      BY <1>0, <1>2, <2>0, <2>1, <2>5
         DEF CommitRotation, InsertRefreshToken, ActiveTokensOf, TokensOf, Issued, IInv,
             FamilyInv, SessionOf
    <3>2. sessStatus'[x] = sessStatus[x]
      BY <1>0, <1>2, <2>5 DEF CommitRotation
    <3> QED BY <3>1, <3>2, SameFamily
  <2>6. currentBar' = [currentBar EXCEPT ![s] = new]
    BY <2>4, <2>5 DEF currentBar
  <2> QED BY <2>1, <2>2, <2>3, <2>6 DEF Family!FamilyNext, Family!Refresh
<1>3. ASSUME NEW s \in Sessions, sessStatus[s] # "absent",
             sessStatus' = [sessStatus EXCEPT ![s] = "revoked"], UNCHANGED tokSession,
             \A t \in Tokens : /\ tokSession[t] # s => tokStatus'[t] = tokStatus[t]
                               /\ Issued(t)' <=> Issued(t)
      PROVE [Family!FamilyNext]_(Family!fvars)
  <2>1. spentBar' = spentBar
    BY <1>3 DEF spentBar
  <2>2. phaseBar' = [phaseBar EXCEPT ![s] = "dead"]
    BY <1>0, <1>3 DEF phaseBar
  <2>3. ASSUME NEW x \in Sessions, x # s PROVE CurrentOf(x)' = CurrentOf(x)
    <3>1. ActiveTokensOf(x)' = ActiveTokensOf(x)
      BY <1>3, <2>3 DEF ActiveTokensOf, TokensOf
    <3>2. sessStatus'[x] = sessStatus[x]
      BY <1>0, <1>3, <2>3
    <3> QED BY <3>1, <3>2, SameFamily
  <2>4. currentBar' = [currentBar EXCEPT ![s] = NoToken]
    <3>1. CurrentOf(s)' = NoToken
      BY <1>0, <1>3 DEF CurrentOf
    <3> QED BY <2>3, <3>1 DEF currentBar
  <2>5. CASE sessStatus[s] = "active"
    <3>1. phaseBar[s] = "live"
      BY <2>5 DEF phaseBar
    <3> QED BY <2>1, <2>2, <2>4, <3>1 DEF Family!FamilyNext, Family!Kill
  <2>6. CASE sessStatus[s] = "revoked"
    <3>1. phaseBar[s] = "dead" /\ currentBar[s] = NoToken
      BY <2>6 DEF phaseBar, currentBar, CurrentOf
    <3>2. phaseBar' = phaseBar /\ currentBar' = currentBar
      BY <2>2, <2>4, <3>1 DEF phaseBar, currentBar
    <3> QED BY <2>1, <3>2 DEF Family!fvars
  <2> QED BY <1>0, <1>3, <2>5, <2>6
<1>4. ASSUME NEW c \in Calls, CommitRevocation(c)
      PROVE [Family!FamilyNext]_(Family!fvars)
  <2>1. /\ SessionOf(c) \in Sessions /\ job[c].token \in Tokens
        /\ sessStatus[SessionOf(c)] # "absent"
    BY <1>4 DEF IInv, CommitRevocation, CallInv, FamilyInv, Rotating, SessionOf
  <2>2. \A t \in Tokens : /\ tokSession[t] # SessionOf(c) => tokStatus'[t] = tokStatus[t]
                          /\ Issued(t)' <=> Issued(t)
    BY <1>0, <1>4, <2>1 DEF CommitRevocation, TokensOf, Issued, IInv, FamilyInv
  <2> QED BY <1>3, <1>4, <2>1, <2>2 DEF CommitRevocation
<1>5. ASSUME NEW c \in Calls, RevokeSessionRow(c)
      PROVE [Family!FamilyNext]_(Family!fvars)
  <2>1. job[c].target \in Sessions
    BY <1>5 DEF IInv, RevokeSessionRow, CallInv
  <2>2. \A t \in Tokens : tokStatus'[t] = tokStatus[t] /\ (Issued(t)' <=> Issued(t))
    BY <1>5 DEF RevokeSessionRow, Issued
  <2> QED BY <1>3, <1>5, <2>1, <2>2 DEF RevokeSessionRow, Revocable
<1>6. ASSUME NEW c \in Calls, RevokeTokenRows(c)
      PROVE [Family!FamilyNext]_(Family!fvars)
  <2>1. job[c].target \in Sessions /\ sessStatus[job[c].target] = "revoked"
    BY <1>6 DEF IInv, RevokeTokenRows, CallInv
  <2>2. \A t \in Tokens : /\ tokSession[t] # job[c].target => tokStatus'[t] = tokStatus[t]
                          /\ Issued(t)' <=> Issued(t)
    BY <1>0, <1>6, <2>1 DEF RevokeTokenRows, ActiveTokensOf, TokensOf, Issued
  <2>3. sessStatus' = [sessStatus EXCEPT ![job[c].target] = "revoked"]
    BY <1>0, <1>6, <2>1 DEF RevokeTokenRows
  <2> QED BY <1>3, <1>6, <2>1, <2>2, <2>3 DEF RevokeTokenRows
<1>7. ASSUME UNCHANGED <<sessStatus, tokStatus, tokSession>>
      PROVE [Family!FamilyNext]_(Family!fvars)
  BY <1>7, SameRows
<1>8. ASSUME NEW c \in Calls,
             \/ Present(c) \/ Request(c) \/ DeadlockVictim(c) \/ Fail(c)
             \/ BeginRotation(c) \/ Rollback(c) \/ DenyRevocation(c)
             \/ LockToken(c) \/ LockSession(c) \/ \E t \in Tokens : LockFamily(c, t)
      PROVE UNCHANGED <<sessStatus, tokStatus, tokSession>>
  BY <1>8 DEF Present, PresentRefreshToken, Request, RequestRevocation, DeadlockVictim, Fail,
     BeginRotation, Rollback, DenyRevocation, LockToken, LockSession, LockFamily
<1>9. ASSUME (\E u \in Users : SetUserActive(u)) \/ Tick \/ UNCHANGED vars
      PROVE UNCHANGED <<sessStatus, tokStatus, tokSession>>
  BY <1>9 DEF SetUserActive, Tick, vars
<1> QED
  BY <1>1, <1>2, <1>4, <1>5, <1>6, <1>7, <1>8, <1>9 DEF Next, Login, Advance, Acquire

\* The tables and the requests that change them implement the token family.
THEOREM Refinement == Spec => ImplementsTokenFamily
<1>1. Init => Family!FamilyInit
  BY ConstantsAssumption DEF Init, Family!FamilyInit, phaseBar, currentBar, CurrentOf, spentBar, Issued
<1> QED
  BY <1>1, RefinementStep, Invariance, PTL
     DEF Spec, ImplementsTokenFamily, Family!FamilySpec

-----------------------------------------------------------------------------
(***************************************************************************)
(* Locks and waits.                                                        *)
(***************************************************************************)
\* The converse of LockInv: a row is locked only by a rotation that is past the lock, and
\* only rows of the family it works on, so no lock outlives the transaction that took it.
NoStrayLock ==
  \A c \in Calls :
    /\ \A t \in Tokens : tokLock[t] = c =>
         /\ pc[c] \in {"lockSession", "revoke", "rotate", "rollback"}
         /\ t # job[c].token => pc[c] = "revoke"
         /\ tokSession[t] = SessionOf(c)
    /\ \A s \in Sessions : sessLock[s] = c =>
         pc[c] \in {"revoke", "rotate", "rollback"} /\ s = SessionOf(c)

\* Nobody waits for a call that holds nothing; and of two calls that wait one for the other's
\* successor, the first holding a lock itself, the second waits for the first.
WaitsAreMutual ==
  \A c, d \in Calls : WaitsFor(c, d) =>
    /\ pc[d] # "lockToken"
    /\ \A e \in Calls : WaitsFor(d, e) => pc[c] = "lockToken" \/ WaitsFor(d, c)

\* What the rows of a family are does not change under a call that works on it.
LEMMA FamilyKept ==
  ASSUME IInv, NEW t \in Tokens, ~Issued(t),
         tokSession' = [tokSession EXCEPT ![t] = tokSession'[t]]
  PROVE  /\ \A x \in Tokens : tokSession[x] \in Sessions => tokSession'[x] = tokSession[x]
         /\ \A c \in Calls : pc[c] \in Rotating => tokSession'[job[c].token] = SessionOf(c)
<1>1. \A x \in Tokens : tokSession[x] \in Sessions => x # t
  BY DEF IInv, FamilyInv
<1>2. \A x \in Tokens : tokSession[x] \in Sessions => tokSession'[x] = tokSession[x]
  BY <1>1 DEF IInv, TypeOK
<1>3. QED
  BY <1>2 DEF IInv, CallInv, SessionOf

\* A call that ends gives its locks back, and takes nobody else's.
LEMMA EndFrees ==
  ASSUME TypeOK, NEW c \in Calls, End(c)
  PROVE  /\ \A t \in Tokens : tokLock'[t] # c /\ \A d \in Calls : tokLock'[t] = d => tokLock[t] = d
         /\ \A s \in Sessions : sessLock'[s] # c /\ \A d \in Calls : sessLock'[s] = d => sessLock[s] = d
         /\ \A d \in Calls : d # c => pc'[d] = pc[d] /\ job'[d] = job[d]
BY ConstantsAssumption DEF TypeOK, End

\* No step leaves a lock behind.
LEMMA NoStrayLockStep == IInv /\ NoStrayLock /\ [Next]_vars => NoStrayLock'
<1> SUFFICES ASSUME IInv, NoStrayLock, [Next]_vars PROVE NoStrayLock'
  OBVIOUS
<1>0. TypeOK /\ CallInv
  BY DEF IInv
<1> USE ConstantsAssumption, <1>0 DEF sessionRows, tokenRows, locks, calls, history
<1>1. ASSUME NEW s \in Sessions, NEW t \in Tokens, InsertSession(s, t)
      PROVE  NoStrayLock'
  <2>1. /\ \A x \in Tokens : tokSession[x] \in Sessions => tokSession'[x] = tokSession[x]
        /\ \A c \in Calls : pc[c] \in Rotating => tokSession'[job[c].token] = SessionOf(c)
    BY <1>1, FamilyKept DEF InsertSession, InsertRefreshToken, TypeOK
  <2>2. QED
    BY <1>1, <2>1 DEF InsertSession, NoStrayLock, CallInv, SessionOf, Rotating
<1>2. ASSUME NEW c \in Calls, NEW new \in Tokens, CommitRotation(c, new)
      PROVE  NoStrayLock'
  <2>1. /\ \A x \in Tokens : tokSession[x] \in Sessions => tokSession'[x] = tokSession[x]
        /\ \A d \in Calls : pc[d] \in Rotating => tokSession'[job[d].token] = SessionOf(d)
    BY <1>2, FamilyKept DEF CommitRotation, InsertRefreshToken, TypeOK
  <2>2. QED
    BY <1>2, <2>1, EndFrees DEF CommitRotation, NoStrayLock, CallInv, SessionOf, Rotating
<1>3. ASSUME NEW c \in Calls, End(c), UNCHANGED tokSession
      PROVE  NoStrayLock'
  BY <1>3, EndFrees DEF NoStrayLock, SessionOf
<1>4. ASSUME NEW c \in Calls, Present(c) \/ Request(c) \/ BeginRotation(c) \/ RevokeSessionRow(c)
      PROVE  NoStrayLock'
  <2>1. /\ UNCHANGED <<tokSession, tokLock, sessLock>>
        /\ pc[c] \in {"idle", "begin", "revokeSession"}
        /\ \A d \in Calls : d # c => pc'[d] = pc[d] /\ job'[d] = job[d]
    BY <1>4 DEF TypeOK, Present, PresentRefreshToken, Request, RequestRevocation, BeginRotation,
                RevokeSessionRow
  <2>2. QED
    BY <2>1 DEF NoStrayLock, SessionOf
<1>5. ASSUME NEW c \in Calls, LockToken(c)
      PROVE  NoStrayLock'
  <2>1. /\ UNCHANGED <<tokSession, sessLock, job>> /\ pc[c] = "lockToken" /\ pc'[c] = "lockSession"
        /\ \A d \in Calls : d # c => pc'[d] = pc[d]
        /\ \A t \in Tokens : t # job[c].token => tokLock'[t] = tokLock[t]
        /\ job[c].token \in Tokens => tokLock'[job[c].token] = c
    BY <1>5 DEF TypeOK, LockToken
  <2>2. job[c].token \in Tokens
    BY <2>1 DEF CallInv, Rotating
  <2>3. QED
    BY <2>1, <2>2 DEF NoStrayLock, SessionOf
<1>6. ASSUME NEW c \in Calls, LockSession(c)
      PROVE  NoStrayLock'
  <2>1. /\ UNCHANGED <<tokSession, tokLock, job>> /\ pc[c] = "lockSession"
        /\ pc'[c] \in {"revoke", "rotate", "rollback"}
        /\ \A d \in Calls : d # c => pc'[d] = pc[d]
        /\ \A s \in Sessions : s # SessionOf(c) => sessLock'[s] = sessLock[s]
    BY <1>6 DEF TypeOK, LockSession, Decision
  <2>2. SessionOf(c) \in Sessions /\ sessLock'[SessionOf(c)] = c
    BY <1>6, <2>1 DEF LockSession, CallInv, Rotating, TypeOK
  <2>3. \A t \in Tokens : tokLock[t] = c => t = job[c].token /\ tokSession[t] = SessionOf(c)
    BY <2>1 DEF NoStrayLock
  <2>4. QED
    BY <2>1, <2>2, <2>3 DEF NoStrayLock, SessionOf
<1>7. ASSUME NEW c \in Calls, NEW t \in Tokens, LockFamily(c, t)
      PROVE  NoStrayLock'
  <2>1. /\ UNCHANGED <<tokSession, sessLock, job, pc>> /\ pc[c] = "revoke"
        /\ tokSession[t] = SessionOf(c)
        /\ tokLock'[t] = c /\ \A x \in Tokens : x # t => tokLock'[x] = tokLock[x]
    BY <1>7 DEF TypeOK, LockFamily, TokensOf
  <2>2. QED
    BY <2>1 DEF NoStrayLock, SessionOf
<1>8. ASSUME (\E u \in Users : SetUserActive(u)) \/ Tick \/ UNCHANGED vars
      PROVE  NoStrayLock'
  BY <1>8 DEF SetUserActive, Tick, vars, NoStrayLock, SessionOf
<1>9. ASSUME NEW c \in Calls,
             \/ Rollback(c) \/ CommitRevocation(c) \/ DenyRevocation(c) \/ RevokeTokenRows(c)
             \/ DeadlockVictim(c) \/ Fail(c)
      PROVE  NoStrayLock'
  BY <1>3, <1>9
     DEF Rollback, CommitRevocation, DenyRevocation, RevokeTokenRows, DeadlockVictim, Fail
<1>10. QED
  BY <1>1, <1>2, <1>4, <1>5, <1>6, <1>7, <1>8, <1>9 DEF Next, Login, Advance, Acquire

\* A row is locked only while the transaction that locked it is under way, with or without
\* faults: no replay, refusal, deadlock or broken connection leaves a session locked.
THEOREM NoStrayLockHolds == Spec => []NoStrayLock
<1>1. Init => NoStrayLock
  BY ConstantsAssumption DEF Init, NoStrayLock
<1>2. QED
  BY <1>1, NoStrayLockStep, Invariance, PTL DEF Spec

\* Whom a call can wait for, and what that one has locked.
LEMMA MutualWaits == IInv /\ NoStrayLock => WaitsAreMutual
<1> SUFFICES ASSUME IInv, NoStrayLock, NEW c \in Calls, NEW d \in Calls, WaitsFor(c, d)
             PROVE  /\ pc[d] # "lockToken"
                    /\ \A e \in Calls : WaitsFor(d, e) => pc[c] = "lockToken" \/ WaitsFor(d, c)
  BY DEF WaitsAreMutual
<1>1. /\ pc[c] \in {"lockToken", "lockSession", "revoke"} /\ c # d
      /\ job[c].token \in Tokens /\ SessionOf(c) \in Sessions
  BY DEF WaitsFor, IInv, CallInv, Rotating
<1>2. CASE pc[c] = "lockToken"
  BY <1>1, <1>2 DEF WaitsFor, NoStrayLock
<1>3. CASE pc[c] = "lockSession"
  <2>1. /\ pc[d] \in {"revoke", "rotate", "rollback"} /\ SessionOf(d) = SessionOf(c)
        /\ tokLock[job[c].token] = c
    BY <1>1, <1>3 DEF WaitsFor, NoStrayLock, IInv, LockInv
  <2>2. ASSUME NEW e \in Calls, WaitsFor(d, e)
        PROVE  WaitsFor(d, c)
    <3>1. pc[d] = "revoke"
      BY <2>1, <2>2 DEF WaitsFor
    <3>2. job[c].token \in TokensOf(SessionOf(d))
      BY <1>1, <2>1 DEF TokensOf, SessionOf
    <3>3. QED
      BY <1>1, <2>1, <3>1, <3>2 DEF WaitsFor
  <2>3. QED
    BY <2>1, <2>2
<1>4. CASE pc[c] = "revoke"
  <2>1. PICK t \in TokensOf(SessionOf(c)) : tokLock[t] = d
    BY <1>4 DEF WaitsFor
  <2>2. /\ pc[d] \in {"lockSession", "revoke", "rotate", "rollback"}
        /\ SessionOf(d) = SessionOf(c)
    BY <2>1 DEF TokensOf, NoStrayLock
  <2>3. sessLock[SessionOf(c)] = c
    BY <1>4 DEF IInv, LockInv
  <2>4. pc[d] # "revoke"
    BY <1>1, <2>2, <2>3 DEF IInv, LockInv
  <2>5. ASSUME NEW e \in Calls, WaitsFor(d, e)
        PROVE  WaitsFor(d, c)
    <3>1. pc[d] = "lockSession"
      BY <2>2, <2>4, <2>5 DEF WaitsFor
    <3>2. QED
      BY <1>1, <2>2, <2>3, <3>1 DEF WaitsFor
  <2>6. QED
    BY <2>2, <2>5
<1>5. QED
  BY <1>1, <1>2, <1>3, <1>4

\* However many calls overlap, every call in a circle of waits is in a circle of two: it holds a
\* lock, for another waits for it, and it waits. DeadlockVictim resolves circles of two, and
\* that is all of them.
THEOREM WaitsAreMutualHolds == Spec => []WaitsAreMutual
BY NoStrayLockHolds, Invariance, MutualWaits, PTL
=============================================================================
