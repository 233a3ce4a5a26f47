-------------------------- MODULE SmsDispatchProofs --------------------------
(***************************************************************************)
(* The safety of one send, for every retry count the schema could allow.   *)
(***************************************************************************)
EXTENDS SmsDispatch, TLAPS

\* What earlier attempts left behind, and that later ones have not begun.
OtherAttempts ==
  /\ \A a \in Attempts : a < attempt => result[a] = "transient" /\ row[a] = "failed"
  /\ \A a \in Attempts : a > attempt => request[a] = "none" /\ row[a] = "none"

\* Where the current attempt is.
CurrentAttempt ==
  /\ pc \in {"resolve", "call"} => request[attempt] = "none"
  /\ pc \in {"resolve", "call", "race", "insert"} => row[attempt] = "none"
  /\ (pc \in {"insert", "decide"} /\ result[attempt] = "success") => request[attempt] = "sent"
  /\ pc = "decide" => row[attempt] = IF result[attempt] = "success" THEN "sent" ELSE "failed"

CallerKnows ==
  /\ caller = "delivered" => /\ pc = "done"
                             /\ request[attempt] = "sent" /\ row[attempt] = "sent"

IInv == TypeOK /\ OtherAttempts /\ CurrentAttempt /\ CallerKnows

\* A send begins with nothing asked and nothing recorded.
LEMMA InitIInv == Init => IInv
<1> SUFFICES ASSUME Init PROVE IInv
  OBVIOUS
<1>1. attempt \in Attempts
  BY DispatchAssumption, SMT DEF Init, Attempts
<1>2. TypeOK
  BY <1>1 DEF Init, TypeOK
<1>3. OtherAttempts
  BY DispatchAssumption, SMT DEF Init, OtherAttempts, Attempts
<1> QED BY <1>1, <1>2, <1>3 DEF Init, IInv, CurrentAttempt, CallerKnows

\* A step of the provider: it answers a request it holds, and nothing else changes.
LEMMA ProviderStep ==
  ASSUME IInv, NEW a \in Attempts, SmsLeaves(a) \/ ProviderRefuses(a)
  PROVE  IInv'
<1> USE DEF IInv
<1>1. TypeOK'
  BY DEF TypeOK, SmsLeaves, ProviderRefuses
<1>2. /\ UNCHANGED <<pc, attempt, result, row, caller>>
      /\ request[a] = "held"
      /\ request' \in {[request EXCEPT ![a] = "sent"], [request EXCEPT ![a] = "refused"]}
  BY DEF SmsLeaves, ProviderRefuses
<1>3. \A b \in Attempts : b # a => request'[b] = request[b]
  BY <1>2 DEF TypeOK
<1>4. OtherAttempts'
  BY <1>2, <1>3 DEF OtherAttempts, TypeOK
<1>5. CurrentAttempt'
  BY <1>2, <1>3 DEF CurrentAttempt, TypeOK
<1>6. CallerKnows'
  BY <1>2, <1>3 DEF CallerKnows, TypeOK
<1> QED BY <1>1, <1>4, <1>5, <1>6

\* Settling the race writes the current attempt's result only.
LEMMA SettleStep ==
  ASSUME IInv, NEW outcome \in {"success"} \union Failures, Settle(outcome),
         outcome = "success" => request[attempt] = "sent",
         UNCHANGED <<attempt, request, row, caller>>
  PROVE  IInv'
<1> USE DEF IInv
<1>1. TypeOK'
  BY DEF TypeOK, Settle
<1>2. /\ result'[attempt] = outcome
      /\ \A a \in Attempts : a < attempt => result'[a] = result[a]
  BY DispatchAssumption, SMT DEF TypeOK, Settle, Attempts
<1>3. OtherAttempts'
  BY <1>2 DEF OtherAttempts
<1>4. CurrentAttempt'
  BY <1>2 DEF CurrentAttempt, Settle, TypeOK
<1>5. CallerKnows'
  BY DEF CallerKnows, Settle
<1> QED BY <1>1, <1>3, <1>4, <1>5

\* A step of the dispatcher.
LEMMA DispatcherStep == IInv /\ Dispatcher => IInv'
<1> SUFFICES ASSUME IInv, Dispatcher PROVE IInv'
  OBVIOUS
<1> USE DEF IInv
<1>1. CASE Resolve
  BY <1>1 DEF Resolve, TypeOK, OtherAttempts, CurrentAttempt, CallerKnows
<1>2. CASE Unavailable \/ InsertFails
  <2>1. /\ UNCHANGED <<attempt, request, result, row>>
        /\ pc' = "done" /\ caller' = "unavailable"
    BY <1>2 DEF Unavailable, InsertFails, Throw
  <2> QED BY <2>1 DEF TypeOK, OtherAttempts, CurrentAttempt, CallerKnows
<1>3. CASE CallProvider
  <2>1. TypeOK'
    BY <1>3 DEF CallProvider, TypeOK
  <2>2. \A a \in Attempts : a > attempt => request'[a] = request[a]
    BY <1>3, DispatchAssumption, SMT DEF CallProvider, TypeOK, Attempts
  <2>3. OtherAttempts'
    BY <1>3, <2>2 DEF CallProvider, OtherAttempts
  <2>4. CurrentAttempt' /\ CallerKnows'
    BY <1>3 DEF CallProvider, CurrentAttempt, CallerKnows
  <2> QED BY <2>1, <2>3, <2>4
<1>4. CASE Answered
  BY <1>4, SettleStep DEF Answered
<1>5. CASE Refused
  <2>1. PICK failure \in Failures : Settle(failure)
    BY <1>5 DEF Refused
  <2>2. failure # "success"
    BY <2>1 DEF Failures
  <2> QED BY <1>5, <2>1, <2>2, SettleStep DEF Refused
<1>6. CASE TimedOut
  BY <1>6, SettleStep DEF TimedOut, Failures
<1>7. CASE InsertDeliveryAttempt
  <2>1. TypeOK'
    BY <1>7 DEF InsertDeliveryAttempt, TypeOK
  <2>2. /\ row'[attempt] = IF result[attempt] = "success" THEN "sent" ELSE "failed"
        /\ \A a \in Attempts : a # attempt => row'[a] = row[a]
    BY <1>7 DEF InsertDeliveryAttempt, TypeOK
  <2>3. \A a \in Attempts : a < attempt \/ a > attempt => a # attempt
    BY DispatchAssumption, SMT DEF TypeOK, Attempts
  <2>4. OtherAttempts'
    BY <1>7, <2>2, <2>3 DEF InsertDeliveryAttempt, OtherAttempts
  <2>5. CurrentAttempt' /\ CallerKnows'
    BY <1>7, <2>2 DEF InsertDeliveryAttempt, CurrentAttempt, CallerKnows
  <2> QED BY <2>1, <2>4, <2>5
<1>8. CASE Retry
  <2>1. /\ result[attempt] = "transient" /\ row[attempt] = "failed"
        /\ attempt' = attempt + 1 /\ pc' = "call"
        /\ UNCHANGED <<request, result, row, caller>>
    BY <1>8 DEF Retry, Retryable, CurrentAttempt
  <2>2. attempt' \in Attempts
    BY <1>8, DispatchAssumption, SMT DEF Retry, MoreAttempts, TypeOK, Attempts
  <2>3. TypeOK'
    BY <2>1, <2>2 DEF TypeOK
  <2>4. \A a \in Attempts : a < attempt + 1 => a < attempt \/ a = attempt
    BY DispatchAssumption, SMT DEF TypeOK, Attempts
  <2>5. \A a \in Attempts : a > attempt + 1 => a > attempt
    BY DispatchAssumption, SMT DEF TypeOK, Attempts
  <2>6. OtherAttempts'
    BY <2>1, <2>4, <2>5 DEF OtherAttempts
  <2>7. attempt' > attempt
    BY <2>1, DispatchAssumption, SMT DEF TypeOK, Attempts
  <2>8. request[attempt'] = "none" /\ row[attempt'] = "none"
    BY <2>2, <2>7 DEF OtherAttempts
  <2>9. CurrentAttempt'
    BY <2>1, <2>8 DEF CurrentAttempt
  <2>10. CallerKnows'
    BY <1>8, <2>1 DEF Retry, CallerKnows
  <2> QED BY <2>3, <2>6, <2>9, <2>10
<1>9. CASE Return
  <2>1. /\ UNCHANGED <<attempt, request, result, row>>
        /\ pc' = "done" /\ caller' \in {"delivered", "unavailable"}
        /\ caller' = "delivered" => result[attempt] = "success"
    BY <1>9 DEF Return, Throw
  <2>2. TypeOK' /\ OtherAttempts' /\ CurrentAttempt'
    BY <2>1 DEF TypeOK, OtherAttempts, CurrentAttempt
  <2>3. CallerKnows'
    BY <1>9, <2>1 DEF Return, CurrentAttempt, CallerKnows
  <2> QED BY <2>2, <2>3
<1> QED
  BY <1>1, <1>2, <1>3, <1>4, <1>5, <1>6, <1>7, <1>8, <1>9 DEF Dispatcher

\* The inductive invariant holds of every state.
THEOREM Invariance == Spec => []IInv
<1>1. IInv /\ [Next]_vars => IInv'
  <2> SUFFICES ASSUME IInv, [Next]_vars PROVE IInv'
    OBVIOUS
  <2>1. CASE UNCHANGED vars
    BY <2>1 DEF vars, IInv, TypeOK, OtherAttempts, CurrentAttempt, CallerKnows
  <2> QED BY <2>1, DispatcherStep, ProviderStep DEF Next
<1> QED BY InitIInv, <1>1, PTL DEF Spec

\* The attempts stay within retryCount + 1.
THEOREM TypeCorrect == Spec => []TypeOK
<1>1. IInv => TypeOK
  BY DEF IInv
<1> QED BY Invariance, <1>1, PTL

\* Nothing is sent again unless the answer to all that was sent before was transient.
THEOREM DuplicatesNeedLostAnswerHolds == Spec => []DuplicatesNeedLostAnswer
<1>1. IInv => DuplicatesNeedLostAnswer
  <2> SUFFICES ASSUME IInv, NEW a \in Attempts, NEW b \in Attempts, a < b, request[b] # "none"
               PROVE  result[a] = "transient" /\ row[a] = "failed"
    BY DEF DuplicatesNeedLostAnswer
  <2>1. ~(b > attempt)
    BY DEF IInv, OtherAttempts
  <2>2. a < attempt
    BY <2>1, DispatchAssumption, SMT DEF IInv, TypeOK, Attempts
  <2> QED BY <2>2 DEF IInv, OtherAttempts
<1> QED BY Invariance, <1>1, PTL

\* A caller that is told "delivered" is told the truth, by exactly one row.
THEOREM DeliveredIsSentHolds == Spec => []DeliveredIsSent
<1>1. IInv => DeliveredIsSent
  <2> SUFFICES ASSUME IInv, caller = "delivered"
               PROVE  attempt \in Sent /\ {a \in Attempts : row[a] = "sent"} = {attempt}
    BY DEF DeliveredIsSent
  <2>1. \A a \in Attempts : a # attempt => a < attempt \/ a > attempt
    BY DispatchAssumption, SMT DEF IInv, TypeOK, Attempts
  <2>2. \A a \in Attempts : a # attempt => row[a] # "sent"
    BY <2>1 DEF IInv, OtherAttempts
  <2> QED BY <2>2 DEF IInv, TypeOK, CallerKnows, Sent
<1> QED BY Invariance, <1>1, PTL

-----------------------------------------------------------------------------
(***************************************************************************)
(* How long a send can take.                                               *)
(***************************************************************************)
\* The steps from each place to the end of its attempt.
Stage == [resolve |-> 5, call |-> 4, race |-> 3, insert |-> 2, decide |-> 1, done |-> 0]

\* What is left of this attempt, and of four steps for each one more that the loop allows.
StepsLeft == 4 * (RetryCount + 1 - attempt) + Stage[pc]

\* Every step of send brings it closer to its end and no step of the provider takes it
\* back: a provider that stays silent, or answers late, cannot keep the loop going.
ComesCloser ==
  /\ Dispatcher => StepsLeft' < StepsLeft
  /\ ~Dispatcher => StepsLeft' = StepsLeft

\* While a send is under way it has at most 4 * RetryCount + 5 steps to go, and at least one.
LEMMA StepsAreBounded ==
  ASSUME IInv
  PROVE  /\ StepsLeft \in 0..(4 * RetryCount + 5)
         /\ pc # "done" => StepsLeft > 0
<1>1. attempt \in 1..(RetryCount + 1) /\ RetryCount \in Nat
  BY DispatchAssumption DEF IInv, TypeOK, Attempts
<1>2. Stage[pc] \in 0..5 /\ (pc # "done" => Stage[pc] > 0)
  BY DEF IInv, TypeOK, Stage
<1>3. QED
  BY <1>1, <1>2 DEF StepsLeft

\* Within an attempt the stage falls; a retry trades four steps for one attempt.
LEMMA CloserStep == IInv /\ [Next]_vars => ComesCloser \/ UNCHANGED vars
<1> SUFFICES ASSUME IInv, Next PROVE ComesCloser
  OBVIOUS
<1> DEFINE left == Stage[pc]
<1>1. attempt \in Nat /\ RetryCount \in Nat /\ left \in Nat
  <2>1. left \in 0..5
    BY DEF IInv, TypeOK, Stage
  <2>2. QED
    BY <2>1, DispatchAssumption DEF IInv, TypeOK, Attempts
<1>2. ASSUME Dispatcher
      PROVE  StepsLeft' < StepsLeft
  <2>1. CASE Retry
    <3>1. attempt' = attempt + 1 /\ left' = 4 /\ left = 1
      BY <2>1 DEF Retry, Stage
    <3>2. QED
      BY <1>1, <3>1 DEF StepsLeft
  <2>2. CASE ~Retry
    <3>1. attempt' = attempt /\ left' < left /\ left' \in Nat
      BY <1>2, <2>2
      DEF Dispatcher, Resolve, Unavailable, CallProvider, Answered, Refused, TimedOut, Settle,
          InsertDeliveryAttempt, InsertFails, Return, Throw, Stage
    <3>2. QED
      BY <1>1, <3>1 DEF StepsLeft
  <2>3. QED
    BY <2>1, <2>2
<1>3. ASSUME ~Dispatcher
      PROVE  StepsLeft' = StepsLeft
  BY <1>3 DEF Next, SmsLeaves, ProviderRefuses, StepsLeft
<1>4. QED
  BY <1>2, <1>3 DEF ComesCloser

\* A send makes at most 4 * RetryCount + 5 steps, for every retry count.
THEOREM SendIsBounded == Spec => [](StepsLeft \in 0..(4 * RetryCount + 5)) /\ [][ComesCloser]_vars
<1>1. IInv => StepsLeft \in 0..(4 * RetryCount + 5)
  BY StepsAreBounded
<1>2. IInv /\ [Next]_vars => [ComesCloser]_vars
  BY CloserStep
<1>3. QED
  BY Invariance, <1>1, <1>2, PTL DEF Spec
=============================================================================
