----------------------------- MODULE SmsDispatch -----------------------------
(***************************************************************************)
(* SmsDispatcher.send: one message, tried up to RetryCount + 1 times       *)
(* against a provider that may answer in time, late, or never, with a row  *)
(* of sms_delivery_attempts written after every try.                       *)
(*                                                                         *)
(* The provider is external: a request it holds may turn into an SMS at    *)
(* any later moment, for aborting the signal does not call it back.        *)
(***************************************************************************)
EXTENDS Integers, FiniteSets

CONSTANTS RetryCount

ASSUME DispatchAssumption == RetryCount \in Nat

Attempts == 1..(RetryCount + 1)
Failures == {"transient", "permanent", "configuration"}

VARIABLES
  pc, attempt,
  request,        \* the provider's side of each attempt: "none", "held", "sent", "refused"
  result,         \* what executeAttempt returned for each attempt
  row,            \* sms_delivery_attempts.delivery_status of each attempt
  caller          \* what send's caller has learnt

vars == <<pc, attempt, request, result, row, caller>>

Init ==
  /\ pc = "resolve"
  /\ attempt = 1
  /\ request = [a \in Attempts |-> "none"]
  /\ result = [a \in Attempts |-> "none"]
  /\ row = [a \in Attempts |-> "none"]
  /\ caller = "waiting"

\* send throws SMS_DELIVERY_UNAVAILABLE, or whatever an await threw.
Throw ==
  /\ pc' = "done"
  /\ caller' = "unavailable"

\* resolve() finds an active configuration whose provider is registered, allowed and valid.
Resolve ==
  /\ pc = "resolve"
  /\ pc' = "call"
  /\ UNCHANGED <<attempt, request, result, row, caller>>

\* No active row, no registered provider, mock outside development and test, or a
\* configuration or host the provider refuses: nothing is tried and no row is written.
Unavailable ==
  /\ pc = "resolve"
  /\ Throw
  /\ UNCHANGED <<attempt, request, result, row>>

(***************************************************************************)
(* executeAttempt.                                                         *)
(***************************************************************************)
CallProvider ==
  /\ pc = "call"
  /\ request' = [request EXCEPT ![attempt] = "held"]
  /\ pc' = "race"
  /\ UNCHANGED <<attempt, result, row, caller>>

\* The winner of Promise.race; the loser's outcome is dropped.
Settle(outcome) ==
  /\ pc = "race"
  /\ result' = [result EXCEPT ![attempt] = outcome]
  /\ pc' = "insert"

\* The provider's promise resolves to success, or to a failure it classifies.
Answered ==
  /\ request[attempt] = "sent"
  /\ Settle("success")
  /\ UNCHANGED <<attempt, request, row, caller>>

Refused ==
  /\ request[attempt] = "refused"
  /\ \E failure \in Failures : Settle(failure)
  /\ UNCHANGED <<attempt, request, row, caller>>

\* Mutant: no timer, so only a promise that settles ends the race.
TimerForgotten ==
  /\ request[attempt] = "sent"
  /\ Settle("transient")
  /\ UNCHANGED <<attempt, request, row, caller>>

\* The timer fires, or the promise rejects: both count as transient, whatever the provider
\* has done with the request or will do with it.
TimedOut ==
  /\ Settle("transient")
  /\ UNCHANGED <<attempt, request, row, caller>>

(***************************************************************************)
(* sendWithConfiguration after each attempt.                               *)
(***************************************************************************)
InsertDeliveryAttempt ==
  /\ pc = "insert"
  /\ row' = [row EXCEPT ![attempt] = IF result[attempt] = "success" THEN "sent" ELSE "failed"]
  /\ pc' = "decide"
  /\ UNCHANGED <<attempt, request, result, caller>>

\* The INSERT throws after the provider has answered: the loop is left without a row.
InsertFails ==
  /\ pc = "insert"
  /\ Throw
  /\ UNCHANGED <<attempt, request, result, row>>

\* Mutant: every failure is retried.
RetryableAny(outcome) == outcome # "success"

Retryable(outcome) == outcome = "transient"

\* Mutant: attempt <= retryCount + 1.
MoreAttemptsByOne == attempt <= RetryCount + 1

MoreAttempts == attempt <= RetryCount

\* delay(), then the next turn of the loop.
Retry ==
  /\ pc = "decide"
  /\ Retryable(result[attempt]) /\ MoreAttempts
  /\ attempt' = attempt + 1
  /\ pc' = "call"
  /\ UNCHANGED <<request, result, row, caller>>

\* Mutant: the last attempt's result is not looked at.
ReturnAlwaysDelivered ==
  /\ pc = "decide"
  /\ ~(Retryable(result[attempt]) /\ MoreAttempts)
  /\ pc' = "done"
  /\ caller' = "delivered"
  /\ UNCHANGED <<attempt, request, result, row>>

Return ==
  /\ pc = "decide"
  /\ ~(Retryable(result[attempt]) /\ MoreAttempts)
  /\ \/ result[attempt] = "success" /\ pc' = "done" /\ caller' = "delivered"
     \/ result[attempt] # "success" /\ Throw
  /\ UNCHANGED <<attempt, request, result, row>>

\* The provider hands the SMS to the network, in time or long after the dispatcher left.
SmsLeaves(a) ==
  /\ request[a] = "held"
  /\ request' = [request EXCEPT ![a] = "sent"]
  /\ UNCHANGED <<pc, attempt, result, row, caller>>

ProviderRefuses(a) ==
  /\ request[a] = "held"
  /\ request' = [request EXCEPT ![a] = "refused"]
  /\ UNCHANGED <<pc, attempt, result, row, caller>>

Dispatcher ==
  \/ Resolve \/ Unavailable \/ CallProvider
  \/ Answered \/ Refused \/ TimedOut
  \/ InsertDeliveryAttempt \/ InsertFails \/ Retry \/ Return

Next ==
  \/ Dispatcher
  \/ \E a \in Attempts : SmsLeaves(a) \/ ProviderRefuses(a)

Spec == Init /\ [][Next]_vars

\* Timers fire and awaited promises settle: the dispatcher never stops between two steps.
\* Nothing is asked of the provider.
FairSpec == Spec /\ WF_vars(Dispatcher)

-----------------------------------------------------------------------------
Sent == {a \in Attempts : request[a] = "sent"}

\* The attempts stay within retryCount + 1 and each keeps the values the code gives it.
TypeOK ==
  /\ pc \in {"resolve", "call", "race", "insert", "decide", "done"}
  /\ attempt \in Attempts
  /\ request \in [Attempts -> {"none", "held", "sent", "refused"}]
  /\ result \in [Attempts -> {"none", "success"} \union Failures]
  /\ row \in [Attempts -> {"none", "sent", "failed"}]
  /\ caller \in {"waiting", "delivered", "unavailable"}

\* DECISIONS.md: the dispatcher "retries only provider-classified transient failures": a
\* second SMS can only follow a first one whose answer was late or lost, and the rows of
\* all earlier attempts say "failed".
DuplicatesNeedLostAnswer ==
  \A a, b \in Attempts :
    a < b /\ request[b] # "none" =>
      /\ result[a] = "transient" /\ row[a] = "failed"

\* A caller that is told "delivered" has an SMS on its way and exactly one row says so: the
\* last one.
DeliveredIsSent ==
  caller = "delivered" =>
    /\ attempt \in Sent
    /\ {a \in Attempts : row[a] = "sent"} = {attempt}

\* A provider that never answers, on every attempt, still lets the request end.
SendEnds == <>(caller # "waiting")
=============================================================================
