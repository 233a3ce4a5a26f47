----------------------------- MODULE TicketSales -----------------------------
(***************************************************************************)
(* Entrance tickets of one facility and day: the capacity counter, the     *)
(* lifecycle policy, payments with their attempts, the provider's          *)
(* callbacks, and the ledger of processed provider events.                 *)
(*                                                                         *)
(* The repository holds the policy, the provider and the tables. The       *)
(* service that joins them is external: its transactions are the ones the  *)
(* tables' constraints and the tests' statements are made for, each with   *)
(* the row locks that make it one step. A callback is delivered any number *)
(* of times, in any order, whole or damaged.                               *)
(***************************************************************************)
EXTENDS Integers, FiniteSets

CONSTANTS
  Tickets, Quantity,    \* the tickets that may be bought, and for how many people each is
  MaxCapacity,          \* facility_capacities.max_capacity
  AttemptIds,           \* bound: the attempts there may be, as <<ticket, attempt_number>>
  Events,               \* bound: the provider's event ids
  Workers,              \* processes that handle callbacks
  NoEvent

ASSUME SalesAssumption ==
  /\ Quantity \in [Tickets -> Nat \ {0}]
  /\ MaxCapacity \in Nat
  /\ AttemptIds \subseteq Tickets \X (Nat \ {0})
  /\ NoEvent \notin Events

VARIABLES
  soldCount,    \* facility_capacities.sold_count
  status,       \* entrance_ticket_status of each ticket, "none" before it is bought
  used,         \* entrance_tickets.used_quantity
  payment,      \* payment_status of each ticket's payment
  attempt,      \* attempt_status by <<ticket, attempt_number>>
  callback,     \* what the provider reports with each event id
  ledger,       \* processed_provider_events
  job,          \* the event a worker has reserved in its open transaction
  settled       \* history: how often each event was acted upon

salesVars ==
  <<soldCount, status, used, payment, attempt, callback, ledger, job, settled>>

Statuses ==
  {"pending_payment", "confirmed", "partially_used", "fully_used",
   "canceled", "expired", "refunded", "disputed"}

PaymentStatuses == {"pending", "initiated", "verified"}

AttemptStatuses == {"initiated", "succeeded", "failed"}

\* PaymentCallbackVerificationResult; whole says whether the amount is the payment's.
Callbacks == [of : AttemptIds, outcome : {"succeeded", "failed"}, whole : BOOLEAN]

-----------------------------------------------------------------------------
(***************************************************************************)
(* EntranceTicketStatePolicy.                                              *)
(***************************************************************************)
InitialStatus == "pending_payment"

\* Mutant: a visitor may be refunded by cancelling a partly used ticket.
AllowedCancelInside ==
  [pending_payment |-> {"confirmed", "expired", "canceled"},
   confirmed       |-> {"partially_used", "fully_used", "canceled", "refunded", "disputed"},
   partially_used  |-> {"fully_used", "canceled", "refunded", "disputed"},
   fully_used      |-> {"disputed"},
   canceled |-> {}, expired |-> {}, refunded |-> {}, disputed |-> {}]

AllowedTransitions ==
  [pending_payment |-> {"confirmed", "expired", "canceled"},
   confirmed       |-> {"partially_used", "fully_used", "canceled", "refunded", "disputed"},
   partially_used  |-> {"fully_used", "refunded", "disputed"},
   fully_used      |-> {"disputed"},
   canceled |-> {}, expired |-> {}, refunded |-> {}, disputed |-> {}]

\* Mutant: a status change that is no change counts as one.
ClassifyWithoutNoop(from, to) ==
  IF from = to \/ to \in AllowedTransitions[from] THEN "legal" ELSE "illegal"

ClassifyTransition(from, to) ==
  IF from = to THEN "noop"
  ELSE IF to \in AllowedTransitions[from] THEN "legal" ELSE "illegal"

CanTransition(from, to) == ClassifyTransition(from, to) # "illegal"

-----------------------------------------------------------------------------
SalesInit ==
  /\ soldCount = 0
  /\ status = [t \in Tickets |-> "none"]
  /\ used = [t \in Tickets |-> 0]
  /\ payment = [t \in Tickets |-> "none"]
  /\ attempt = [a \in AttemptIds |-> "none"]
  /\ callback = [e \in Events |-> NoEvent]
  /\ ledger = {}
  /\ job = [w \in Workers |-> NoEvent]
  /\ settled = [e \in Events |-> 0]

\* sold_count stays within max_capacity.
Sellable(t) == soldCount + Quantity[t] <= MaxCapacity

\* UPDATE facility_capacities ... WHERE sold_count + qty <= max_capacity; then the ticket and
\* its one payment, in the same transaction.
Purchase(t) ==
  /\ status[t] = "none"
  /\ Sellable(t)
  /\ soldCount' = soldCount + Quantity[t]
  /\ status' = [status EXCEPT ![t] = InitialStatus]
  /\ payment' = [payment EXCEPT ![t] = "pending"]
  /\ UNCHANGED <<used, attempt, callback, ledger, job, settled>>

\* The UPDATE returns no row.
SoldOut(t) ==
  /\ status[t] = "none"
  /\ ~Sellable(t)
  /\ UNCHANGED salesVars

\* attempt_number is unique within a payment; the attempts are made in its order.
NextAttempt(t, a) ==
  /\ a[1] = t /\ attempt[a] = "none"
  /\ \A b \in AttemptIds : b[1] = t /\ b[2] < a[2] => attempt[b] # "none"

\* initiatePayment, with the next attempt's merchant reference; the provider may refuse.
Initiate(t, a) ==
  /\ status[t] = "pending_payment" /\ NextAttempt(t, a)
  /\ \E result \in {"initiated", "failed"} : attempt' = [attempt EXCEPT ![a] = result]
  /\ payment' = [payment EXCEPT ![t] = IF @ = "pending" THEN "initiated" ELSE @]
  /\ UNCHANGED <<soldCount, status, used, callback, ledger, job, settled>>

\* The provider reports on an attempt it holds, maybe several times and with any amount.
BuildCallback(e, c) ==
  /\ callback[e] = NoEvent
  /\ attempt[c.of] # "none"
  /\ callback' = [callback EXCEPT ![e] = c]
  /\ UNCHANGED <<soldCount, status, used, payment, attempt, ledger, job, settled>>

-----------------------------------------------------------------------------
(***************************************************************************)
(* A delivery of a callback, and the transaction that processes it.        *)
(***************************************************************************)
Forms == {"intact", "altered", "garbled"}

\* verifyCallback: parsePayload refuses what lacks a field, the signature what was altered.
VerifyCallback(form) ==
  IF form = "garbled" THEN "unrecognized"
  ELSE IF form = "altered" THEN "signature_invalid" ELSE "verified"

\* A delivery that is not verified is logged as rejected; its event id reserves nothing.
Reject(w, e, form) ==
  /\ job[w] = NoEvent /\ callback[e] # NoEvent
  /\ VerifyCallback(form) # "verified"
  /\ UNCHANGED salesVars

\* The unique index has no row of the event, in the table or in an open transaction.
Reservable(e) == e \notin ledger /\ \A w \in Workers : job[w] # e

\* Mutant: the row of the ledger is looked up, not reserved.
ReserveByLookup(w, e, form) ==
  /\ job[w] = NoEvent /\ callback[e] # NoEvent
  /\ VerifyCallback(form) = "verified"
  /\ e \notin ledger
  /\ job' = [job EXCEPT ![w] = e]
  /\ UNCHANGED <<soldCount, status, used, payment, attempt, callback, ledger, settled>>

\* INSERT INTO processed_provider_events: it waits while another transaction holds the same
\* key, and then hits the unique index or goes ahead.
Reserve(w, e, form) ==
  /\ job[w] = NoEvent /\ callback[e] # NoEvent
  /\ VerifyCallback(form) = "verified"
  /\ Reservable(e)
  /\ job' = [job EXCEPT ![w] = e]
  /\ UNCHANGED <<soldCount, status, used, payment, attempt, callback, ledger, settled>>

Duplicate(w, e) ==
  /\ job[w] = NoEvent /\ e \in ledger
  /\ UNCHANGED salesVars

\* The caller compares the reported amount with the payment's before it confirms.
Pays(c) == c.outcome = "succeeded" /\ c.whole

\* The rest of the transaction, from the payment's row lock to COMMIT. A success that comes
\* when the ticket is dead is recorded on the payment and leaves the ticket alone.
Settle(w) ==
  /\ job[w] # NoEvent
  /\ LET e == job[w]
         c == callback[e]
         t == c.of[1]
     IN /\ attempt' = [attempt EXCEPT ![c.of] =
             IF Pays(c) THEN "succeeded"
             ELSE IF c.outcome = "failed" /\ @ = "initiated" THEN "failed" ELSE @]
        /\ payment' = [payment EXCEPT ![t] = IF Pays(c) THEN "verified" ELSE @]
        /\ status' = [status EXCEPT ![t] =
             IF Pays(c) /\ ClassifyTransition(@, "confirmed") = "legal" THEN "confirmed" ELSE @]
        /\ ledger' = ledger \union {e}
        /\ settled' = [settled EXCEPT ![e] = @ + 1]
  /\ job' = [job EXCEPT ![w] = NoEvent]
  /\ UNCHANGED <<soldCount, used, callback>>

\* The process dies, or the transaction is rolled back: the reservation goes with it.
Crash(w) ==
  /\ job[w] # NoEvent
  /\ job' = [job EXCEPT ![w] = NoEvent]
  /\ UNCHANGED <<soldCount, status, used, payment, attempt, callback, ledger, settled>>

-----------------------------------------------------------------------------
\* The statuses in which a ticket's places are back on sale.
Released == {"expired", "canceled"}

\* The expiry job, the buyer or an administrator asks for a status, at any time and again.
Request(t, to) ==
  /\ status[t] # "none"
  /\ IF ClassifyTransition(status[t], to) = "legal"
     THEN /\ status' = [status EXCEPT ![t] = to]
          /\ soldCount' = IF to \in Released THEN soldCount - Quantity[t] ELSE soldCount
     ELSE UNCHANGED <<soldCount, status>>
  /\ UNCHANGED <<used, payment, attempt, callback, ledger, job, settled>>

\* used_quantity stays within quantity.
Fits(t, n) == used[t] + n <= Quantity[t]

UsedStatus(t, n) == IF used[t] + n = Quantity[t] THEN "fully_used" ELSE "partially_used"

\* n people of the ticket go in, under its row lock. The second part of a group is
\* partially_used -> partially_used, a noop: the policy tells callers to skip side effects
\* there, the count asks for one. The caller does not exist yet and may do either.
Enter(t, n) ==
  /\ status[t] # "none" /\ Fits(t, n)
  /\ CanTransition(status[t], UsedStatus(t, n))
  /\ status' = [status EXCEPT ![t] = UsedStatus(t, n)]
  /\ \/ used' = [used EXCEPT ![t] = @ + n]
     \/ ClassifyTransition(status[t], UsedStatus(t, n)) = "noop" /\ UNCHANGED used
  /\ UNCHANGED <<soldCount, payment, attempt, callback, ledger, job, settled>>

SalesNext ==
  \/ \E t \in Tickets :
       \/ Purchase(t) \/ SoldOut(t)
       \/ \E a \in AttemptIds : Initiate(t, a)
       \/ \E to \in {"expired", "canceled", "refunded", "disputed"} : Request(t, to)
       \/ \E n \in 1..Quantity[t] : Enter(t, n)
  \/ \E e \in Events, c \in Callbacks : BuildCallback(e, c)
  \/ \E w \in Workers :
       \/ Settle(w) \/ Crash(w)
       \/ \E e \in Events :
            \/ Duplicate(w, e)
            \/ \E form \in Forms : Reject(w, e, form) \/ Reserve(w, e, form)

SalesSpec == SalesInit /\ [][SalesNext]_salesVars

-----------------------------------------------------------------------------
SalesTypeOK ==
  /\ soldCount \in Nat
  /\ status \in [Tickets -> Statuses \union {"none"}]
  /\ used \in [Tickets -> Nat]
  /\ payment \in [Tickets -> PaymentStatuses \union {"none"}]
  /\ attempt \in [AttemptIds -> AttemptStatuses \union {"none"}]
  /\ callback \in [Events -> Callbacks \union {NoEvent}]
  /\ ledger \subseteq Events
  /\ job \in [Workers -> Events \union {NoEvent}]
  /\ settled \in [Events -> Nat]

\* The tickets on which money may have been or may still be paid, or that were used.
Holding == {t \in Tickets : status[t] \notin Released \union {"none"}}

\* The places they hold, one for each of their people.
PlacesHeld == UNION {{t} \X (1..Quantity[t]) : t \in Holding}

\* sold_count is what the tickets hold and never above the capacity, however purchases,
\* callbacks, expiry and cancellations overlap or repeat: no place is sold twice and none
\* comes back twice or never.
BooksBalance == soldCount = Cardinality(PlacesHeld) /\ soldCount <= MaxCapacity

\* The ledger is "the true global exactly-once guarantee": two workers with one event, a
\* crash between the reservation and COMMIT, a redelivery at any time act on it once.
EventActsOnce == \A e \in Events : settled[e] = IF e \in ledger THEN 1 ELSE 0

\* Nobody goes in on a ticket for which no verified callback of the full amount has been
\* processed, and no ticket that has let anybody in is put back on sale.
EntriesPaid ==
  \A t \in Tickets : used[t] > 0 =>
    /\ status[t] \notin Released
    /\ \E e \in ledger : callback[e].of[1] = t /\ callback[e].outcome = "succeeded"
                         /\ callback[e].whole
=============================================================================
