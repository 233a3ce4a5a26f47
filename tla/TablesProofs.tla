---------------------------- MODULE TablesProofs ----------------------------
(***************************************************************************)
(* Theorems about two of the components that MCTables runs.                *)
(*                                                                         *)
(* Tickets: the books balance, every provider event acts once, and nobody  *)
(* goes in unpaid, for any tickets, attempts, events and workers.          *)
(*                                                                         *)
(* Keys: a rotation in stages never makes anything unreadable, for any     *)
(* keys, replicas, runs and items; and the secrets a run shows are the     *)
(* stored ones.                                                            *)
(***************************************************************************)
EXTENDS TicketSales, KeyRings, FiniteSetTheorems, TLAPS

\* The reservations: one open transaction an event, none for an event that is in the ledger.
Reservations ==
  /\ \A w \in Workers : job[w] # NoEvent => job[w] \notin ledger /\ callback[job[w]] # NoEvent
  /\ \A v, w \in Workers : job[v] # NoEvent /\ job[v] = job[w] => v = w
  /\ \A e \in ledger : callback[e] # NoEvent

\* Attempts are of tickets that were bought, callbacks of attempts that were made.
Known ==
  /\ \A a \in AttemptIds : attempt[a] # "none" => status[a[1]] # "none"
  /\ \A e \in Events : callback[e] # NoEvent => attempt[callback[e].of] # "none"

\* A callback of the ticket's full amount has been processed.
PaidFor(t) ==
  \E e \in ledger : callback[e].of[1] = t /\ callback[e].outcome = "succeeded" /\ callback[e].whole

\* What the status of a ticket says of the people it has let in.
Admitted(t) ==
  /\ status[t] \in Released \union {"none", "pending_payment", "confirmed"} => used[t] = 0
  /\ status[t] \in {"confirmed", "partially_used", "fully_used"} \/ used[t] > 0 => PaidFor(t)

Entries == \A t \in Tickets : Admitted(t)

SalesInv ==
  /\ SalesTypeOK /\ Reservations /\ EventActsOnce /\ Known /\ Entries
  /\ IsFiniteSet(PlacesHeld) /\ BooksBalance

-----------------------------------------------------------------------------
(***************************************************************************)
(* The policy.                                                             *)
(***************************************************************************)
\* Only an unpaid ticket is confirmed.
LEMMA ConfirmedFrom ==
  ASSUME NEW s \in Statuses, ClassifyTransition(s, "confirmed") = "legal"
  PROVE  s = "pending_payment"
BY DEF Statuses, ClassifyTransition, AllowedTransitions

\* People go in on confirmed and partly used tickets, and on a fully used one only by a
\* change that is none.
LEMMA UsedFrom ==
  ASSUME NEW s \in Statuses, NEW to \in {"partially_used", "fully_used"}, CanTransition(s, to)
  PROVE  s \in {"confirmed", "partially_used"} \/ s = to
BY DEF Statuses, CanTransition, ClassifyTransition, AllowedTransitions

\* Places come back from tickets on which nobody has gone in, and once.
LEMMA ReleasedFrom ==
  ASSUME NEW s \in Statuses, NEW to \in Released, ClassifyTransition(s, to) = "legal"
  PROVE  s \in {"pending_payment", "confirmed"}
BY DEF Statuses, Released, ClassifyTransition, AllowedTransitions

\* What has been released stays so.
LEMMA ReleasedIsFinal ==
  ASSUME NEW s \in Statuses, NEW to \in Statuses, ClassifyTransition(s, to) = "legal"
  PROVE  s \notin Released
BY DEF Statuses, Released, ClassifyTransition, AllowedTransitions

-----------------------------------------------------------------------------
(***************************************************************************)
(* The places.                                                             *)
(***************************************************************************)
PlacesOf(t) == {t} \X (1..Quantity[t])

\* A ticket has as many places as people.
LEMMA PlacesCounted ==
  ASSUME NEW t \in Tickets
  PROVE  IsFiniteSet(PlacesOf(t)) /\ Cardinality(PlacesOf(t)) = Quantity[t]
<1>1. Quantity[t] \in Nat
  BY SalesAssumption
<1>2. IsFiniteSet(1..Quantity[t]) /\ Cardinality(1..Quantity[t]) = Quantity[t]
  BY <1>1, FS_Interval
<1> DEFINE f == [k \in 1..Quantity[t] |-> <<t, k>>]
<1>3. f \in Bijection(1..Quantity[t], PlacesOf(t))
  BY DEF Bijection, Injection, IsInjective, Surjection, PlacesOf
<1>4. ExistsBijection(1..Quantity[t], PlacesOf(t))
  BY <1>3, Zenon DEF ExistsBijection
<1> QED BY <1>2, <1>4, FS_Bijection

\* While the same tickets hold places the books stay as they are.
LEMMA BooksKept ==
  ASSUME SalesInv, soldCount' = soldCount, Holding' = Holding
  PROVE  (IsFiniteSet(PlacesHeld) /\ BooksBalance)'
BY DEF SalesInv, PlacesHeld, BooksBalance

\* One ticket more.
LEMMA BooksAdd ==
  ASSUME SalesInv, NEW t \in Tickets \ Holding,
         soldCount + Quantity[t] <= MaxCapacity,
         soldCount' = soldCount + Quantity[t], Holding' = Holding \union {t}
  PROVE  (IsFiniteSet(PlacesHeld) /\ BooksBalance)'
<1>1. PlacesHeld' = PlacesHeld \union PlacesOf(t)
  BY DEF PlacesHeld, PlacesOf
<1>2. PlacesHeld \intersect PlacesOf(t) = {}
  BY DEF PlacesHeld, PlacesOf
<1>3. /\ IsFiniteSet(PlacesHeld \union PlacesOf(t))
      /\ Cardinality(PlacesHeld \union PlacesOf(t)) = Cardinality(PlacesHeld) + Quantity[t] - 0
  BY <1>2, PlacesCounted, FS_Union, FS_EmptySet DEF SalesInv
<1>4. soldCount = Cardinality(PlacesHeld) /\ soldCount \in Nat /\ Quantity[t] \in Nat
  BY SalesAssumption DEF SalesInv, BooksBalance, SalesTypeOK
<1> QED BY <1>1, <1>3, <1>4 DEF BooksBalance

\* One ticket less.
LEMMA BooksRemove ==
  ASSUME SalesInv, NEW t \in Holding,
         soldCount' = soldCount - Quantity[t], Holding' = Holding \ {t}
  PROVE  (IsFiniteSet(PlacesHeld) /\ BooksBalance)' /\ soldCount' \in Nat
<1>1. t \in Tickets /\ Quantity[t] \in Nat
  BY SalesAssumption DEF Holding
<1>2. PlacesHeld = PlacesHeld' \union PlacesOf(t) /\ PlacesHeld' \in SUBSET PlacesHeld
  BY DEF PlacesHeld, PlacesOf
<1>3. PlacesHeld' \intersect PlacesOf(t) = {}
  BY DEF PlacesHeld, PlacesOf
<1>4. IsFiniteSet(PlacesHeld')
  BY <1>2, FS_Subset DEF SalesInv
<1>5. Cardinality(PlacesHeld' \union PlacesOf(t)) = Cardinality(PlacesHeld') + Quantity[t] - 0
  BY <1>1, <1>3, <1>4, PlacesCounted, FS_Union, FS_EmptySet
<1>6. Cardinality(PlacesHeld') \in Nat
  BY <1>4, FS_CardinalityType
<1>7. soldCount = Cardinality(PlacesHeld) /\ soldCount \in Nat /\ soldCount <= MaxCapacity
  BY DEF SalesInv, BooksBalance, SalesTypeOK
<1>8. soldCount' = Cardinality(PlacesHeld') /\ soldCount' <= MaxCapacity
  BY <1>1, <1>2, <1>5, <1>6, <1>7, SalesAssumption
<1> QED BY <1>4, <1>6, <1>8 DEF BooksBalance

-----------------------------------------------------------------------------
(***************************************************************************)
(* The steps.                                                              *)
(***************************************************************************)
\* Nothing is bought at first.
LEMMA SalesInitInv ==
  ASSUME SalesInit
  PROVE  SalesInv
<1>1. SalesTypeOK
  BY DEF SalesInit, SalesTypeOK
<1>2. Reservations /\ EventActsOnce /\ Known
  BY DEF SalesInit, Reservations, EventActsOnce, Known
<1>3. Entries
  BY SalesAssumption DEF SalesInit, Entries, Admitted, Released
<1>4. Holding = {} /\ PlacesHeld = {}
  BY DEF SalesInit, Holding, PlacesHeld
<1>5. IsFiniteSet(PlacesHeld) /\ BooksBalance
  BY <1>4, FS_EmptySet, SalesAssumption DEF SalesInit, BooksBalance
<1> QED BY <1>1, <1>2, <1>3, <1>5 DEF SalesInv

\* A step that changes nothing.
LEMMA SalesStutter ==
  ASSUME SalesInv, UNCHANGED salesVars
  PROVE  SalesInv'
<1>1. SalesTypeOK' /\ Reservations' /\ EventActsOnce' /\ Known'
  BY DEF SalesInv, SalesTypeOK, Reservations, EventActsOnce, Known, salesVars
<1>2. Entries'
  BY DEF SalesInv, Entries, Admitted, PaidFor, salesVars
<1>3. Holding' = Holding
  BY DEF Holding, salesVars
<1>4. (IsFiniteSet(PlacesHeld) /\ BooksBalance)'
  BY <1>3, BooksKept DEF salesVars
<1> QED BY <1>1, <1>2, <1>4 DEF SalesInv

\* A purchase takes the places it counts.
LEMMA PurchaseKeeps ==
  ASSUME SalesInv, NEW t \in Tickets, Purchase(t)
  PROVE  SalesInv'
<1> USE DEF SalesInv
<1>1. SalesTypeOK'
  <2>1. soldCount' \in Nat
    <3>1. Quantity[t] \in Nat
      BY SalesAssumption
    <3>2. soldCount \in Nat
      BY DEF SalesTypeOK
    <3>3. soldCount' = soldCount + Quantity[t]
      BY DEF Purchase
    <3> QED BY <3>1, <3>2, <3>3
  <2>2. status' \in [Tickets -> Statuses \union {"none"}]
    BY DEF Purchase, SalesTypeOK, Statuses, InitialStatus
  <2>3. payment' \in [Tickets -> PaymentStatuses \union {"none"}]
    BY DEF Purchase, SalesTypeOK, PaymentStatuses
  <2> QED BY <2>1, <2>2, <2>3 DEF Purchase, SalesTypeOK
<1>2. Reservations' /\ EventActsOnce'
  BY DEF Purchase, Reservations, EventActsOnce
<1>3. \A x \in Tickets : status'[x] = IF x = t THEN "pending_payment" ELSE status[x]
  BY DEF Purchase, SalesTypeOK, InitialStatus
<1>4. Known'
  BY <1>3, SalesAssumption DEF Purchase, Known
<1>5. Entries'
  BY <1>3 DEF Purchase, Entries, Admitted, PaidFor, Released
<1>6. t \in Tickets \ Holding /\ Holding' = Holding \union {t}
  BY <1>3 DEF Purchase, Holding, Released
<1>7. (IsFiniteSet(PlacesHeld) /\ BooksBalance)'
  BY <1>6, BooksAdd DEF Purchase, Sellable
<1> QED BY <1>1, <1>2, <1>4, <1>5, <1>7

\* An attempt is made for a ticket that was bought.
LEMMA InitiateKeeps ==
  ASSUME SalesInv, NEW t \in Tickets, NEW a \in AttemptIds, Initiate(t, a)
  PROVE  SalesInv'
<1> USE DEF SalesInv
<1>1. SalesTypeOK'
  BY DEF Initiate, SalesTypeOK, AttemptStatuses, PaymentStatuses
<1>2. Reservations' /\ EventActsOnce'
  BY DEF Initiate, Reservations, EventActsOnce
<1>3. \A b \in AttemptIds : /\ b # a => attempt'[b] = attempt[b]
                            /\ attempt'[a] # "none"
  BY DEF Initiate, SalesTypeOK
<1>4. Known'
  BY <1>3 DEF Initiate, NextAttempt, Known, SalesTypeOK
<1>5. Entries'
  BY DEF Initiate, Entries, Admitted, PaidFor
<1>6. Holding' = Holding
  BY DEF Initiate, Holding
<1>7. (IsFiniteSet(PlacesHeld) /\ BooksBalance)'
  BY <1>6, BooksKept DEF Initiate
<1> QED BY <1>1, <1>2, <1>4, <1>5, <1>7

\* A new event says something of an attempt; no processed event changes what it says.
LEMMA BuildKeeps ==
  ASSUME SalesInv, NEW e \in Events, NEW c \in Callbacks, BuildCallback(e, c)
  PROVE  SalesInv'
<1> USE DEF SalesInv
<1>1. SalesTypeOK'
  BY DEF BuildCallback, SalesTypeOK
<1>2. \A x \in Events : callback'[x] = IF x = e THEN c ELSE callback[x]
  BY DEF BuildCallback, SalesTypeOK
<1>3. c # NoEvent \/ c = NoEvent
  OBVIOUS
<1>4. e \notin ledger /\ \A w \in Workers : job[w] # e
  BY SalesAssumption DEF BuildCallback, Reservations
<1>5. EventActsOnce'
  BY DEF BuildCallback, EventActsOnce
<1>6. Reservations'
  BY <1>2, <1>4 DEF BuildCallback, Reservations, SalesTypeOK
<1>7. Known'
  BY <1>2 DEF BuildCallback, Known
<1>8. \A x \in ledger : callback'[x] = callback[x]
  BY <1>2, <1>4 DEF SalesTypeOK
<1>9. Entries'
  BY <1>8 DEF BuildCallback, Entries, Admitted, PaidFor
<1>10. Holding' = Holding
  BY DEF BuildCallback, Holding
<1>11. (IsFiniteSet(PlacesHeld) /\ BooksBalance)'
  BY <1>10, BooksKept DEF BuildCallback
<1> QED BY <1>1, <1>5, <1>6, <1>7, <1>9, <1>11

\* A reservation is alone with its event.
LEMMA ReserveKeeps ==
  ASSUME SalesInv, NEW w \in Workers, NEW e \in Events, NEW form \in Forms, Reserve(w, e, form)
  PROVE  SalesInv'
<1> USE DEF SalesInv
<1>1. SalesTypeOK'
  BY DEF Reserve, SalesTypeOK
<1>2. \A v \in Workers : job'[v] = IF v = w THEN e ELSE job[v]
  BY DEF Reserve, SalesTypeOK
<1>3. Reservations'
  BY <1>2 DEF Reserve, Reservable, Reservations
<1>4. EventActsOnce' /\ Known'
  BY DEF Reserve, EventActsOnce, Known
<1>5. Entries'
  BY DEF Reserve, Entries, Admitted, PaidFor
<1>6. Holding' = Holding
  BY DEF Reserve, Holding
<1>7. (IsFiniteSet(PlacesHeld) /\ BooksBalance)'
  BY <1>6, BooksKept DEF Reserve
<1> QED BY <1>1, <1>3, <1>4, <1>5, <1>7

\* A crash gives the reservation back.
LEMMA CrashKeeps ==
  ASSUME SalesInv, NEW w \in Workers, Crash(w)
  PROVE  SalesInv'
<1> USE DEF SalesInv
<1>1. SalesTypeOK'
  BY DEF Crash, SalesTypeOK
<1>2. \A v \in Workers : job'[v] = IF v = w THEN NoEvent ELSE job[v]
  BY DEF Crash, SalesTypeOK
<1>3. Reservations'
  BY <1>2 DEF Crash, Reservations
<1>4. EventActsOnce' /\ Known'
  BY DEF Crash, EventActsOnce, Known
<1>5. Entries'
  BY DEF Crash, Entries, Admitted, PaidFor
<1>6. Holding' = Holding
  BY DEF Crash, Holding
<1>7. (IsFiniteSet(PlacesHeld) /\ BooksBalance)'
  BY <1>6, BooksKept DEF Crash
<1> QED BY <1>1, <1>3, <1>4, <1>5, <1>7

\* The rest of a worker's transaction: only its reservation lets it act, and only a full
\* payment confirms.
LEMMA SettleKeeps ==
  ASSUME SalesInv, NEW w \in Workers, Settle(w)
  PROVE  SalesInv'
<1> USE DEF SalesInv
<1> DEFINE e == job[w]
           c == callback[e]
           t == c.of[1]
<1>1. e \in Events /\ e \notin ledger /\ c \in Callbacks /\ c.of \in AttemptIds /\ t \in Tickets
  BY SalesAssumption DEF Settle, Reservations, SalesTypeOK, Callbacks
<1>2. status[t] \in Statuses
  BY <1>1 DEF Known, SalesTypeOK, Settle, Reservations
<1> DEFINE confirms == Pays(c) /\ ClassifyTransition(status[t], "confirmed") = "legal"
<1>3. \A x \in Tickets : status'[x] = IF x = t /\ confirms THEN "confirmed" ELSE status[x]
  BY DEF Settle, SalesTypeOK
<1>4. confirms => status[t] = "pending_payment"
  BY <1>2, ConfirmedFrom
<1>5. ledger' = ledger \union {e} /\ callback' = callback
  BY DEF Settle
<1>6. \A v \in Workers : job'[v] = IF v = w THEN NoEvent ELSE job[v]
  BY DEF Settle, SalesTypeOK
<1>7. \A x \in Events : settled'[x] = IF x = e THEN settled[x] + 1 ELSE settled[x]
  BY DEF Settle, SalesTypeOK
<1>8. SalesTypeOK'
  <2>1. status' \in [Tickets -> Statuses \union {"none"}]
    BY DEF Settle, SalesTypeOK, Statuses
  <2>2. payment' \in [Tickets -> PaymentStatuses \union {"none"}]
    BY DEF Settle, SalesTypeOK, PaymentStatuses
  <2>3. attempt' \in [AttemptIds -> AttemptStatuses \union {"none"}]
    BY DEF Settle, SalesTypeOK, AttemptStatuses
  <2>4. ledger' \subseteq Events /\ settled' \in [Events -> Nat]
    BY <1>1, <1>5 DEF Settle, SalesTypeOK
  <2>5. job' \in [Workers -> Events \union {NoEvent}]
    BY DEF Settle, SalesTypeOK
  <2> QED BY <2>1, <2>2, <2>3, <2>4, <2>5 DEF Settle, SalesTypeOK
<1>9. Reservations'
  BY <1>1, <1>5, <1>6 DEF Reservations, Settle
<1>10. EventActsOnce'
  BY <1>1, <1>5, <1>7 DEF EventActsOnce
<1>11. Known'
  <2>1. \A a \in AttemptIds : attempt'[a] # "none" => attempt[a] # "none" \/ a = c.of
    BY DEF Settle, SalesTypeOK
  <2>2. \A a \in AttemptIds : attempt[a] # "none" => attempt'[a] # "none"
    BY DEF Settle, SalesTypeOK
  <2>3. \A x \in Tickets : status[x] # "none" => status'[x] # "none"
    BY <1>3
  <2>4. \A a \in AttemptIds : a[1] \in Tickets
    BY SalesAssumption
  <2>5. \A a \in AttemptIds : attempt'[a] # "none" => status'[a[1]] # "none"
    BY <1>2, <2>1, <2>3, <2>4 DEF Known, Statuses
  <2>6. \A x \in Events : callback'[x] # NoEvent => attempt'[callback'[x].of] # "none"
    <3> SUFFICES ASSUME NEW x \in Events, callback[x] # NoEvent
                 PROVE  attempt'[callback[x].of] # "none"
      BY <1>5
    <3>1. callback[x].of \in AttemptIds
      BY DEF SalesTypeOK, Callbacks
    <3> QED BY <3>1, <2>2 DEF Known
  <2> QED BY <2>5, <2>6 DEF Known
<1>12. Entries'
  <2>1. \A x \in Tickets : PaidFor(x) => PaidFor(x)'
    BY <1>5 DEF PaidFor
  <2>2. ASSUME NEW x \in Tickets, x = t, confirms
        PROVE  PaidFor(x)'
    <3>1. e \in ledger' /\ callback'[e] = c
      BY <1>5
    <3>2. c.of[1] = x /\ c.outcome = "succeeded" /\ c.whole
      BY <2>2, Zenon DEF Pays
    <3> HIDE DEF e, c
    <3> QED BY <3>1, <3>2, Zenon DEF PaidFor
  <2>3. ASSUME NEW x \in Tickets, x = t, confirms
        PROVE  Admitted(x)'
    <3>1. PaidFor(x)'
      BY <2>2, <2>3
    <3>2. status'[x] = "confirmed" /\ status[x] = "pending_payment"
      BY <1>3, <1>4, <2>3
    <3>3. used' = used
      BY DEF Settle
    <3> QED BY <3>1, <3>2, <3>3 DEF Entries, Admitted, Released
  <2>4. ASSUME NEW x \in Tickets, ~(x = t /\ confirms)
        PROVE  Admitted(x)'
    <3>1. status'[x] = status[x] /\ used' = used
      BY <1>3, <2>4 DEF Settle
    <3> QED BY <3>1, <2>1 DEF Entries, Admitted
  <2> QED BY <2>3, <2>4 DEF Entries
<1>13. Holding' = Holding
  BY <1>3, <1>4 DEF Holding, Released
<1>14. (IsFiniteSet(PlacesHeld) /\ BooksBalance)'
  BY <1>13, BooksKept DEF Settle
<1> QED BY <1>8, <1>9, <1>10, <1>11, <1>12, <1>14

\* A request that is legal gives the places back once, and only before anybody has gone in.
LEMMA RequestKeeps ==
  ASSUME SalesInv, NEW t \in Tickets,
         NEW to \in {"expired", "canceled", "refunded", "disputed"}, Request(t, to)
  PROVE  SalesInv'
<1> USE DEF SalesInv
<1>1. CASE ClassifyTransition(status[t], to) # "legal"
  BY <1>1, SalesStutter DEF Request, salesVars
<1>2. CASE ClassifyTransition(status[t], to) = "legal"
  <2>1. status[t] \in Statuses /\ to \in Statuses
    BY DEF Request, SalesTypeOK, Statuses
  <2>2. status[t] \notin Released /\ status[t] # "none" /\ t \in Holding
    BY <1>2, <2>1, ReleasedIsFinal DEF Request, Holding
  <2>3. \A x \in Tickets : status'[x] = IF x = t THEN to ELSE status[x]
    BY <1>2 DEF Request, SalesTypeOK
  <2>4. (IsFiniteSet(PlacesHeld) /\ BooksBalance)' /\ soldCount' \in Nat
    <3>1. CASE to \in Released
      <4>1. soldCount' = soldCount - Quantity[t]
        BY <1>2, <3>1 DEF Request
      <4>2. Holding' = Holding \ {t}
        BY <2>3, <3>1 DEF Holding
      <4> QED BY <2>2, <4>1, <4>2, BooksRemove
    <3>2. CASE to \notin Released
      <4>1. soldCount' = soldCount
        BY <1>2, <3>2 DEF Request
      <4>2. Holding' = Holding
        BY <2>2, <2>3, <3>2 DEF Holding
      <4> QED BY <4>1, <4>2, BooksKept DEF SalesTypeOK
    <3> QED BY <3>1, <3>2
  <2>5. SalesTypeOK'
    BY <1>2, <2>1, <2>4 DEF Request, SalesTypeOK
  <2>6. Reservations' /\ EventActsOnce'
    BY DEF Request, Reservations, EventActsOnce
  <2>7. Known'
    BY <2>3, SalesAssumption DEF Request, Known
  <2>8. to \in Released => used[t] = 0
    BY <1>2, <2>1, ReleasedFrom DEF Entries, Admitted
  <2>9. ASSUME NEW x \in Tickets
        PROVE  Admitted(x)'
    <3>1. used' = used /\ PaidFor(x)' = PaidFor(x) /\ Admitted(x)
      BY DEF Request, PaidFor, Entries
    <3>2. CASE x = t
      BY <2>3, <2>8, <3>1, <3>2 DEF Admitted, Released
    <3>3. CASE x # t
      BY <2>3, <3>1, <3>3 DEF Admitted
    <3> QED BY <3>2, <3>3
  <2> QED BY <2>4, <2>5, <2>6, <2>7, <2>9 DEF Entries
<1> QED BY <1>1, <1>2

\* People go in on a paid ticket, and leave it used, whether or not a noop is counted.
LEMMA EnterKeeps ==
  ASSUME SalesInv, NEW t \in Tickets, NEW n \in 1..Quantity[t], Enter(t, n)
  PROVE  SalesInv'
<1> USE DEF SalesInv
<1> DEFINE to == UsedStatus(t, n)
<1>1. n \in Nat \ {0} /\ Quantity[t] \in Nat /\ used[t] \in Nat
  BY SalesAssumption DEF SalesTypeOK
<1>2. to \in {"partially_used", "fully_used"} /\ status[t] \in Statuses
  BY DEF UsedStatus, Enter, SalesTypeOK
<1>3. status[t] \in {"confirmed", "partially_used", "fully_used"}
  BY <1>2, UsedFrom DEF Enter
<1>4. \A x \in Tickets : status'[x] = IF x = t THEN to ELSE status[x]
  BY DEF Enter, SalesTypeOK
<1>5. \A x \in Tickets : x # t => used'[x] = used[x]
  BY DEF Enter, SalesTypeOK
<1>6. SalesTypeOK'
  BY <1>1, <1>2 DEF Enter, SalesTypeOK, Statuses
<1>7. Reservations' /\ EventActsOnce'
  BY DEF Enter, Reservations, EventActsOnce
<1>8. Known'
  BY <1>2, <1>4, SalesAssumption DEF Enter, Known
<1>9. ASSUME NEW x \in Tickets
      PROVE  Admitted(x)'
  <2>1. PaidFor(x)' = PaidFor(x) /\ Admitted(x)
    BY DEF Enter, PaidFor, Entries
  <2>2. CASE x = t
    <3>1. PaidFor(t)'
      BY <1>3, <2>1, <2>2 DEF Admitted
    <3>2. status'[t] \in {"partially_used", "fully_used"}
      BY <1>2, <1>4
    <3> QED BY <2>2, <3>1, <3>2 DEF Admitted, Released
  <2>3. CASE x # t
    BY <1>4, <1>5, <2>1, <2>3 DEF Admitted
  <2> QED BY <2>2, <2>3
<1>10. Holding' = Holding
  BY <1>2, <1>3, <1>4 DEF Holding, Released
<1>11. (IsFiniteSet(PlacesHeld) /\ BooksBalance)'
  BY <1>10, BooksKept DEF Enter
<1> QED BY <1>6, <1>7, <1>8, <1>9, <1>11 DEF Entries

\* Every step keeps the invariant.
LEMMA SalesNextInv ==
  ASSUME SalesInv, [SalesNext]_salesVars
  PROVE  SalesInv'
<1>1. CASE UNCHANGED salesVars
  BY <1>1, SalesStutter
<1>2. ASSUME NEW t \in Tickets, Purchase(t) \/ SoldOut(t)
      PROVE  SalesInv'
  BY <1>2, PurchaseKeeps, SalesStutter DEF SoldOut
<1>3. ASSUME NEW t \in Tickets, NEW a \in AttemptIds, Initiate(t, a)
      PROVE  SalesInv'
  BY <1>3, InitiateKeeps
<1>4. ASSUME NEW t \in Tickets, NEW to \in {"expired", "canceled", "refunded", "disputed"},
             Request(t, to)
      PROVE  SalesInv'
  BY <1>4, RequestKeeps
<1>5. ASSUME NEW t \in Tickets, NEW n \in 1..Quantity[t], Enter(t, n)
      PROVE  SalesInv'
  BY <1>5, EnterKeeps
<1>6. ASSUME NEW e \in Events, NEW c \in Callbacks, BuildCallback(e, c)
      PROVE  SalesInv'
  BY <1>6, BuildKeeps
<1>7. ASSUME NEW w \in Workers, Settle(w) \/ Crash(w)
      PROVE  SalesInv'
  BY <1>7, SettleKeeps, CrashKeeps
<1>8. ASSUME NEW w \in Workers, NEW e \in Events, NEW form \in Forms,
             Duplicate(w, e) \/ Reject(w, e, form) \/ Reserve(w, e, form)
      PROVE  SalesInv'
  BY <1>8, ReserveKeeps, SalesStutter DEF Duplicate, Reject
<1>9. ASSUME NEW w \in Workers, NEW e \in Events, Duplicate(w, e)
      PROVE  SalesInv'
  BY <1>9, SalesStutter DEF Duplicate
<1> QED BY <1>1, <1>2, <1>3, <1>4, <1>5, <1>6, <1>7, <1>8, <1>9, Zenon DEF SalesNext

-----------------------------------------------------------------------------
(***************************************************************************)
(* The theorems.                                                           *)
(***************************************************************************)
\* The strengthened invariant of ticket sales, payments and entry.
THEOREM SalesInvariance == SalesSpec => []SalesInv
<1>1. SalesInit => SalesInv
  BY SalesInitInv
<1>2. SalesInv /\ [SalesNext]_salesVars => SalesInv'
  BY SalesNextInv
<1> QED BY <1>1, <1>2, PTL DEF SalesSpec

\* Every variable keeps its type; in particular sold_count never becomes negative.
THEOREM SalesTypeCorrect == SalesSpec => []SalesTypeOK
<1>1. SalesInv => SalesTypeOK
  BY DEF SalesInv
<1> QED BY <1>1, SalesInvariance, PTL

\* No place is sold twice, none comes back twice or never (sold_count against the tickets).
THEOREM BooksBalanceHolds == SalesSpec => []BooksBalance
<1>1. SalesInv => BooksBalance
  BY DEF SalesInv
<1> QED BY <1>1, SalesInvariance, PTL

\* Each provider event acts once, across workers, crashes and redeliveries.
THEOREM EventActsOnceHolds == SalesSpec => []EventActsOnce
<1>1. SalesInv => EventActsOnce
  BY DEF SalesInv
<1> QED BY <1>1, SalesInvariance, PTL

\* Nobody goes in on a ticket that is unpaid, and no ticket that has let anybody in is put
\* back on sale, whichever way the caller treats a noop.
THEOREM EntriesPaidHolds == SalesSpec => []EntriesPaid
<1>1. SalesInv => EntriesPaid
  <2> SUFFICES ASSUME SalesInv, NEW t \in Tickets, used[t] > 0
               PROVE  status[t] \notin Released /\ PaidFor(t)
    BY DEF EntriesPaid, PaidFor
  <2>1. Admitted(t)
    BY DEF SalesInv, Entries
  <2> QED BY <2>1 DEF Admitted
<1> QED BY <1>1, SalesInvariance, PTL

-----------------------------------------------------------------------------
\* A running process seals with a key every running process holds, and the store too.
ActiveIsEverywhere ==
  \A p \in Procs : Up(p) =>
    /\ activeKey[p] \in storeRing
    /\ \A q \in Procs : Up(q) => activeKey[p] \in ring[q]

\* Likewise the key that the next process to start will seal with.
NextIsEverywhere == storeActive \in storeRing => EveryProcessHolds(storeActive)

\* What is sealed can be opened by every running process, and by the next to start.
SealedIsEverywhere ==
  \A i \in Items : sealedBy[i] # NoKey =>
    /\ sealedBy[i] \in storeRing
    /\ \A p \in Procs : Up(p) => sealedBy[i] \in ring[p]

\* A run between its prompts and its end is a running process.
RunsAreUp == \A o \in Runs : stage[o] \in {"up", "sealed", "committed"} => Up(o)

KeysInv ==
  /\ KeysTypeOK /\ ActiveIsEverywhere /\ NextIsEverywhere /\ SealedIsEverywhere
  /\ RunsAreUp /\ ShownIsStored

\* Nothing runs and nothing is sealed.
LEMMA KeysInitInv == KeysInit => KeysInv
<1> SUFFICES ASSUME KeysInit PROVE KeysInv
  OBVIOUS
<1> USE KeyAssumption
<1>1. KeysTypeOK
  BY DEF KeysInit, KeysTypeOK, Stages
<1>2. ActiveIsEverywhere /\ NextIsEverywhere /\ SealedIsEverywhere /\ ShownIsStored /\ RunsAreUp
  BY DEF KeysInit, RunsAreUp, ActiveIsEverywhere, NextIsEverywhere, EveryProcessHolds, Up,
         SealedIsEverywhere, ShownIsStored
<1> QED BY <1>1, <1>2 DEF KeysInv

\* The keys, where they are and what they have sealed do not depend on the stages of runs.
LEMMA RingsKept ==
  ASSUME KeysInv,
         UNCHANGED <<storeRing, storeActive, ring, activeKey, sealedBy>>
  PROVE  (ActiveIsEverywhere /\ NextIsEverywhere /\ SealedIsEverywhere)'
BY DEF KeysInv, ActiveIsEverywhere, NextIsEverywhere, EveryProcessHolds, Up, SealedIsEverywhere

\* A process that ends takes its copy of the ring with it.
LEMMA LeaveKeeps ==
  ASSUME KeysInv, NEW p \in Procs, Leave(p),
         UNCHANGED <<storeRing, storeActive, sealedBy>>
  PROVE  (ActiveIsEverywhere /\ NextIsEverywhere /\ SealedIsEverywhere)'
<1>1. \A q \in Procs : Up(q)' => Up(q) /\ ring'[q] = ring[q] /\ activeKey'[q] = activeKey[q]
  BY DEF Leave, Up, KeysInv, KeysTypeOK
<1>2. \A q \in Procs : Up(q)' = (ring'[q] # {})
  BY DEF Up
<1> QED BY <1>1, <1>2 DEF KeysInv, ActiveIsEverywhere, NextIsEverywhere, EveryProcessHolds,
                          SealedIsEverywhere

\* A process that starts holds all the store holds, and seals with what all others hold.
LEMMA ReadStoreKeeps ==
  ASSUME KeysInv, NEW p \in Procs, ReadStore(p), Bootable,
         UNCHANGED <<storeRing, storeActive, sealedBy>>
  PROVE  (ActiveIsEverywhere /\ NextIsEverywhere /\ SealedIsEverywhere)'
<1>1. storeActive \in storeRing
  BY DEF Bootable, ActiveInRing
<1>2. /\ ring'[p] = storeRing /\ activeKey'[p] = storeActive
      /\ \A q \in Procs \ {p} : ring'[q] = ring[q] /\ activeKey'[q] = activeKey[q]
  BY DEF ReadStore, KeysInv, KeysTypeOK
<1>3. \A q \in Procs : Up(q)' = (ring'[q] # {}) /\ Up(q) = (ring[q] # {})
  BY DEF Up
<1>4. \A q \in Procs : Up(q)' => storeActive \in ring'[q]
  BY <1>1, <1>2, <1>3 DEF KeysInv, NextIsEverywhere, EveryProcessHolds
<1>5. ActiveIsEverywhere'
  BY <1>1, <1>2, <1>3, <1>4 DEF KeysInv, ActiveIsEverywhere
<1>6. NextIsEverywhere'
  BY <1>4 DEF NextIsEverywhere, EveryProcessHolds
<1>7. SealedIsEverywhere'
  BY <1>2, <1>3 DEF KeysInv, SealedIsEverywhere
<1> QED BY <1>5, <1>6, <1>7

\* An item is sealed with a key that is everywhere.
LEMMA SealKeeps ==
  ASSUME KeysInv, NEW p \in Procs, Up(p), NEW i \in Items,
         sealedBy' = [sealedBy EXCEPT ![i] = activeKey[p]],
         UNCHANGED <<storeRing, storeActive, ring, activeKey>>
  PROVE  /\ (ActiveIsEverywhere /\ NextIsEverywhere /\ SealedIsEverywhere)'
         /\ activeKey[p] \in Keys
<1>1. activeKey[p] \in storeRing /\ \A q \in Procs : Up(q) => activeKey[p] \in ring[q]
  BY DEF KeysInv, ActiveIsEverywhere
<1>2. activeKey[p] \in Keys
  BY <1>1 DEF KeysInv, KeysTypeOK
<1>3. \A j \in Items : sealedBy'[j] = IF j = i THEN activeKey[p] ELSE sealedBy[j]
  BY DEF KeysInv, KeysTypeOK
<1>4. \A q \in Procs : Up(q)' = Up(q)
  BY DEF Up
<1>5. SealedIsEverywhere'
  BY <1>1, <1>3, <1>4 DEF KeysInv, SealedIsEverywhere
<1>6. ActiveIsEverywhere' /\ NextIsEverywhere'
  BY <1>4 DEF KeysInv, ActiveIsEverywhere, NextIsEverywhere, EveryProcessHolds
<1> QED BY <1>2, <1>5, <1>6

\* Every step of operators, replicas and runs keeps the invariant.
LEMMA KeysNextInv == KeysInv /\ [KeysNext]_keyVars => KeysInv'
<1> SUFFICES ASSUME KeysInv, [KeysNext]_keyVars PROVE KeysInv'
  OBVIOUS
<1> USE KeyAssumption
<1>1. ASSUME NEW k \in Keys, AddKey(k) PROVE KeysInv'
  <2>1. KeysTypeOK' /\ ShownIsStored' /\ RunsAreUp'
    BY <1>1 DEF AddKey, KeysInv, KeysTypeOK, ShownIsStored, RunsAreUp, Up
  <2>2. /\ storeRing' = storeRing \union {k}
        /\ UNCHANGED <<storeActive, ring, activeKey, sealedBy>>
    BY <1>1 DEF AddKey
  <2>3. ActiveIsEverywhere' /\ SealedIsEverywhere'
    BY <2>2 DEF KeysInv, ActiveIsEverywhere, SealedIsEverywhere, Up
  <2>4. NextIsEverywhere'
    BY <1>1, <2>2 DEF AddKey, Stageable, NextIsEverywhere, EveryProcessHolds, Up
  <2> QED BY <2>1, <2>3, <2>4 DEF KeysInv
<1>2. ASSUME NEW k \in Keys, Activate(k) PROVE KeysInv'
  <2>1. KeysTypeOK' /\ ShownIsStored' /\ RunsAreUp'
    BY <1>2 DEF Activate, KeysInv, KeysTypeOK, ShownIsStored, RunsAreUp, Up
  <2>2. storeActive' = k /\ UNCHANGED <<storeRing, ring, activeKey, sealedBy>>
    BY <1>2 DEF Activate
  <2>3. ActiveIsEverywhere' /\ SealedIsEverywhere'
    BY <2>2 DEF KeysInv, ActiveIsEverywhere, SealedIsEverywhere, Up
  <2>4. NextIsEverywhere'
    BY <1>2, <2>2 DEF Activate, Stageable, NextIsEverywhere, EveryProcessHolds, Up
  <2> QED BY <2>1, <2>3, <2>4 DEF KeysInv
<1>3. ASSUME NEW k \in Keys, Retire(k) PROVE KeysInv'
  <2>1. KeysTypeOK' /\ ShownIsStored' /\ RunsAreUp'
    BY <1>3 DEF Retire, KeysInv, KeysTypeOK, ShownIsStored, RunsAreUp, Up
  <2>2. storeRing' = storeRing \ {k} /\ UNCHANGED <<storeActive, ring, activeKey, sealedBy>>
    BY <1>3 DEF Retire
  <2>3. ActiveIsEverywhere' /\ SealedIsEverywhere' /\ NextIsEverywhere'
    BY <1>3, <2>2 DEF Retire, KeysInv, ActiveIsEverywhere, SealedIsEverywhere, NextIsEverywhere,
                      EveryProcessHolds, Up
  <2> QED BY <2>1, <2>3 DEF KeysInv
<1>4. ASSUME NEW r \in Replicas, Boot(r) PROVE KeysInv'
  <2>1. KeysTypeOK' /\ ShownIsStored' /\ RunsAreUp'
    BY <1>4 DEF Boot, ReadStore, Procs, KeysInv, KeysTypeOK, ShownIsStored, RunsAreUp, Up
  <2> QED BY <1>4, <2>1, ReadStoreKeeps DEF Boot, Procs, KeysInv
<1>5. ASSUME NEW r \in Replicas, Stop(r) PROVE KeysInv'
  <2>1. KeysTypeOK' /\ ShownIsStored' /\ RunsAreUp'
    BY <1>5 DEF Stop, Leave, Procs, KeysInv, KeysTypeOK, ShownIsStored, RunsAreUp, Up
  <2> QED BY <1>5, <2>1, LeaveKeeps DEF Stop, Procs, KeysInv
<1>6. ASSUME NEW r \in Replicas, NEW i \in Rows, Up(r), SealWith(r, i),
             UNCHANGED <<purpose, storeRing, storeActive, ring, activeKey, account, stage>>
      PROVE  KeysInv'
  <2>1. r \in Procs /\ i \in Items /\ i # Factor
    BY DEF Procs, Items
  <2>2. sealedBy' = [sealedBy EXCEPT ![i] = activeKey[r]]
    BY <1>6 DEF SealWith
  <2>3. /\ ActiveIsEverywhere' /\ NextIsEverywhere' /\ SealedIsEverywhere'
        /\ activeKey[r] \in Keys
    BY <1>6, <2>1, <2>2, SealKeeps
  <2>4. KeysTypeOK' /\ ShownIsStored' /\ RunsAreUp'
    BY <1>6, <2>1, <2>2, <2>3 DEF KeysInv, KeysTypeOK, ShownIsStored, Items, RunsAreUp, Up
  <2> QED BY <2>3, <2>4 DEF KeysInv
<1>7. ASSUME NEW i \in Rows, TokenExpires(i) PROVE KeysInv'
  <2>1. i \in Items /\ i # Factor
    BY DEF Items
  <2>2. KeysTypeOK' /\ ShownIsStored' /\ RunsAreUp'
    BY <1>7, <2>1 DEF TokenExpires, KeysInv, KeysTypeOK, ShownIsStored, Items, RunsAreUp, Up
  <2>3. /\ \A j \in Items : sealedBy'[j] # NoKey => sealedBy'[j] = sealedBy[j]
        /\ UNCHANGED <<storeRing, storeActive, ring, activeKey>>
    BY <1>7 DEF TokenExpires, KeysInv, KeysTypeOK
  <2>4. ActiveIsEverywhere' /\ NextIsEverywhere' /\ SealedIsEverywhere'
    BY <2>3 DEF KeysInv, ActiveIsEverywhere, NextIsEverywhere, EveryProcessHolds, Up,
                SealedIsEverywhere
  <2> QED BY <2>2, <2>4 DEF KeysInv
<1>8. ASSUME NEW o \in Runs, StartRun(o) PROVE KeysInv'
  <2>1. KeysTypeOK' /\ ShownIsStored'
    BY <1>8 DEF StartRun, ReadStore, Procs, KeysInv, KeysTypeOK, ShownIsStored, Stages
  <2>2. o \in Procs /\ storeRing # {}
    BY <1>8 DEF StartRun, Bootable, NonEmptyRing, Procs
  <2>3. \A x \in Runs : ring'[x] = (IF x = o THEN storeRing ELSE ring[x])
                       /\ stage'[x] = (IF x = o THEN "up" ELSE stage[x])
    BY <1>8, <2>2 DEF StartRun, ReadStore, Procs, KeysInv, KeysTypeOK
  <2>4. RunsAreUp'
    BY <2>2, <2>3 DEF KeysInv, RunsAreUp, Up
  <2> QED BY <1>8, <2>1, <2>4, ReadStoreKeeps DEF StartRun, Procs, KeysInv
<1>9. ASSUME NEW o \in Runs, Generate(o) PROVE KeysInv'
  <2>1. KeysTypeOK' /\ ShownIsStored' /\ RunsAreUp'
    BY <1>9 DEF Generate, KeysInv, KeysTypeOK, ShownIsStored, Stages, RunsAreUp, Up
  <2> QED BY <1>9, <2>1, RingsKept DEF Generate, KeysInv
<1>10. ASSUME NEW o \in Runs, Commit(o) PROVE KeysInv'
  <2>1. o \in Procs /\ Up(o) /\ Factor \in Items
    BY <1>10 DEF Commit, KeysInv, RunsAreUp, Procs, Items
  <2>2. /\ ActiveIsEverywhere' /\ NextIsEverywhere' /\ SealedIsEverywhere'
        /\ activeKey[o] \in Keys
    BY <1>10, <2>1, SealKeeps DEF Commit, InsertAccount
  <2>3. KeysTypeOK' /\ RunsAreUp'
    BY <1>10, <2>1, <2>2 DEF Commit, InsertAccount, KeysInv, KeysTypeOK, RunsAreUp, Up, Stages
  <2>4. ShownIsStored'
    BY <1>10, <2>1, <2>2 DEF Commit, EmailFree, InsertAccount, KeysInv, KeysTypeOK, ShownIsStored
  <2> QED BY <2>2, <2>3, <2>4 DEF KeysInv
<1>11. ASSUME NEW o \in Runs, CommitUnanswered(o) PROVE KeysInv'
  <2>1. /\ o \in Procs /\ Up(o) /\ Factor \in Items
        /\ activeKey[o] \in Keys /\ activeKey[o] \in storeRing
        /\ \A q \in Procs : Up(q) => activeKey[o] \in ring[q]
    BY <1>11 DEF CommitUnanswered, KeysInv, KeysTypeOK, RunsAreUp, ActiveIsEverywhere, Procs, Items
  <2>2. /\ account' = o
        /\ sealedBy' = [sealedBy EXCEPT ![Factor] = activeKey[o]]
        /\ stage' = [stage EXCEPT ![o] = "failed"]
        /\ Leave(o)
        /\ UNCHANGED <<purpose, storeRing, storeActive>>
    BY <1>11 DEF CommitUnanswered, InsertAccount, EndRun
  <2>3. KeysTypeOK' /\ RunsAreUp'
    BY <2>1, <2>2 DEF Leave, KeysInv, KeysTypeOK, RunsAreUp, Up, Stages, Procs
  <2>4. ShownIsStored'
    BY <1>11, <2>1, <2>2 DEF CommitUnanswered, EmailFree, KeysInv, KeysTypeOK, ShownIsStored
  <2>5. \A q \in Procs : ring'[q] # {} =>
          ring[q] # {} /\ ring'[q] = ring[q] /\ activeKey'[q] = activeKey[q]
    BY <2>1, <2>2 DEF Leave, KeysInv, KeysTypeOK
  <2>6. ActiveIsEverywhere' /\ NextIsEverywhere'
    BY <2>2, <2>5 DEF KeysInv, ActiveIsEverywhere, NextIsEverywhere, EveryProcessHolds, Up
  <2>7. \A j \in Items : sealedBy'[j] = IF j = Factor THEN activeKey[o] ELSE sealedBy[j]
    BY <2>2 DEF KeysInv, KeysTypeOK
  <2>8. SealedIsEverywhere'
    BY <2>1, <2>2, <2>5, <2>7 DEF KeysInv, SealedIsEverywhere, Up
  <2> QED BY <2>3, <2>4, <2>6, <2>8 DEF KeysInv
<1>12. ASSUME NEW o \in Runs, RunFails(o) \/ Show(o) PROVE KeysInv'
  <2>1. /\ o \in Procs /\ Leave(o)
        /\ \/ stage' = [stage EXCEPT ![o] = "failed"]
           \/ stage[o] = "committed" /\ stage' = [stage EXCEPT ![o] = "shown"]
        /\ UNCHANGED <<purpose, storeRing, storeActive, sealedBy, account>>
    BY <1>12 DEF RunFails, Show, EndRun, Procs
  <2>2. KeysTypeOK' /\ RunsAreUp'
    BY <2>1 DEF Leave, KeysInv, KeysTypeOK, RunsAreUp, Up, Stages, Procs
  <2>3. ShownIsStored'
    BY <2>1 DEF KeysInv, KeysTypeOK, ShownIsStored
  <2> QED BY <2>1, <2>2, <2>3, LeaveKeeps DEF KeysInv
<1>13. CASE UNCHANGED keyVars
  <2>1. KeysTypeOK' /\ RunsAreUp' /\ ShownIsStored'
    BY <1>13 DEF keyVars, KeysInv, KeysTypeOK, RunsAreUp, Up, ShownIsStored
  <2> QED BY <1>13, <2>1, RingsKept DEF keyVars, KeysInv
<1>14. ASSUME NEW r \in Replicas, NEW i \in Rows, NEW source \in Rows,
              CreateConfiguration(r, i) \/ IssueAccessToken(r, i) \/ CreateRevision(r, source, i)
       PROVE  KeysInv'
  BY <1>6, <1>14 DEF CreateConfiguration, IssueAccessToken, CreateRevision
<1>15. ASSUME NEW p \in Procs, BootRefused(p) PROVE KeysInv'
  BY <1>13, <1>15 DEF BootRefused
<1> QED
  BY <1>1, <1>2, <1>3, <1>4, <1>5, <1>7, <1>8, <1>9, <1>10, <1>11, <1>12, <1>13, <1>14, <1>15
  DEF KeysNext

\* The inductive invariant of the key rings holds of every state.
THEOREM KeysInvariance == KeysSpec => []KeysInv
BY KeysInitInv, KeysNextInv, PTL DEF KeysSpec

\* Rings, keys, payloads, the account and the runs have their types.
THEOREM KeysTypeCorrect == KeysSpec => []KeysTypeOK
<1>1. KeysInv => KeysTypeOK
  BY DEF KeysInv
<1> QED BY KeysInvariance, <1>1, PTL

\* A rotation in stages leaves every configuration, factor and live token readable by every
\* running process.
THEOREM ReadableHolds == KeysSpec => []Readable
<1>1. KeysInv => Readable
  BY DEF KeysInv, SealedIsEverywhere, Readable, Existing, Opens, Verifies
<1> QED BY KeysInvariance, <1>1, PTL

\* However many runs overlap and wherever they die, only the run whose secrets are stored
\* shows them.
THEOREM ShownIsStoredHolds == KeysSpec => []ShownIsStored
<1>1. KeysInv => ShownIsStored
  BY DEF KeysInv
<1> QED BY KeysInvariance, <1>1, PTL
=============================================================================
