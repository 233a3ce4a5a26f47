# Public Parks backend: TLA+ models, checks and proofs

The repository is a NestJS service over PostgreSQL (raw SQL transactions at READ COMMITTED,
row locks, unique indexes) and Redis (counters, cooldowns, short-lived challenges), with an
external SMS provider. Paths below are relative to the repository root. The code that keeps
state over several steps, and whose steps overlap between requests, is authentication
(`src/auth`), the SMS configurations and their dispatcher (`src/notifications`), the facility
listing (`src/facilities`) and the partition commands. For entrance tickets, payments and gate scans this
commit holds a policy, a mock provider and the tables with their constraints, but not yet the service
that joins them: its transactions are modelled as external, from what the tables, the types and the
decisions ask of it. Slot booking, QR codes, sync and analytics are schema or stubs.

## 1. Inventory

| Component | State it keeps | Operations | What is hard | What makes it correct |
|---|---|---|---|---|
| Sessions and refresh tokens (`authentication.repository.ts`, `authentication.service.ts`, `authentication.controller.ts`, `access-token.guard.ts`) | `authentication_sessions`, `refresh_tokens` | login, rotate a token, detect the reuse of one, revoke a session, read a session on every request | two refreshes of one token, refresh against revocation, row-lock deadlocks, a revocation of two statements without a transaction, two expiries | one usable token and one chain of tokens per session; a revoked session stays dead; requests end |
| One-time codes (same files, `rate-limit.service.ts`) | `otp_challenges`; Redis cooldown, phone and address counters | request a code (limits, invalidate, insert, deliver, mark a failed delivery), verify one | attempts at once, a code used before its delivery is reported, requests that stall past the cooldown, expiry of keys and rows | one login per challenge; at most five guesses; final statuses; one pending challenge per phone |
| Super Admin login (same files) | Redis challenge and counters, `totp_factors.last_accepted_time_step`, `totp_recovery_codes.used_at` | password step, code step (limit, factor transaction, DEL, session transaction) | GET then DEL on Redis, two readings of the clock, a crash between two transactions | evidence opens one session; stored time steps only grow; guesses are bounded |
| SMS configurations (`sms-configuration.repository.ts`, `.service.ts`, `.resolver.ts`) | `sms_provider_configurations` | create, patch a draft, revise, test, activate, deactivate, resolve the active one | two administrators at once, locks taken in different orders, a sender that keeps an old row | at most one active row, always the tested revision; a switch leaves no gap; dense revision numbers |
| SMS dispatcher (`sms-dispatcher.ts`, `sms-otp-delivery.adapter.ts`) | `sms_delivery_attempts` | send with a timeout, record, retry | an answer after the timeout, a row that cannot be written, a provider that never answers | a second SMS only after a lost answer; "delivered" is true; a send ends |
| Facility listing and cursors (`facilities.repository.ts`, `facilities.service.ts`, `common/pagination`) | none of its own; the cursor is in the client's hands | list a page, get one facility | rows that change between two pages, ties at a page's end, a cursor of other filters | a walk shows what kept its place exactly once |
| Partition commands (`audit-logs/maintain-partitions.ts` and its two copies) | PostgreSQL partitions | create the next months | a run that comes late, rows that come late | no row in the default partition; a run can be repeated |
| Rate limits (`rate-limit.service.ts`) | Redis counters and cooldown keys | count in a fixed window, set a cooldown | windows that begin at different times | used inside the two login modules |
| Entrance tickets (`entrance-ticket-state.policy.ts`, `entrance_tickets`, `facility_capacities`) | ticket status, `used_quantity`, `sold_count` | buy, confirm, expire, cancel, refund, dispute, let people in (callers external) | late, repeated and out-of-order events; the last free places; a group that enters in parts | the counter is what the tickets hold; entry only on paid tickets, and no used one is sold again |
| Payments (`mock-payment.provider.ts`, `payments`, `payment_attempts`, `processed_provider_events`) | payment and attempt status, the ledger of processed events | initiate, verify a callback, process it (external) | duplicated, altered and concurrent callbacks; a crash after the reservation | an event acts exactly once |
| Gate tables (`check_ins`; `qr_codes`, `staff_assignments`) | rows in month partitions | store a scan (external) | offline scans pushed again, a unique index that ends at a partition | a scan is one row |
| Keys (`env.schema.ts`, `security-config.service.ts`, `field-encryption.service.ts`, `jwt-token.service.ts`) | two key rings with their active ids, per process; the key id in each payload and token | validate at start, seal, open, sign, verify | replicas on different environments during a rotation; rows sealed for ever | what is sealed stays readable everywhere |
| Provisioning (`provision-super-admin.ts`) | the account, its factor and codes | one transaction from a terminal, then the secrets are shown once | runs at once, a COMMIT without an answer | what is shown is what is stored |
| Mock SMS provider and inbox | at most 100 messages for ten minutes | – | – | not modelled |
| Guards, hashing, validation, errors, logging, OpenAPI, other configuration, migrations | none over time | – | – | not modelled |

How they interact: a code request runs through the rate limits and the `otp_challenges`
transaction, then calls the OTP adapter, which resolves the active SMS configuration and runs the
dispatcher; a failed delivery comes back and marks the challenge. Both logins end by inserting a
session with its first refresh token. Every authenticated request reads its session row again, so
a revocation takes effect at once. Configuration changes, and the provisioning of an
administrator, write `audit_logs`, whose months the partition command provides; the same command
serves `check_ins` and `webhook_events`. SMS credentials, the TOTP secret and access tokens carry the id
of the key they were sealed with, and every process opens them with the ring it read when it started.

`PROJECT.json` lists the hazards line by line with the properties that cover them.

## 2. Modules

| Module | Models |
|---|---|
| `AuthSessions` | rows, row locks and overlapping calls of login, refresh, replay, revocation |
| `TokenFamily`, `AuthSessionsRefinement` | the abstract promise (a session has one current token, replaced by fresh ones, killed for good) and the mapping of the rows to it |
| `OtpChallenges` | requests and attempts with their Redis keys, transactions and the delivery |
| `OneTimeCodes`, `OtpChallengesRefinement` | the abstract promise (a code is issued once, takes a bounded number of guesses one at a time, opens one session, is dead for good once used, used up, withdrawn or replaced) and the mapping of the rows to it |
| `SuperAdminLogin` | password requests and code logins with Redis, the factor's row lock and both transactions |
| `SmsConfigurations` | the rows, locks and overlapping administrator calls, and senders that hold what they resolved |
| `SmsDispatch` | one send: attempts, the race against the timer, delivery rows, retries |
| `FacilityListing` | the SELECT, the cursor check and the page, a client's walk, and writes in between |
| `MonthlyPartitions` | the clock, the months, rows, and runs of the command |
| `CheckIns` | extends it: scans by key, the leaf each is routed to, the unique index of a leaf, replays |
| `TicketSales` | the capacity counter, tickets, payments, attempts, callbacks, workers with the ledger, entry |
| `KeyRings` | the secret store, what each process read of it, sealed items, runs of the provisioning command |
| `AuthSessionsProofs`, `OtpChallengesProofs`, `SuperAdminLoginProofs`, `SmsConfigurationsProofs`, `SmsDispatchProofs`, `MonthlyPartitionsProofs` (with `CheckIns`), `FacilityListingProofs`, `TablesProofs` (`TicketSales` and `KeyRings`) | theorems |
| `MC*` | model values and symmetry sets for TLC; `MCTables` puts `CheckIns`, `TicketSales` and `KeyRings` side by side |

Conventions. A column of a table is a function of its own over the keys. A transaction's writes
appear at COMMIT and its row locks live until then, so a transaction is: the steps that lock or read,
a control value (`pc`, `rpc`, `lpc`, `op`) for what it has decided, and one step that writes
and releases. Statements outside a transaction are steps of their own, and so is every
`await` on Redis or on a provider. `Faults` lets a connection or the process die between any two
steps of a call; an open transaction is then rolled back, committed statements stay. A history
variable (`parent`, `abandoned`, `logins`, `guesses`, `opened`, `times`, `moved`, `hidden`,
`lapsed`, `settled`) is never read by a guard. Definitions that begin with "Mutant:" are plausible bugs that
`PROJECT.json` names, each of which makes a property fail.

How state and actions correspond to the code:

- `AuthSessions`. `LockToken`, `LockSession` and `LockFamily` are the two `SELECT ... FOR UPDATE`
  and the `UPDATE` of all the session's tokens in `rotateRefreshToken`; `Decision` is its chain of
  early returns; `CommitRotation`, `CommitRevocation`, `Rollback` end the transaction.
  `RevokeSessionRow` and `RevokeTokenRows` are the two statements of `revokeSession`, which commit
  separately. `DeadlockVictim` is PostgreSQL aborting one of two waiters. `user_id` and
  `client_type` never change and are constants.
- `OtpChallenges`. One step for SET NX of the cooldown, one for each counter, then the transaction
  (UPDATE of what it sees pending, INSERT, COMMIT), the delivery, and the marking of a failed one. An
  attempt locks the row, then counts a wrong code or consumes the challenge and opens a session.
  A code is right or wrong; 60 s, 15 min, 5 min become small numbers.
- `SuperAdminLogin`. A tick is a TOTP step of 30 s. `VerifyTotp` compares against the clock it
  reads, `StoreTimeStep` adds the delta to the clock as read later, as the code does. `Prompt`
  excludes that a login crosses a step between those two readings, or waits a whole step between GET
  and INCR; the violation run lifts it.
- `SmsConfigurations`. The platform scope, the only one the code writes. `LockActive` waits for each
  row that its UPDATE found; `CommitActivation` applies both UPDATEs.
- `SmsDispatch`. A request that timed out may still turn into an SMS: `SmsLeaves` stays possible
  for ever.
- `FacilityListing`. Ids, names and distances are numbers in their order; the search is the set of
  names, and of facilities by address or description, it finds. Nothing in `src` writes facilities;
  the writes are external. A cursor is its decoded payload; malformed ones are refused the same way.
- `MonthlyPartitions`. The months of one table; the three commands differ only in its name. `Late`
  covers offline scans pushed after their month's end. PostgreSQL's refusal to create a partition
  whose rows the default already holds is external.
- `CheckIns`. A scan stands for its key of `uidx_check_ins__idempotency` (device, code, minute); `rows` lists the
  leaf of each of its rows. `KeyMonth` is the partition key that the migration chose, the minute of the scan
  (`0007_thin_purple_man.sql:21`); `Leaf` is where PostgreSQL routes it now, `UniqueViolation` the search of that leaf's
  index alone. `Push` is an INSERT that meets no violation, `Replay` one that does. The INSERTs are external: no code
  writes the table yet. Were the key the time of arrival, as in `audit_logs`, a replay of the next month would be a
  second row (the mutant). `Insert`, `Maintain` and the clock are those of `MonthlyPartitions`.
- `TicketSales`. `AllowedTransitions`, `ClassifyTransition`, `CanTransition` are the policy; `Initiate`,
  `BuildCallback`, `VerifyCallback` the mock provider (a refusal that was programmed for a reference is a choice,
  a payload is intact, altered or garbled). `Reserve` is the INSERT into `processed_provider_events`, which
  waits while another open transaction holds the key; `Settle` is the rest of that transaction under the payment's
  row lock (DECISIONS.md:21), `Crash` its rollback. `Purchase` is the conditional UPDATE that the schema quotes
  at `drizzle.schema.ts:461`, `Request` every status that expiry, a buyer or an administrator asks for, `Enter` staff
  letting in a part of a group; where the status does not change it may count the people or not, see *Disagreements
  found*. These callers are external: where the code will differ, this module has to follow.
- `KeyRings`. `AddKey`, `Activate`, `Retire` are what operators do in the secret store, `Boot` is `validateEnv` with
  the ring that `SecurityConfigService` then parses, `SealWith`, `Opens`, `Verifies` are `encryptJson`, `decryptJson`,
  `issueAccessToken` and `verifyAccessToken` up to the key they take. `Generate`, `Commit`, `Show` and the failures are
  `provision-super-admin`. The guards of the operators are a discipline the code depends on and does not enforce:
  a key becomes active only when every running process holds it, and is retired only when nothing carries its id. What
  happens outside that discipline is not modelled. A
  mistyped active id stays possible, and `BootRefused` catches it.

## 3. What TLC checks

| Run | Bounds | Shows |
|---|---|---|
| `AuthSessions_safety` | 1 user, a resident and an administrator session, 4 tokens, 2 calls, 2 instants, faults; 734 000 states up to symmetry | `OneActiveToken`, `NoForkedFamily`, `RevokedFamilyIsDead`, `NoTokenBornInDeadSession`; the rows implement `TokenFamily` |
| `AuthSessions_ends` | 1 session, 3 tokens, 2 calls, faults, fairness; 242 000 states | every call ends (`CallsEnd`) |
| `AuthSessions_reuse` | 4 tokens, 2 calls, no fault | violation: a deadlock victim forgets a reuse it detected |
| `OtpChallenges_signin` | 1 phone, 3 challenges, 2 requests, 2 attempts, 4 instants, faults, `Prompt`; 901 000 states | `OneLoginPerChallenge`, `GuessBudget`, `OnePendingPerPhone`; the rows implement `OneTimeCodes` |
| `OtpChallenges_stalled` | as above without `Prompt` | violation: two pending challenges of one phone |
| `SuperAdminLogin_signin` | 2 administrators (one without a factor), 1 request, 2 logins, a recovery code, 3 time steps, faults, `Prompt`; 1 406 000 states | `OneLoginPerRecoveryCode`, `OneLoginPerTimeStep`, `TimeStepsAdvance`, `GuessBudget` |
| `SuperAdminLogin_boundary` | 1 administrator, 2 logins, not `Prompt` | violation: a code opens two sessions across a 30 s boundary |
| `SmsConfigurations_change` | 3 configurations of 2 providers, 2 calls, 1 sender, faults; 554 000 states | `OneActive`, `ActiveIsTested`, `SentWithTested`, `NoOutage`, `NoDeadlock`, `RevisionsInOrder` |
| `SmsDispatch_send` | 3 retries, the schema's maximum; 1083 states | `DuplicatesNeedLostAnswer`, `DeliveredIsSent`, `SendEnds` |
| `FacilityListing_walk` | every table of 3 facilities, 2 names, 2 distances, 2 types; 4 queries; pages of 1 or 2 rows; 1 write per walk; 588 000 states | `NoRepeat`, `NothingSkipped`, `ListedIsFound` |
| `MonthlyPartitions_kept` | scans: months 0 to 8, 3 months ahead, one scan a month and one of the month before, replays of any age. Tickets: 3 tickets (a group of 3 and two visitors) for 4 places, 3 attempts, 2 events, 2 workers. Keys: 3 keys, 2 replicas, 2 runs, 2 rows, each ring. 985 000 states up to symmetry | `ScheduleSuffices`, `ReplayAbsorbed`; `BooksBalance`, `EventActsOnce`, `EntriesPaid`; `Readable`, `ShownIsStored` |
| `MonthlyPartitions_late` | the same | violation: after a lapse the command cannot complete |

Each passing run also checks a `TypeOK`.

Why the bounds are enough. The races are between two transactions on one row: two calls meet them,
and a third actor is the client (replays), the clock or a fault. A session needs three tokens to
rotate twice while an old one is replayed; four leave one for the other session. Three challenges
let one be replaced, one be verified and one be new. Three instants, or time steps, let every key and
row expire before, between and after the steps of a call, because all lifetimes are 1 or 2 ticks
(3 for the window of the codes). Limits of 1 or 2 put the guess and request counters at their
boundary. Three facilities in pages of one or two rows give a first page, a full last page, a partial
one, and ties across a page's end. Nine months are more than two turns of the window of four.
Four places for five people make the last place contested; two events let one be delivered to two workers while
another, of the same ticket or of a second one, overtakes it. Three keys are an old, a current and a next one, with
replicas on either side of each step.

`MonthlyPartitions_kept` explores three components in one run. They share no variable and each property reads one
of them, so `part` chooses at the start which one moves (for keys: which ring), and each is explored
completely, alone. Its `TypeOK` is that of `MonthlyPartitions`; the types of the other modules are proved.

Named bounds: `MaxNow` and `MaxMonth` stop the clock, `CountCap` a counter one above its limit,
`MaxWrites` the writes during a walk, `AttemptIds`, `Events`, `Rows` and `Runs` how often a thing can happen. `CHECK_DEADLOCK FALSE` stands where the model really stops: tokens
and challenges are used up and the clock is at its bound, a send has ended, or a walk is over with
no write left.

Fairness. `AuthSessions` assumes that a call which can step does (weak fairness of `Advance`: Node
runs what is ready), that a waiter for a row lock is not overtaken for ever (strong fairness of
`Acquire`: PostgreSQL queues the waiters of a row), and that the deadlock detector acts (weak fairness of
`DeadlockVictim`). Clients, clocks and faults have none. `SmsDispatch` assumes weak fairness of the
dispatcher alone: its timer fires and awaited promises settle; nothing is asked of the provider.

### Disagreements found

1. `AuthSessions_reuse`: DECISIONS.md:79 promises that a detected reuse revokes the session. The
   revocation can be the victim of a deadlock and is not retried.
2. `OtpChallenges_stalled`: BACKEND_BUILD_CHECKLIST.md:314 says a new challenge invalidates the
   pending ones; only the cooldown keeps two requests apart.
3. `SuperAdminLogin_boundary`: BACKEND_BUILD_CHECKLIST.md:322 says accepted time steps reject replay;
   the step stored mixes two readings of the clock.
4. `MonthlyPartitions_late`: the header of the partition command calls it safe to run on a schedule; one late
   run is enough to make it fail from then on, until a run happens to precede a month's first row.
5. Without a run, because the caller does not exist. `entrance-ticket-state.policy.ts:16-18` and `:113-117` call a
   change to the same status a no-op whose side effects a caller skips, and `learning-guide/phase-06.md` says callers
   must. When the second of three people of a group goes in, the ticket goes from `partially_used` to
   `partially_used`, while `drizzle.schema.ts:509-510` says that `used_quantity` is incremented from `check_ins`. A caller
   that takes the policy at its word lets people in whom `used_quantity` never counts, and more of them than the
   ticket is for. `Enter` leaves the choice open, so no property here promises that people are counted; `EntriesPaid`
   is what holds whichever way the caller is written.

Noticed, and not a finding because no document decides it: a rotated token is given 30 days, its session keeps
the expiry of the login, so the `expires_at` that a client is told may lie after the end of its session. For the same reason a refresh whose
session expires between its check and its COMMIT stores a usable-looking token, which the session's expiry makes worthless:
`NoTokenBornInDeadSession` speaks of revoked sessions only. The dispatcher may report a failure for a message that arrives.

## 4. What is proved

The theorems hold for every value of the constants that the named assumptions allow (any number of
users, sessions, tokens, requests, phones, months; faults or not; prompt or not unless said).

- `AuthSessionsProofs`. `TypeCorrect`, `OneActiveTokenHolds`, `NoForkedFamilyHolds`,
  `RevokedFamilyIsDeadHolds`, `NoResurrection`, `Refinement`. None of the properties is inductive: that a
  session has one active token rests on what a call in flight has read still being true when it
  commits. `IInv` adds that: a call past a lock holds it (`LockInv`), what it decided under the lock
  still holds (`DecisionInv`), its locals are set (`CallInv`), and a token with a
  successor is no longer active (`FamilyInv`). `Refinement` maps each commit to Open, Refresh or Kill and
  everything else to a stutter, with `CurrentToken` showing that the chosen current token is the only one.
  `NoStrayLockHolds`: a lock belongs to a call inside the transaction that took it, so no call waits for one that has
  ended. `WaitsAreMutualHolds`: nobody waits for a call without locks, and if a call that holds a lock waits for one
  that waits itself, that one waits for the first; so a circle of waits has two calls, however many calls there are,
  and `DeadlockVictim`, which looks at pairs, misses none.
- `OtpChallengesProofs`. `TypeCorrect`, `OneLogin`, `GuessBudgetHolds`, `FinalStatusesHold`, `NoStrayLockHolds`,
  `Refinement`, and under `Prompt` `OnePendingPerPhoneHolds`. `AttemptInv`
  says that an attempt between its SELECT and its COMMIT holds the row's lock and that the row is pending and within
  budget; `RequestInv` the same of the rows a request is about to invalidate or insert. `PromptInv` says that a
  request that creates a challenge is alone with its phone, because its cooldown still runs, and has seen every
  pending row: what `OtpChallenges_stalled` breaks. `Refinement` maps COMMIT of a request to Issue, of an
  attempt to GuessRight or GuessWrong, the marking of a failed delivery to Withdraw or, where the code was used
  meanwhile, to a stutter, like all other steps; it needs `AttemptInv`, for a guess counted from a stale read is none of them.
- `SuperAdminLoginProofs`. `TypeCorrect`, `OneLoginPerRecoveryCodeHolds`, `TimeStepsAdvanceHolds`, `NoStrayLockHolds`, and under
  `Prompt` `OneLoginPerTimeStepHolds` and `GuessBudgetHolds`. `LoginInv`: a login in the factor's transaction
  holds its row and has read the current step. `EvidenceInv`: an accepted code is spent (used, or not above the
  stored step), has opened nothing yet, and no other login has it. `BudgetInv`: a challenge's counter outlives it.
- `SmsConfigurationsProofs`. All seven properties of the run. `TargetLocked`, `LocksHeld` and `TargetChecked`
  say that the row a call has locked is as its check found it. `NextBounded` says that a computed revision is at
  most one beyond the provider's series, so one that no row has is the next. `NoCrossing` is why
  activations do not deadlock: an activation whose target is active waits for nobody, hence of two that wait, the
  one that looked for active rows last did not find the other's target.
- `SmsDispatchProofs`. `TypeCorrect`, `DuplicatesNeedLostAnswerHolds`, `DeliveredIsSentHolds`. `OtherAttempts`:
  attempts before the current one ended in a transient failure and later ones have not begun; `CurrentAttempt`
  relates its request, its result and its row; `CallerKnows` the caller's answer to the last row.
  `SendIsBounded`: of `StepsLeft`, at first 4 * RetryCount + 5, each step of the dispatcher takes one and no step of the
  provider adds any. This is the half of `SendEnds` that needs no fairness.
- `MonthlyPartitionsProofs`. `TypeCorrect`, `ScheduleSufficesHolds`. The strengthening is that, without a lapse,
  every month up to the last one provided for has a partition (`Provided`). For `CheckIns`:
  `CheckInsTypeCorrect`, `ReplayAbsorbedHolds`, `CheckInsScheduleSuffices`. `CheckInsInv` adds that a
  scan has at most one row, in the leaf to which the scan is routed now (`Placed`), so a replay always meets it. `LeafStays` is the
  reason: the key does not change, partitions are only added, and none is created over rows of the default one.
- `FacilityListingProofs`. `PageIsNextRows`, `TypeCorrect`, `NoRepeatHolds`, `NothingSkippedHolds`, `ListedIsFoundHolds`,
  `CursorAdvancesAlways`. The code sorts and cuts; the model's `First` counts the rows before a row. The lemmas lead from
  the key's order (`PrecedesIsOrder`, with the id as last part a strict total order) over the first and the last row of a finite set
  (`FirstAndLastRow`) to what `First` takes: a beginning (`FirstIsBeginning`), no more than asked for (`FirstFits`), and as many
  as that unless the set is smaller (`FirstIsFull`, `FirstOfFewIsAll`); the extra row that is fetched therefore tells whether a
  page is the last. The invariant then needs one thing more than the properties: `CursorSeparates`, that of the rows which
  kept their place, those up to the cursor were shown once and those after it not yet.
- `TablesProofs`, of `TicketSales`. `SalesTypeCorrect`, `BooksBalanceHolds`, `EventActsOnceHolds`, `EntriesPaidHolds`.
  `Reservations`: an event is in one open transaction at most and in none once it is in the ledger. `Known`: an attempt's
  ticket was bought, a callback's attempt was made. `Admitted`: what a status says of the people who went in and
  of the money (nobody has gone in on a ticket that can be released). The places are a finite set with one
  element for each person; `BooksAdd`, `BooksRemove` and `BooksKept` relate it to `sold_count`.
  Of `KeyRings`: `KeysTypeCorrect`, `ReadableHolds`, `ShownIsStoredHolds`: every key that a running process seals with
  is in every other running process's ring, and the store keeps the key of every item, which a process that starts then reads.
  So the stages of a rotation are enough; that they are kept to is assumed.

Each proof shows Init => IInv, IInv /\ [Next]_vars => IInv' action by action, and IInv => the property.

Only model-checked: liveness (`CallsEnd`, `SendEnds`: fairness and ENABLED are beyond the prover; what they rest on,
that locks have living holders, that circles of waits have two calls and that a send's steps are bounded, is proved).
Every other property of a passing run is a theorem. Two theorems about `OneLoginPerTimeStep` and `GuessBudget` of the administrator's login, and
the one about `OnePendingPerPhone`, assume `Prompt`: without it the violation runs refute the first and the last.

## 5. Not modelled, and what is left

Cryptography (a hash is what it hashes), claims of access tokens and permission checks of one request, HTTP
validation, error formats, logging, OpenAPI, the rest of the start-up configuration and migrations have no behaviour over
time and are left out. Audit rows commit with the change they describe and carry no state that is read. The mock
inbox is one synchronous step per message, in development and tests only. QR codes and staff assignments are
constraints on single rows that no code writes; refund amounts and the other payment states wait for the code that
sets them. OTP, refresh-token and CSRF hash keys have no ring: a new value invalidates what was hashed with the old one.

What is left:

1. When the entrance ticket service, the webhook handler and the check-in push are written: replace the external
   actions of `TicketSales` and `CheckIns` by theirs and check them against the same properties.
2. Rate limits: how many requests two neighbouring fixed windows let through, should a document come to promise a bound.
3. A composition of `OtpChallenges` with `SmsDispatch` in place of its one-step delivery.
4. Proofs: abstract specifications of the Super Admin login (evidence that opens one session) and of the SMS
   configurations (one current choice, switched without a gap), as `TokenFamily` and `OneTimeCodes` are for the other two.
