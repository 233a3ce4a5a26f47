-------------------------- MODULE SmsConfigurations --------------------------
(***************************************************************************)
(* The life of an SMS provider configuration on the platform scope: the    *)
(* transactions of SmsConfigurationRepository, run by overlapping calls of *)
(* administrators, and the senders that resolve the active row.            *)
(*                                                                         *)
(* The columns hold committed values; a transaction keeps what it read and *)
(* what it has locked in locals and writes at its COMMIT.  The two unique  *)
(* indexes are checked there: a writer that meets an uncommitted duplicate *)
(* waits for it, and then finds it committed or gone.                      *)
(***************************************************************************)
EXTENDS Integers, FiniteSets

CONSTANTS
  Configs, Providers,
  Calls,          \* concurrent administrator requests
  Senders,        \* concurrent SmsDispatcher.send calls
  Faults,         \* whether a connection or a process may die
  NoProvider, NoConfig, Nobody

ASSUME ConfigAssumption ==
  /\ IsFiniteSet(Configs) /\ Faults \in BOOLEAN
  /\ NoProvider \notin Providers /\ NoConfig \notin Configs /\ Nobody \notin Calls

VARIABLES
  provider,       \* provider_key; NoProvider when the row does not exist
  revision,
  enabled,        \* is_enabled
  tested,         \* last_successful_test_revision; 0 for null
  active,         \* is_active
  activated,      \* activated_at IS NOT NULL
  lock,           \* who holds a row's lock
  op, target,     \* a call's operation and its row
  found,          \* a call's locals: active rows of activate, revision of createRevision,
  next, flag,     \*   and the isEnabled of patchDraft and createRevision
  resolved        \* the configuration a sender works with

rows == <<provider, revision, enabled, tested, active, activated>>
calls == <<op, target, found, next, flag>>
vars == <<rows, lock, calls, resolved>>

Init ==
  /\ provider = [c \in Configs |-> NoProvider]
  /\ revision = [c \in Configs |-> 0]
  /\ enabled = [c \in Configs |-> FALSE]
  /\ tested = [c \in Configs |-> 0]
  /\ active = [c \in Configs |-> FALSE]
  /\ activated = [c \in Configs |-> FALSE]
  /\ lock = [c \in Configs |-> Nobody]
  /\ op = [x \in Calls |-> "idle"]
  /\ target = [x \in Calls |-> NoConfig]
  /\ found = [x \in Calls |-> {}]
  /\ next = [x \in Calls |-> 0]
  /\ flag = [x \in Calls |-> FALSE]
  /\ resolved = [s \in Senders |-> NoConfig]

Exists(c) == provider[c] # NoProvider
Active == {c \in Configs : active[c]}
SeriesOf(p) == {c \in Configs : provider[c] = p}
RevisionsOf(p) == {revision[c] : c \in SeriesOf(p)}

Start(x, operation, c) ==
  /\ op[x] = "idle"
  /\ op' = [op EXCEPT ![x] = operation]
  /\ target' = [target EXCEPT ![x] = c]
  /\ UNCHANGED <<found, next>>

EndCall(x) ==
  /\ op' = [op EXCEPT ![x] = "idle"]
  /\ target' = [target EXCEPT ![x] = NoConfig]
  /\ found' = [found EXCEPT ![x] = {}]
  /\ next' = [next EXCEPT ![x] = 0]
  /\ flag' = [flag EXCEPT ![x] = FALSE]

Release(x) == lock' = [c \in Configs |-> IF lock[c] = x THEN Nobody ELSE lock[c]]

Rollback(x) ==
  /\ Release(x)
  /\ EndCall(x)
  /\ UNCHANGED <<rows, resolved>>

\* requireById(id, client, true): SELECT ... FOR UPDATE, then the named step.
LockRow(x, c, operation) ==
  /\ Exists(c)
  /\ lock[c] = Nobody
  /\ lock' = [lock EXCEPT ![c] = x]
  /\ Start(x, operation, c)

\* Mutant: the INSERT leaves revision out and the column has no default.
InsertRowUnrevised(c, p, rev, isEnabled) ==
  /\ provider' = [provider EXCEPT ![c] = p]
  /\ revision' = [revision EXCEPT ![c] = NoProvider]
  /\ enabled' = [enabled EXCEPT ![c] = isEnabled]
  /\ UNCHANGED <<tested, active, activated>>

InsertRow(c, p, rev, isEnabled) ==
  /\ provider' = [provider EXCEPT ![c] = p]
  /\ revision' = [revision EXCEPT ![c] = rev]
  /\ enabled' = [enabled EXCEPT ![c] = isEnabled]
  /\ UNCHANGED <<tested, active, activated>>

\* Mutant: no unique index over scope, provider and revision.
DuplicateRevisionNever(p, rev) == FALSE

\* uidx over scope, provider_key and revision.
DuplicateRevision(p, rev) == rev \in RevisionsOf(p)

(***************************************************************************)
(* create: revision 1, so a provider's second configuration is a revision. *)
(***************************************************************************)
Create(x, c, p, isEnabled) ==
  /\ op[x] = "idle"
  /\ ~Exists(c)
  /\ ~DuplicateRevision(p, 1)
  /\ InsertRow(c, p, 1, isEnabled)
  /\ UNCHANGED <<lock, calls, resolved>>

(***************************************************************************)
(* patchDraft.                                                             *)
(***************************************************************************)
\* Mutant: requireById without FOR UPDATE.
ReadDraft(x, c, isEnabled) ==
  /\ Exists(c)
  /\ ~activated[c]
  /\ Start(x, "patch", c)
  /\ flag' = [flag EXCEPT ![x] = isEnabled]
  /\ UNCHANGED <<rows, lock, resolved>>

\* A row that was ever activated is refused, and its lock released, in the same breath.
LockDraft(x, c, isEnabled) ==
  /\ ~activated[c]
  /\ LockRow(x, c, "patch")
  /\ flag' = [flag EXCEPT ![x] = isEnabled]
  /\ UNCHANGED <<rows, resolved>>

CommitPatch(x) ==
  /\ op[x] = "patch"
  /\ enabled' = [enabled EXCEPT ![target[x]] = flag[x]]
  /\ Release(x)
  /\ EndCall(x)
  /\ UNCHANGED <<provider, revision, tested, active, activated, resolved>>

(***************************************************************************)
(* createRevision: locks the source row, not the series of revisions.      *)
(***************************************************************************)
LockSource(x, c, isEnabled) ==
  /\ LockRow(x, c, "source")
  /\ flag' = [flag EXCEPT ![x] = isEnabled]
  /\ UNCHANGED <<rows, resolved>>

MaxRevision(p) == CHOOSE n \in RevisionsOf(p) : \A m \in RevisionsOf(p) : m <= n

ReadMaxRevision(x) ==
  /\ op[x] = "source"
  /\ next' = [next EXCEPT ![x] = MaxRevision(provider[target[x]]) + 1]
  /\ op' = [op EXCEPT ![x] = "insert"]
  /\ UNCHANGED <<rows, lock, target, found, flag, resolved>>

CommitRevision(x, c) ==
  /\ op[x] = "insert"
  /\ ~Exists(c)
  /\ ~DuplicateRevision(provider[target[x]], next[x])
  /\ InsertRow(c, provider[target[x]], next[x], flag[x])
  /\ Release(x)
  /\ EndCall(x)
  /\ UNCHANGED resolved

\* Unique violation: another source of the same provider was faster.
RejectRevision(x) ==
  /\ op[x] = "insert"
  /\ DuplicateRevision(provider[target[x]], next[x])
  /\ Rollback(x)

(***************************************************************************)
(* test: the record is read, a message is sent, and recordTest updates the *)
(* row by id; it waits for the row's lock.                                 *)
(***************************************************************************)
BeginTest(x, c) ==
  /\ Exists(c)
  /\ Start(x, "test", c)
  /\ UNCHANGED <<rows, lock, flag, resolved>>

RecordSuccess(x) ==
  /\ op[x] = "test"
  /\ lock[target[x]] = Nobody
  /\ tested' = [tested EXCEPT ![target[x]] = revision[target[x]]]
  /\ EndCall(x)
  /\ UNCHANGED <<provider, revision, enabled, active, activated, lock, resolved>>

RecordFailure(x) ==
  /\ op[x] = "test"
  /\ EndCall(x)
  /\ UNCHANGED <<rows, lock, resolved>>

(***************************************************************************)
(* activate.                                                               *)
(***************************************************************************)
\* Mutant: the tested revision is not looked at.
ActivatableUntested(c) == enabled[c]

Activatable(c) == enabled[c] /\ tested[c] = revision[c]

\* A row that may not be activated is refused, and its lock released, in the same breath.
LockTarget(x, c) ==
  /\ Activatable(c)
  /\ LockRow(x, c, "activate")
  /\ UNCHANGED <<rows, flag, resolved>>

\* The UPDATE that deactivates sees the active rows committed when it starts, ...
FindActive(x) ==
  /\ op[x] = "activate"
  /\ found' = [found EXCEPT ![x] = Active]
  /\ op' = [op EXCEPT ![x] = "deactivateOthers"]
  /\ UNCHANGED <<rows, lock, target, next, flag, resolved>>

\* Mutant: each statement of activate commits on its own.
CommitDeactivateOthers(x) ==
  /\ op[x] = "deactivateOthers"
  /\ \A c \in found[x] : lock[c] \in {Nobody, x}
  /\ active' = [c \in Configs |-> active[c] /\ c \notin found[x]]
  /\ op' = [op EXCEPT ![x] = "setActive"]
  /\ UNCHANGED <<provider, revision, enabled, tested, activated, lock, target, found, next,
                 flag, resolved>>

\* ... waits for their locks, and skips those that are no longer active by then.
LockActive(x) ==
  /\ op[x] = "deactivateOthers"
  /\ \A c \in found[x] : lock[c] \in {Nobody, x}
  /\ found' = [found EXCEPT ![x] = @ \intersect Active]
  /\ lock' = [c \in Configs |-> IF c \in found[x] \intersect Active THEN x ELSE lock[c]]
  /\ op' = [op EXCEPT ![x] = "setActive"]
  /\ UNCHANGED <<rows, target, next, flag, resolved>>

\* Mutant: no unique index over the active row of a scope.
OtherActiveIgnored(x) == {}

\* Rows the unique index over the active row of a scope still holds against this call.
OtherActive(x) == Active \ (found[x] \union {target[x]})

CommitActivation(x) ==
  /\ op[x] = "setActive"
  /\ OtherActive(x) = {}
  /\ active' = [c \in Configs |-> c = target[x] \/ (active[c] /\ c \notin found[x])]
  /\ activated' = [activated EXCEPT ![target[x]] = TRUE]
  /\ Release(x)
  /\ EndCall(x)
  /\ UNCHANGED <<provider, revision, enabled, tested, resolved>>

\* Unique violation: another activation was faster, and is not undone.
RejectActivation(x) ==
  /\ op[x] = "setActive"
  /\ OtherActive(x) # {}
  /\ Rollback(x)

(***************************************************************************)
(* deactivate: any row, whatever its state.                                *)
(***************************************************************************)
LockForDeactivation(x, c) ==
  /\ LockRow(x, c, "deactivate")
  /\ UNCHANGED <<rows, flag, resolved>>

CommitDeactivation(x) ==
  /\ op[x] = "deactivate"
  /\ active' = [active EXCEPT ![target[x]] = FALSE]
  /\ Release(x)
  /\ EndCall(x)
  /\ UNCHANGED <<provider, revision, enabled, tested, activated, resolved>>

FailCall(x) ==
  /\ Faults /\ op[x] # "idle"
  /\ Rollback(x)

(***************************************************************************)
(* SmsDispatcher.send: one read of the active row serves all its attempts. *)
(* Without an active row the send fails, which changes nothing.            *)
(***************************************************************************)
ResolvePlatformActive(s, c) ==
  /\ resolved[s] = NoConfig
  /\ active[c] /\ enabled[c]
  /\ resolved' = [resolved EXCEPT ![s] = c]
  /\ UNCHANGED <<rows, lock, calls>>

EndSend(s) ==
  /\ resolved[s] # NoConfig
  /\ resolved' = [resolved EXCEPT ![s] = NoConfig]
  /\ UNCHANGED <<rows, lock, calls>>

CallStep(x) ==
  \/ \E c \in Configs, p \in Providers, isEnabled \in BOOLEAN : Create(x, c, p, isEnabled)
  \/ \E c \in Configs, isEnabled \in BOOLEAN :
       LockDraft(x, c, isEnabled) \/ LockSource(x, c, isEnabled)
  \/ \E c \in Configs :
       \/ CommitRevision(x, c) \/ BeginTest(x, c)
       \/ LockTarget(x, c) \/ LockForDeactivation(x, c)
  \/ CommitPatch(x) \/ ReadMaxRevision(x) \/ RejectRevision(x)
  \/ RecordSuccess(x) \/ RecordFailure(x)
  \/ FindActive(x) \/ LockActive(x) \/ CommitActivation(x) \/ RejectActivation(x)
  \/ CommitDeactivation(x)
  \/ FailCall(x)

SendStep(s) ==
  \/ \E c \in Configs : ResolvePlatformActive(s, c)
  \/ EndSend(s)

Next ==
  \/ \E x \in Calls : CallStep(x)
  \/ \E s \in Senders : SendStep(s)

Spec == Init /\ [][Next]_vars

-----------------------------------------------------------------------------
\* The rows and the locals of the calls have the shape the schema and the code give them.
TypeOK ==
  /\ provider \in [Configs -> Providers \union {NoProvider}]
  /\ revision \in [Configs -> Nat]
  /\ enabled \in [Configs -> BOOLEAN]
  /\ tested \in [Configs -> Nat]
  /\ active \in [Configs -> BOOLEAN]
  /\ activated \in [Configs -> BOOLEAN]
  /\ lock \in [Configs -> Calls \union {Nobody}]
  /\ op \in [Calls -> {"idle", "patch", "source", "insert", "test", "activate",
                       "deactivateOthers", "setActive", "deactivate"}]
  /\ target \in [Calls -> Configs \union {NoConfig}]
  /\ found \in [Calls -> SUBSET Configs]
  /\ next \in [Calls -> Nat]
  /\ flag \in [Calls -> BOOLEAN]
  /\ resolved \in [Senders -> Configs \union {NoConfig}]

\* DECISIONS.md: "each scope has at most one active configuration", whichever activations
\* and deactivations overlap.
OneActive == Cardinality(Active) <= 1

\* DECISIONS.md: a revision "must be enabled ... and successfully test the exact revision
\* before transactional activation".  It stays so while it is active: a patch that read
\* the row as a draft never lands on an active one.
ActiveIsTested == \A c \in Active : enabled[c] /\ tested[c] = revision[c]

\* A sender works with an enabled, tested configuration to the end, also when the one it
\* resolved has been replaced or deactivated meanwhile.
SentWithTested ==
  \A s \in Senders : \A c \in Configs :
    resolved[s] = c => enabled[c] /\ tested[c] = revision[c]

\* Switching from one configuration to another leaves no moment without one, whether the
\* switch commits, loses a race or dies: only deactivate stops the sending of messages.
NoOutage ==
  [][Active # {} /\ Active' = {} => \E x \in Calls : op[x] = "deactivate" /\ op'[x] = "idle"]_vars

\* The revisions of a provider are numbered 1, 2, 3, ... without a gap and without a
\* number given twice, whichever sources are revised at once.
RevisionsInOrder ==
  \A p \in Providers : RevisionsOf(p) = 1..Cardinality(SeriesOf(p))

WaitsFor(x, y) ==
  /\ x # y
  /\ \/ op[x] = "deactivateOthers" /\ \E c \in found[x] : lock[c] = y
     \/ op[x] = "test" /\ lock[target[x]] = y

\* Two activations lock each other's rows in opposite orders only if both rows are active:
\* they never wait for each other.
NoDeadlock == \A x, y \in Calls : ~(WaitsFor(x, y) /\ WaitsFor(y, x))
=============================================================================
