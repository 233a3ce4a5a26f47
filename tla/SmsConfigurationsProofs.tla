---------------------- MODULE SmsConfigurationsProofs ----------------------
(***************************************************************************)
(* What the row locks of a configuration's life guarantee, for any number  *)
(* of configurations, providers, administrators and senders.               *)
(***************************************************************************)
EXTENDS SmsConfigurations, FiniteSetTheorems, TLAPS

Activating == {"activate", "deactivateOthers", "setActive"}

\* A call in progress works on an existing row; all but a test hold its lock.
TargetLocked ==
  \A x \in Calls :
    /\ op[x] # "idle" => target[x] \in Configs /\ Exists(target[x])
    /\ op[x] \notin {"idle", "test"} => lock[target[x]] = x
    /\ op[x] = "setActive" => \A c \in found[x] : lock[c] = x

\* A held lock is the target's, or that of a row about to be deactivated.
LocksHeld ==
  \A x \in Calls : \A c \in Configs :
    lock[c] = x => /\ op[x] \notin {"idle", "test"}
                   /\ c = target[x] \/ (op[x] = "setActive" /\ c \in found[x])

\* What the check under the lock found stays so until the COMMIT.
TargetChecked ==
  \A x \in Calls :
    /\ op[x] = "patch" => ~activated[target[x]]
    /\ op[x] \in Activating =>
         enabled[target[x]] /\ tested[target[x]] = revision[target[x]]

\* Active rows were activated, activated rows exist, and senders use activated rows.
RowsActivated ==
  /\ \A c \in Configs : /\ active[c] => activated[c]
                        /\ activated[c] => Exists(c)
  /\ \A s \in Senders : \A c \in Configs : resolved[s] = c => activated[c]

AtMostOneActive == \A c, d \in Configs : active[c] /\ active[d] => c = d

\* Of two activations, the one that looked for active rows last did not find the other's row.
NoCrossing ==
  /\ \A x \in Calls : op[x] = "deactivateOthers" /\ active[target[x]] =>
                         found[x] \subseteq {target[x]}
  /\ \A x, y \in Calls :
       op[x] = "deactivateOthers" /\ op[y] = "deactivateOthers" /\ x # y =>
         ~(target[x] \in found[y] /\ target[y] \in found[x])

\* The revision that a call computed is at most one beyond the series.
NextBounded ==
  \A x \in Calls : op[x] = "insert" =>
    next[x] \in 1..(Cardinality(SeriesOf(provider[target[x]])) + 1)

IInv ==
  /\ TypeOK /\ TargetLocked /\ LocksHeld /\ TargetChecked /\ RowsActivated
  /\ ActiveIsTested /\ SentWithTested /\ AtMostOneActive /\ NoCrossing
  /\ RevisionsInOrder /\ NextBounded

\* A series is a finite set of rows, before a step ...
LEMMA SeriesFinite ==
  ASSUME NEW p
  PROVE  IsFiniteSet(SeriesOf(p)) /\ Cardinality(SeriesOf(p)) \in Nat
<1>1. SeriesOf(p) \in SUBSET Configs
  BY DEF SeriesOf
<1> QED BY <1>1, ConfigAssumption, FS_Subset, FS_CardinalityType

\* ... and after it.
LEMMA NextSeriesFinite ==
  ASSUME NEW p
  PROVE  Cardinality(SeriesOf(p)') \in Nat
<1>1. SeriesOf(p)' \in SUBSET Configs
  BY DEF SeriesOf
<1> QED BY <1>1, ConfigAssumption, FS_Subset, FS_CardinalityType

\* A provider without rows has no revisions.
LEMMA EmptySeries ==
  ASSUME NEW p, SeriesOf(p) = {}
  PROVE  Cardinality(SeriesOf(p)) = 0
BY FS_EmptySet

\* The series and their revisions depend on two columns only.
LEMMA SameSeries ==
  ASSUME UNCHANGED <<provider, revision>>
  PROVE  \A p : /\ SeriesOf(p)' = SeriesOf(p)
                /\ RevisionsOf(p)' = RevisionsOf(p)
BY DEF SeriesOf, RevisionsOf

\* The largest revision that createRevision reads is the length of the source's series.
LEMMA MaxIsLast ==
  ASSUME IInv, NEW x \in Calls, op[x] = "source"
  PROVE  MaxRevision(provider[target[x]]) = Cardinality(SeriesOf(provider[target[x]]))
<1> DEFINE p == provider[target[x]]
           n == Cardinality(SeriesOf(p))
<1>1. target[x] \in SeriesOf(p) /\ p \in Providers
  BY DEF IInv, TypeOK, TargetLocked, Exists, SeriesOf
<1>2. revision[target[x]] \in RevisionsOf(p)
  BY <1>1 DEF RevisionsOf
<1>3. RevisionsOf(p) = 1..n /\ n \in Nat
  BY <1>1, SeriesFinite DEF IInv, RevisionsInOrder
<1>4. n \in RevisionsOf(p) /\ \A m \in RevisionsOf(p) : m <= n
  BY <1>2, <1>3
<1>5. \A k \in RevisionsOf(p) : (\A m \in RevisionsOf(p) : m <= k) => k = n
  BY <1>3, <1>4
<1> HIDE DEF n
<1> QED BY <1>4, <1>5, Zenon DEF MaxRevision, p, n

\* Inserting a row prolongs its provider's series by the next number, and no other series.
LEMMA SeriesGrows ==
  ASSUME IInv, NEW c \in Configs, ~Exists(c), NEW p \in Providers, NEW isEnabled,
         NEW rev \in 1..(Cardinality(SeriesOf(p)) + 1), ~DuplicateRevision(p, rev),
         InsertRow(c, p, rev, isEnabled)
  PROVE  /\ RevisionsInOrder'
         /\ \A q \in Providers :
              Cardinality(SeriesOf(q)) <= Cardinality(SeriesOf(q)')
<1>1. /\ provider' = [provider EXCEPT ![c] = p]
      /\ revision' = [revision EXCEPT ![c] = rev]
      /\ provider[c] = NoProvider /\ provider \in [Configs -> Providers \union {NoProvider}]
      /\ revision \in [Configs -> Nat]
      /\ NoProvider \notin Providers
  BY ConfigAssumption DEF InsertRow, Exists, IInv, TypeOK
<1>2. \A q \in Providers : q # p => /\ SeriesOf(q)' = SeriesOf(q)
                                    /\ RevisionsOf(q)' = RevisionsOf(q)
  BY <1>1 DEF SeriesOf, RevisionsOf
<1>3. /\ SeriesOf(p)' = SeriesOf(p) \union {c} /\ c \notin SeriesOf(p)
      /\ RevisionsOf(p)' = RevisionsOf(p) \union {rev}
  <2>1. SeriesOf(p)' = SeriesOf(p) \union {c} /\ c \notin SeriesOf(p)
    BY <1>1 DEF SeriesOf
  <2>2. revision'[c] = rev /\ \A d \in SeriesOf(p) : revision'[d] = revision[d]
    BY <1>1, <2>1 DEF SeriesOf
  <2> QED BY <2>1, <2>2 DEF RevisionsOf
<1>4. Cardinality(SeriesOf(p)') = Cardinality(SeriesOf(p)) + 1
  BY <1>3, SeriesFinite, FS_AddElement
<1>5. /\ RevisionsOf(p) = 1..Cardinality(SeriesOf(p))
      /\ Cardinality(SeriesOf(p)) \in Nat
  BY SeriesFinite DEF IInv, RevisionsInOrder
<1>6. rev = Cardinality(SeriesOf(p)) + 1
  BY <1>5 DEF DuplicateRevision
<1>7. RevisionsOf(p)' = 1..(Cardinality(SeriesOf(p)) + 1)
  BY <1>3, <1>5, <1>6
<1>8. RevisionsInOrder'
  BY <1>2, <1>4, <1>7 DEF IInv, RevisionsInOrder
<1>9. \A q \in Providers : Cardinality(SeriesOf(q)) <= Cardinality(SeriesOf(q)')
  BY <1>2, <1>4, SeriesFinite
<1> QED BY <1>8, <1>9

\* A step that leaves the rows alone.
LEMMA RowsKept ==
  ASSUME IInv, UNCHANGED <<rows, resolved>>
  PROVE  RowsActivated' /\ ActiveIsTested' /\ SentWithTested' /\ AtMostOneActive'
BY
   DEF IInv, rows, RowsActivated, Exists, ActiveIsTested, SentWithTested, AtMostOneActive,
       Active

\* A step that inserts no row and computes no revision.
LEMMA SeriesKept ==
  ASSUME IInv, UNCHANGED <<provider, revision>>,
         \A y \in Calls : op'[y] = "insert" =>
           op[y] = "insert" /\ target'[y] = target[y] /\ next'[y] = next[y]
  PROVE  RevisionsInOrder' /\ NextBounded'
BY SameSeries DEF IInv, RevisionsInOrder, NextBounded

\* Every step of a call keeps the invariant.
LEMMA CallKeeps ==
  ASSUME IInv, NEW x \in Calls, CallStep(x)
  PROVE  IInv'
<1> USE ConfigAssumption DEF rows, calls, Exists, Activating, IInv, TypeOK
<1>1. ASSUME NEW c \in Configs, NEW p \in Providers, NEW isEnabled \in BOOLEAN,
             Create(x, c, p, isEnabled)
      PROVE IInv'
  <2>1. TypeOK'
    BY <1>1 DEF Create, InsertRow, TargetLocked
  <2>2. TargetLocked' /\ LocksHeld'
    BY <1>1 DEF Create, InsertRow, TargetLocked, LocksHeld
  <2>3. TargetChecked'
    BY <1>1 DEF Create, InsertRow, TargetLocked, LocksHeld, TargetChecked, RowsActivated
  <2>4. NoCrossing'
    BY <1>1 DEF Create, InsertRow, TargetLocked, LocksHeld, AtMostOneActive, NoCrossing
  <2>5. RowsActivated' /\ AtMostOneActive'
    BY <1>1
       DEF Create, InsertRow, TargetLocked, TargetChecked, RowsActivated, AtMostOneActive
  <2>6. ActiveIsTested' /\ SentWithTested'
    BY <1>1
       DEF Create, InsertRow, TargetLocked, TargetChecked, RowsActivated, ActiveIsTested,
           SentWithTested, Active
  <2>7. RevisionsInOrder' /\ NextBounded'
    <3> HIDE DEF IInv, TypeOK
    <3>1. ~Exists(c) /\ ~DuplicateRevision(p, 1) /\ InsertRow(c, p, 1, isEnabled)
      BY <1>1 DEF Create
    <3>2. 1 \in 1..(Cardinality(SeriesOf(p)) + 1)
      BY SeriesFinite
    <3>3. /\ RevisionsInOrder'
          /\ \A q \in Providers : Cardinality(SeriesOf(q)) <= Cardinality(SeriesOf(q)')
      BY <3>1, <3>2, SeriesGrows
    <3>4. \A y \in Calls : op'[y] = "insert" =>
            /\ op[y] = "insert" /\ target'[y] = target[y] /\ next'[y] = next[y]
            /\ provider'[target'[y]] = provider[target[y]]
            /\ provider'[target'[y]] \in Providers
      BY <1>1 DEF IInv, TypeOK, TargetLocked, Create, InsertRow
    <3>5. \A q : Cardinality(SeriesOf(q)) \in Nat /\ Cardinality(SeriesOf(q)') \in Nat
      BY SeriesFinite, NextSeriesFinite
    <3>6. \A y \in Calls : \A q \in Providers :
            op'[y] = "insert" /\ q = provider'[target'[y]] =>
              next'[y] \in 1..(Cardinality(SeriesOf(q)') + 1)
      BY <3>3, <3>4, <3>5 DEF IInv, NextBounded
    <3> QED BY <3>3, <3>4, <3>6 DEF NextBounded, SeriesOf
  <2> QED BY <2>1, <2>2, <2>3, <2>4, <2>5, <2>6, <2>7
<1>2. ASSUME NEW c \in Configs, NEW isEnabled \in BOOLEAN,
             LockDraft(x, c, isEnabled)
      PROVE IInv'
  <2>1. TypeOK'
    BY <1>2 DEF LockDraft, LockRow, Start, TargetLocked
  <2>2. TargetLocked' /\ LocksHeld'
    BY <1>2 DEF LockDraft, LockRow, Start, TargetLocked, LocksHeld
  <2>3. TargetChecked'
    BY <1>2
       DEF LockDraft, LockRow, Start, TargetLocked, LocksHeld, TargetChecked,
           RowsActivated
  <2>4. NoCrossing'
    BY <1>2
       DEF LockDraft, LockRow, Start, TargetLocked, LocksHeld, AtMostOneActive,
           NoCrossing
  <2>5. RowsActivated' /\ ActiveIsTested' /\ SentWithTested' /\ AtMostOneActive'
    BY <1>2, RowsKept DEF LockDraft
  <2>6. RevisionsInOrder' /\ NextBounded'
    BY <1>2, SeriesKept DEF LockDraft, LockRow, Start
  <2> QED BY <2>1, <2>2, <2>3, <2>4, <2>5, <2>6
<1>3. ASSUME NEW c \in Configs, NEW isEnabled \in BOOLEAN,
             LockSource(x, c, isEnabled)
      PROVE IInv'
  <2>1. TypeOK'
    BY <1>3 DEF LockSource, LockRow, Start, TargetLocked
  <2>2. TargetLocked' /\ LocksHeld'
    BY <1>3 DEF LockSource, LockRow, Start, TargetLocked, LocksHeld
  <2>3. TargetChecked'
    BY <1>3
       DEF LockSource, LockRow, Start, TargetLocked, LocksHeld, TargetChecked,
           RowsActivated
  <2>4. NoCrossing'
    BY <1>3
       DEF LockSource, LockRow, Start, TargetLocked, LocksHeld, AtMostOneActive,
           NoCrossing
  <2>5. RowsActivated' /\ ActiveIsTested' /\ SentWithTested' /\ AtMostOneActive'
    BY <1>3, RowsKept DEF LockSource
  <2>6. RevisionsInOrder' /\ NextBounded'
    BY <1>3, SeriesKept DEF LockSource, LockRow, Start
  <2> QED BY <2>1, <2>2, <2>3, <2>4, <2>5, <2>6
<1>4. ASSUME NEW c \in Configs, CommitRevision(x, c) PROVE IInv'
  <2>1. TypeOK'
    BY <1>4 DEF CommitRevision, InsertRow, Release, EndCall, TargetLocked
  <2>2. TargetLocked' /\ LocksHeld'
    BY <1>4 DEF CommitRevision, InsertRow, Release, EndCall, TargetLocked, LocksHeld
  <2>3. TargetChecked'
    BY <1>4
       DEF CommitRevision, InsertRow, Release, EndCall, TargetLocked, LocksHeld,
           TargetChecked, RowsActivated
  <2>4. NoCrossing'
    BY <1>4
       DEF CommitRevision, InsertRow, Release, EndCall, TargetLocked, LocksHeld,
           AtMostOneActive, NoCrossing
  <2>5. RowsActivated' /\ AtMostOneActive'
    BY <1>4
       DEF CommitRevision, InsertRow, Release, EndCall, TargetLocked, TargetChecked,
           RowsActivated, AtMostOneActive
  <2>6. ActiveIsTested' /\ SentWithTested'
    BY <1>4
       DEF CommitRevision, InsertRow, Release, EndCall, TargetLocked, TargetChecked,
           RowsActivated, ActiveIsTested, SentWithTested, Active
  <2>7. RevisionsInOrder' /\ NextBounded'
    <3> DEFINE p == provider[target[x]]
    <3> HIDE DEF IInv, TypeOK
    <3>1. /\ ~Exists(c) /\ ~DuplicateRevision(p, next[x])
          /\ InsertRow(c, p, next[x], flag[x])
      BY <1>4 DEF CommitRevision
    <3>2. p \in Providers /\ next[x] \in 1..(Cardinality(SeriesOf(p)) + 1)
      BY <1>4 DEF CommitRevision, IInv, TypeOK, TargetLocked, NextBounded
    <3>3. /\ RevisionsInOrder'
          /\ \A q \in Providers : Cardinality(SeriesOf(q)) <= Cardinality(SeriesOf(q)')
      BY <3>1, <3>2, SeriesGrows
    <3>4. \A y \in Calls : op'[y] = "insert" =>
            /\ op[y] = "insert" /\ target'[y] = target[y] /\ next'[y] = next[y]
            /\ provider'[target'[y]] = provider[target[y]]
            /\ provider'[target'[y]] \in Providers
      BY <1>4 DEF IInv, TypeOK, TargetLocked, CommitRevision, InsertRow, EndCall
    <3>5. \A q : Cardinality(SeriesOf(q)) \in Nat /\ Cardinality(SeriesOf(q)') \in Nat
      BY SeriesFinite, NextSeriesFinite
    <3>6. \A y \in Calls : \A q \in Providers :
            op'[y] = "insert" /\ q = provider'[target'[y]] =>
              next'[y] \in 1..(Cardinality(SeriesOf(q)') + 1)
      BY <3>3, <3>4, <3>5 DEF IInv, NextBounded
    <3> QED BY <3>3, <3>4, <3>6 DEF NextBounded, SeriesOf
  <2> QED BY <2>1, <2>2, <2>3, <2>4, <2>5, <2>6, <2>7
<1>5. ASSUME NEW c \in Configs, BeginTest(x, c) PROVE IInv'
  <2>1. TypeOK'
    BY <1>5 DEF BeginTest, Start, TargetLocked
  <2>2. TargetLocked' /\ LocksHeld'
    BY <1>5 DEF BeginTest, Start, TargetLocked, LocksHeld
  <2>3. TargetChecked'
    BY <1>5 DEF BeginTest, Start, TargetLocked, LocksHeld, TargetChecked, RowsActivated
  <2>4. NoCrossing'
    BY <1>5 DEF BeginTest, Start, TargetLocked, LocksHeld, AtMostOneActive, NoCrossing
  <2>5. RowsActivated' /\ ActiveIsTested' /\ SentWithTested' /\ AtMostOneActive'
    BY <1>5, RowsKept DEF BeginTest
  <2>6. RevisionsInOrder' /\ NextBounded'
    BY <1>5, SeriesKept DEF BeginTest, Start
  <2> QED BY <2>1, <2>2, <2>3, <2>4, <2>5, <2>6
<1>6. ASSUME NEW c \in Configs, LockTarget(x, c) PROVE IInv'
  <2>1. TypeOK'
    BY <1>6 DEF LockTarget, LockRow, Start, Activatable, TargetLocked
  <2>2. TargetLocked' /\ LocksHeld'
    BY <1>6 DEF LockTarget, LockRow, Start, Activatable, TargetLocked, LocksHeld
  <2>3. TargetChecked'
    BY <1>6
       DEF LockTarget, LockRow, Start, Activatable, TargetLocked, LocksHeld,
           TargetChecked, RowsActivated
  <2>4. NoCrossing'
    BY <1>6
       DEF LockTarget, LockRow, Start, Activatable, TargetLocked, LocksHeld,
           AtMostOneActive, NoCrossing
  <2>5. RowsActivated' /\ ActiveIsTested' /\ SentWithTested' /\ AtMostOneActive'
    BY <1>6, RowsKept DEF LockTarget
  <2>6. RevisionsInOrder' /\ NextBounded'
    BY <1>6, SeriesKept DEF LockTarget, LockRow, Start, Activatable
  <2> QED BY <2>1, <2>2, <2>3, <2>4, <2>5, <2>6
<1>7. ASSUME NEW c \in Configs, LockForDeactivation(x, c) PROVE IInv'
  <2>1. TypeOK'
    BY <1>7 DEF LockForDeactivation, LockRow, Start, TargetLocked
  <2>2. TargetLocked' /\ LocksHeld'
    BY <1>7 DEF LockForDeactivation, LockRow, Start, TargetLocked, LocksHeld
  <2>3. TargetChecked'
    BY <1>7
       DEF LockForDeactivation, LockRow, Start, TargetLocked, LocksHeld, TargetChecked,
           RowsActivated
  <2>4. NoCrossing'
    BY <1>7
       DEF LockForDeactivation, LockRow, Start, TargetLocked, LocksHeld, AtMostOneActive,
           NoCrossing
  <2>5. RowsActivated' /\ ActiveIsTested' /\ SentWithTested' /\ AtMostOneActive'
    BY <1>7, RowsKept DEF LockForDeactivation
  <2>6. RevisionsInOrder' /\ NextBounded'
    BY <1>7, SeriesKept DEF LockForDeactivation, LockRow, Start
  <2> QED BY <2>1, <2>2, <2>3, <2>4, <2>5, <2>6
<1>8. ASSUME CommitPatch(x) PROVE IInv'
  <2>1. TypeOK'
    BY <1>8 DEF CommitPatch, Release, EndCall, TargetLocked
  <2>2. TargetLocked' /\ LocksHeld'
    BY <1>8 DEF CommitPatch, Release, EndCall, TargetLocked, LocksHeld
  <2>3. TargetChecked'
    BY <1>8
       DEF CommitPatch, Release, EndCall, TargetLocked, LocksHeld, TargetChecked,
           RowsActivated
  <2>4. NoCrossing'
    BY <1>8
       DEF CommitPatch, Release, EndCall, TargetLocked, LocksHeld, AtMostOneActive,
           NoCrossing
  <2>5. RowsActivated' /\ AtMostOneActive'
    BY <1>8
       DEF CommitPatch, Release, EndCall, TargetLocked, TargetChecked, RowsActivated,
           AtMostOneActive
  <2>6. ActiveIsTested' /\ SentWithTested'
    BY <1>8
       DEF CommitPatch, Release, EndCall, TargetLocked, TargetChecked, RowsActivated,
           ActiveIsTested, SentWithTested, Active
  <2>7. RevisionsInOrder' /\ NextBounded'
    BY <1>8, SeriesKept DEF CommitPatch, Release, EndCall
  <2> QED BY <2>1, <2>2, <2>3, <2>4, <2>5, <2>6, <2>7
<1>9. ASSUME ReadMaxRevision(x) PROVE IInv'
  <2>1. TypeOK'
    BY <1>9, MaxIsLast, SeriesFinite DEF ReadMaxRevision
  <2>2. TargetLocked' /\ LocksHeld'
    BY <1>9 DEF ReadMaxRevision, TargetLocked, LocksHeld
  <2>3. TargetChecked'
    BY <1>9 DEF ReadMaxRevision, TargetLocked, LocksHeld, TargetChecked, RowsActivated
  <2>4. NoCrossing'
    BY <1>9 DEF ReadMaxRevision, TargetLocked, LocksHeld, AtMostOneActive, NoCrossing
  <2>5. RowsActivated' /\ ActiveIsTested' /\ SentWithTested' /\ AtMostOneActive'
    BY <1>9, RowsKept DEF ReadMaxRevision
  <2>6. RevisionsInOrder' /\ NextBounded'
    <3> HIDE DEF IInv, TypeOK
    <3>1. UNCHANGED <<provider, revision, target>>
      BY <1>9 DEF ReadMaxRevision
    <3>2. \A y \in Calls : op'[y] = "insert" =>
            \/ y # x /\ op[y] = "insert" /\ next'[y] = next[y]
            \/ y = x /\ next'[y] = MaxRevision(provider[target[x]]) + 1
      BY <1>9 DEF IInv, TypeOK, ReadMaxRevision
    <3>3. MaxRevision(provider[target[x]]) = Cardinality(SeriesOf(provider[target[x]]))
      BY <1>9, MaxIsLast DEF ReadMaxRevision
    <3>4. Cardinality(SeriesOf(provider[target[x]])) \in Nat
      BY SeriesFinite
    <3>5. \A q : Cardinality(SeriesOf(q))' = Cardinality(SeriesOf(q))
      BY <3>1, SameSeries
    <3>6. RevisionsInOrder'
      BY <3>1, SameSeries DEF IInv, RevisionsInOrder
    <3> QED BY <3>1, <3>2, <3>3, <3>4, <3>5, <3>6 DEF IInv, NextBounded
  <2> QED BY <2>1, <2>2, <2>3, <2>4, <2>5, <2>6
<1>10. ASSUME RejectRevision(x) PROVE IInv'
  <2>1. TypeOK'
    BY <1>10 DEF RejectRevision, Rollback, Release, EndCall, TargetLocked
  <2>2. TargetLocked' /\ LocksHeld'
    BY <1>10 DEF RejectRevision, Rollback, Release, EndCall, TargetLocked, LocksHeld
  <2>3. TargetChecked'
    BY <1>10
       DEF RejectRevision, Rollback, Release, EndCall, TargetLocked, LocksHeld,
           TargetChecked, RowsActivated
  <2>4. NoCrossing'
    BY <1>10
       DEF RejectRevision, Rollback, Release, EndCall, TargetLocked, LocksHeld,
           AtMostOneActive, NoCrossing
  <2>5. RowsActivated' /\ ActiveIsTested' /\ SentWithTested' /\ AtMostOneActive'
    BY <1>10, RowsKept DEF RejectRevision, Rollback
  <2>6. RevisionsInOrder' /\ NextBounded'
    BY <1>10, SeriesKept DEF RejectRevision, Rollback, Release, EndCall
  <2> QED BY <2>1, <2>2, <2>3, <2>4, <2>5, <2>6
<1>11. ASSUME RecordSuccess(x) PROVE IInv'
  <2>1. TypeOK'
    BY <1>11 DEF RecordSuccess, EndCall, TargetLocked
  <2>2. TargetLocked' /\ LocksHeld'
    BY <1>11 DEF RecordSuccess, EndCall, TargetLocked, LocksHeld
  <2>3. TargetChecked'
    BY <1>11
       DEF RecordSuccess, EndCall, TargetLocked, LocksHeld, TargetChecked, RowsActivated
  <2>4. NoCrossing'
    BY <1>11
       DEF RecordSuccess, EndCall, TargetLocked, LocksHeld, AtMostOneActive, NoCrossing
  <2>5. RowsActivated' /\ AtMostOneActive'
    BY <1>11
       DEF RecordSuccess, EndCall, TargetLocked, TargetChecked, RowsActivated,
           AtMostOneActive
  <2>6. ActiveIsTested' /\ SentWithTested'
    BY <1>11
       DEF RecordSuccess, EndCall, TargetLocked, TargetChecked, RowsActivated,
           ActiveIsTested, SentWithTested, Active
  <2>7. RevisionsInOrder' /\ NextBounded'
    BY <1>11, SeriesKept DEF RecordSuccess, EndCall
  <2> QED BY <2>1, <2>2, <2>3, <2>4, <2>5, <2>6, <2>7
<1>12. ASSUME RecordFailure(x) PROVE IInv'
  <2>1. TypeOK'
    BY <1>12 DEF RecordFailure, EndCall, TargetLocked
  <2>2. TargetLocked' /\ LocksHeld'
    BY <1>12 DEF RecordFailure, EndCall, TargetLocked, LocksHeld
  <2>3. TargetChecked'
    BY <1>12
       DEF RecordFailure, EndCall, TargetLocked, LocksHeld, TargetChecked, RowsActivated
  <2>4. NoCrossing'
    BY <1>12
       DEF RecordFailure, EndCall, TargetLocked, LocksHeld, AtMostOneActive, NoCrossing
  <2>5. RowsActivated' /\ ActiveIsTested' /\ SentWithTested' /\ AtMostOneActive'
    BY <1>12, RowsKept DEF RecordFailure
  <2>6. RevisionsInOrder' /\ NextBounded'
    BY <1>12, SeriesKept DEF RecordFailure, EndCall
  <2> QED BY <2>1, <2>2, <2>3, <2>4, <2>5, <2>6
<1>13. ASSUME FindActive(x) PROVE IInv'
  <2>1. TypeOK'
    BY <1>13 DEF FindActive, Active, TargetLocked
  <2>2. TargetLocked' /\ LocksHeld'
    BY <1>13 DEF FindActive, Active, TargetLocked, LocksHeld
  <2>3. TargetChecked'
    BY <1>13 DEF FindActive, Active, TargetLocked, LocksHeld, TargetChecked, RowsActivated
  <2>4. NoCrossing'
    BY <1>13 DEF FindActive, Active, TargetLocked, LocksHeld, AtMostOneActive, NoCrossing
  <2>5. RowsActivated' /\ ActiveIsTested' /\ SentWithTested' /\ AtMostOneActive'
    BY <1>13, RowsKept DEF FindActive
  <2>6. RevisionsInOrder' /\ NextBounded'
    BY <1>13, SeriesKept DEF FindActive, Active
  <2> QED BY <2>1, <2>2, <2>3, <2>4, <2>5, <2>6
<1>14. ASSUME LockActive(x) PROVE IInv'
  <2>1. TypeOK'
    BY <1>14 DEF LockActive, Active, TargetLocked
  <2>2. TargetLocked' /\ LocksHeld'
    BY <1>14 DEF LockActive, Active, TargetLocked, LocksHeld
  <2>3. TargetChecked'
    BY <1>14 DEF LockActive, Active, TargetLocked, LocksHeld, TargetChecked, RowsActivated
  <2>4. NoCrossing'
    BY <1>14 DEF LockActive, Active, TargetLocked, LocksHeld, AtMostOneActive, NoCrossing
  <2>5. RowsActivated' /\ ActiveIsTested' /\ SentWithTested' /\ AtMostOneActive'
    BY <1>14, RowsKept DEF LockActive
  <2>6. RevisionsInOrder' /\ NextBounded'
    BY <1>14, SeriesKept DEF LockActive, Active
  <2> QED BY <2>1, <2>2, <2>3, <2>4, <2>5, <2>6
<1>15. ASSUME CommitActivation(x) PROVE IInv'
  <2>1. TypeOK'
    BY <1>15 DEF CommitActivation, Release, EndCall, OtherActive, Active, TargetLocked
  <2>2. TargetLocked' /\ LocksHeld'
    BY <1>15
       DEF CommitActivation, Release, EndCall, OtherActive, Active, TargetLocked,
           LocksHeld
  <2>3. TargetChecked'
    BY <1>15
       DEF CommitActivation, Release, EndCall, OtherActive, Active, TargetLocked,
           LocksHeld, TargetChecked, RowsActivated
  <2>4. NoCrossing'
    BY <1>15
       DEF CommitActivation, Release, EndCall, OtherActive, Active, TargetLocked,
           LocksHeld, AtMostOneActive, NoCrossing
  <2>5. RowsActivated' /\ AtMostOneActive'
    BY <1>15
       DEF CommitActivation, Release, EndCall, OtherActive, Active, TargetLocked,
           TargetChecked, RowsActivated, AtMostOneActive
  <2>6. ActiveIsTested' /\ SentWithTested'
    BY <1>15
       DEF CommitActivation, Release, EndCall, OtherActive, Active, TargetLocked,
           TargetChecked, RowsActivated, ActiveIsTested, SentWithTested
  <2>7. RevisionsInOrder' /\ NextBounded'
    BY <1>15, SeriesKept DEF CommitActivation, Release, EndCall, OtherActive, Active
  <2> QED BY <2>1, <2>2, <2>3, <2>4, <2>5, <2>6, <2>7
<1>16. ASSUME RejectActivation(x) PROVE IInv'
  <2>1. TypeOK'
    BY <1>16 DEF RejectActivation, Rollback, Release, EndCall, TargetLocked
  <2>2. TargetLocked' /\ LocksHeld'
    BY <1>16 DEF RejectActivation, Rollback, Release, EndCall, TargetLocked, LocksHeld
  <2>3. TargetChecked'
    BY <1>16
       DEF RejectActivation, Rollback, Release, EndCall, TargetLocked, LocksHeld,
           TargetChecked, RowsActivated
  <2>4. NoCrossing'
    BY <1>16
       DEF RejectActivation, Rollback, Release, EndCall, TargetLocked, LocksHeld,
           AtMostOneActive, NoCrossing
  <2>5. RowsActivated' /\ ActiveIsTested' /\ SentWithTested' /\ AtMostOneActive'
    BY <1>16, RowsKept DEF RejectActivation, Rollback
  <2>6. RevisionsInOrder' /\ NextBounded'
    BY <1>16, SeriesKept DEF RejectActivation, Rollback, Release, EndCall
  <2> QED BY <2>1, <2>2, <2>3, <2>4, <2>5, <2>6
<1>17. ASSUME CommitDeactivation(x) PROVE IInv'
  <2>1. TypeOK'
    BY <1>17 DEF CommitDeactivation, Release, EndCall, TargetLocked
  <2>2. TargetLocked' /\ LocksHeld'
    BY <1>17 DEF CommitDeactivation, Release, EndCall, TargetLocked, LocksHeld
  <2>3. TargetChecked'
    BY <1>17
       DEF CommitDeactivation, Release, EndCall, TargetLocked, LocksHeld, TargetChecked,
           RowsActivated
  <2>4. NoCrossing'
    BY <1>17
       DEF CommitDeactivation, Release, EndCall, TargetLocked, LocksHeld, AtMostOneActive,
           NoCrossing
  <2>5. RowsActivated' /\ AtMostOneActive'
    BY <1>17
       DEF CommitDeactivation, Release, EndCall, TargetLocked, TargetChecked,
           RowsActivated, AtMostOneActive
  <2>6. ActiveIsTested' /\ SentWithTested'
    BY <1>17
       DEF CommitDeactivation, Release, EndCall, TargetLocked, TargetChecked,
           RowsActivated, ActiveIsTested, SentWithTested, Active
  <2>7. RevisionsInOrder' /\ NextBounded'
    BY <1>17, SeriesKept DEF CommitDeactivation, Release, EndCall
  <2> QED BY <2>1, <2>2, <2>3, <2>4, <2>5, <2>6, <2>7
<1>18. ASSUME FailCall(x) PROVE IInv'
  <2>1. TypeOK'
    BY <1>18 DEF FailCall, Rollback, Release, EndCall, TargetLocked
  <2>2. TargetLocked' /\ LocksHeld'
    BY <1>18 DEF FailCall, Rollback, Release, EndCall, TargetLocked, LocksHeld
  <2>3. TargetChecked'
    BY <1>18
       DEF FailCall, Rollback, Release, EndCall, TargetLocked, LocksHeld, TargetChecked,
           RowsActivated
  <2>4. NoCrossing'
    BY <1>18
       DEF FailCall, Rollback, Release, EndCall, TargetLocked, LocksHeld, AtMostOneActive,
           NoCrossing
  <2>5. RowsActivated' /\ ActiveIsTested' /\ SentWithTested' /\ AtMostOneActive'
    BY <1>18, RowsKept DEF FailCall, Rollback
  <2>6. RevisionsInOrder' /\ NextBounded'
    BY <1>18, SeriesKept DEF FailCall, Rollback, Release, EndCall
  <2> QED BY <2>1, <2>2, <2>3, <2>4, <2>5, <2>6
<1> QED
  BY <1>1, <1>2, <1>3, <1>4, <1>5, <1>6, <1>7, <1>8, <1>9,
     <1>10, <1>11, <1>12, <1>13, <1>14, <1>15, <1>16, <1>17, <1>18
     DEF CallStep

\* Every step of a sender keeps the invariant.
LEMMA SendKeeps ==
  ASSUME IInv, NEW s \in Senders, SendStep(s)
  PROVE  IInv'
<1> USE DEF IInv, TypeOK, SendStep, ResolvePlatformActive, EndSend, rows, calls
<1>1. TypeOK' /\ TargetLocked' /\ LocksHeld' /\ TargetChecked' /\ NoCrossing'
  BY DEF TargetLocked, LocksHeld, TargetChecked, NoCrossing, Exists
<1>2. ActiveIsTested' /\ AtMostOneActive'
  BY DEF ActiveIsTested, Active, AtMostOneActive
<1>3. RevisionsInOrder' /\ NextBounded'
  BY SeriesKept
<1>4. ASSUME NEW c \in Configs, ResolvePlatformActive(s, c)
      PROVE RowsActivated' /\ SentWithTested'
  BY <1>4 DEF RowsActivated, ActiveIsTested, SentWithTested, Active, Exists
<1>5. CASE EndSend(s)
  <2>1. /\ UNCHANGED <<provider, revision, enabled, tested, active, activated>>
        /\ \A t \in Senders : \A c \in Configs : resolved'[t] = c => resolved[t] = c
    BY <1>5, ConfigAssumption
  <2>2. RowsActivated'
    BY <2>1 DEF RowsActivated, Exists
  <2>3. SentWithTested'
    BY <2>1 DEF SentWithTested
  <2> QED BY <1>1, <1>2, <1>3, <2>2, <2>3
<1> QED BY <1>1, <1>2, <1>3, <1>4, <1>5

\* The invariant is inductive.
LEMMA InvariantStep == IInv /\ [Next]_vars => IInv'
<1>1. IInv /\ UNCHANGED vars => IInv'
  <2> SUFFICES ASSUME IInv, UNCHANGED vars PROVE IInv'
    OBVIOUS
  <2> USE DEF vars, rows, calls
  <2>1. TypeOK' /\ TargetLocked' /\ LocksHeld' /\ TargetChecked' /\ NoCrossing'
    BY DEF IInv, TypeOK, TargetLocked, LocksHeld, TargetChecked, NoCrossing, Exists
  <2> QED BY <2>1, RowsKept, SeriesKept DEF IInv
<1> QED BY <1>1, CallKeeps, SendKeeps DEF Next

\* IInv is an inductive invariant of the system.
THEOREM Invariance == Spec => []IInv
<1>1. Init => IInv
  <2> SUFFICES ASSUME Init PROVE IInv
    OBVIOUS
  <2> USE ConfigAssumption DEF Init
  <2>1. \A p \in Providers : SeriesOf(p) = {}
    BY DEF SeriesOf
  <2>2. RevisionsInOrder
    <3>1. \A p \in Providers : RevisionsOf(p) = {}
      BY <2>1 DEF RevisionsOf
    <3>2. \A p \in Providers : Cardinality(SeriesOf(p)) = 0
      BY <2>1, EmptySeries
    <3>3. 1..0 = {}
      OBVIOUS
    <3> HIDE DEF Init
    <3> QED BY <3>1, <3>2, <3>3, Zenon DEF RevisionsInOrder
  <2>3. TypeOK
    BY DEF TypeOK
  <2>4. TargetLocked /\ LocksHeld /\ TargetChecked
    BY DEF TargetLocked, LocksHeld, TargetChecked, Activating
  <2>5. RowsActivated /\ ActiveIsTested /\ SentWithTested
    BY DEF RowsActivated, ActiveIsTested, SentWithTested, Active
  <2>6. AtMostOneActive /\ NoCrossing /\ NextBounded
    BY DEF AtMostOneActive, NoCrossing, NextBounded
  <2> QED BY <2>2, <2>3, <2>4, <2>5, <2>6 DEF IInv
<1> QED BY <1>1, InvariantStep, PTL DEF Spec

\* The shape of the state, in every reachable state.
THEOREM TypeCorrect == Spec => []TypeOK
BY Invariance, PTL DEF IInv

\* However many activations and deactivations overlap, at most one row is active.
THEOREM OneActiveHolds == Spec => []OneActive
<1>1. IInv => OneActive
  <2> SUFFICES ASSUME IInv PROVE OneActive
    OBVIOUS
  <2>1. CASE Active = {}
    BY <2>1, FS_EmptySet DEF OneActive
  <2>2. CASE \E c \in Configs : Active = {c}
    BY <2>2, FS_Singleton DEF OneActive
  <2> QED BY <2>1, <2>2 DEF IInv, AtMostOneActive, Active
<1> QED BY <1>1, Invariance, PTL

\* An active row is enabled and its exact revision was tested, as long as it is active.
THEOREM ActiveIsTestedHolds == Spec => []ActiveIsTested
BY Invariance, PTL DEF IInv

\* A sender never works with a row that is disabled or was not tested.
THEOREM SentWithTestedHolds == Spec => []SentWithTested
BY Invariance, PTL DEF IInv

\* The revisions of every provider are 1, 2, 3, ... without a gap or a repetition.
THEOREM RevisionsInOrderHolds == Spec => []RevisionsInOrder
BY Invariance, PTL DEF IInv

\* Only a deactivation ends with no row active.
THEOREM NoOutageHolds == Spec => NoOutage
<1> DEFINE Outage == Active # {} /\ Active' = {} =>
                       \E x \in Calls : op[x] = "deactivate" /\ op'[x] = "idle"
<1>1. IInv /\ [Next]_vars => [Outage]_vars
  <2> SUFFICES ASSUME IInv, Next, Active # {}, Active' = {}
               PROVE \E x \in Calls : op[x] = "deactivate" /\ op'[x] = "idle"
    OBVIOUS
  <2> USE DEF rows, calls
  <2>1. active' # active
    BY DEF Active
  <2>2. ASSUME NEW x \in Calls, CommitActivation(x) PROVE FALSE
    <3>1. target[x] \in Configs /\ active'[target[x]]
      BY <2>2 DEF CommitActivation, IInv, TargetLocked
    <3> QED BY <3>1 DEF Active
  <2>3. PICK x \in Calls : CommitDeactivation(x)
    BY <2>1, <2>2
       DEF Next, CallStep, SendStep, Create, InsertRow, LockDraft, LockSource, CommitRevision,
           BeginTest, LockTarget, LockForDeactivation, CommitPatch, ReadMaxRevision,
           RejectRevision, RecordSuccess, RecordFailure, FindActive, LockActive,
           RejectActivation, FailCall, Rollback, ResolvePlatformActive, EndSend
  <2> QED BY <2>3 DEF CommitDeactivation, EndCall, IInv, TypeOK
<1> QED BY <1>1, Invariance, PTL DEF Spec, NoOutage

\* No two calls wait for each other's row locks.
THEOREM NoDeadlockHolds == Spec => []NoDeadlock
<1>1. IInv => NoDeadlock
  <2> SUFFICES ASSUME IInv, NEW x \in Calls, NEW y \in Calls, WaitsFor(x, y), WaitsFor(y, x)
               PROVE FALSE
    BY DEF NoDeadlock
  <2> USE DEF IInv, TypeOK, WaitsFor, LocksHeld, TargetLocked
  <2>1. op[x] = "deactivateOthers" /\ op[y] = "deactivateOthers"
    OBVIOUS
  <2>2. target[y] \in found[x] /\ target[x] \in found[y]
    BY <2>1
  <2> QED BY <2>1, <2>2 DEF NoCrossing
<1> QED BY <1>1, Invariance, PTL
=============================================================================
