----------------------- MODULE MonthlyPartitionsProofs -----------------------
(***************************************************************************)
(* A schedule that never lapses keeps the default partition free of rows   *)
(* of any month since the migration, for every Ahead, Late and MaxMonth;   *)
(* and with or without such a schedule a scan is stored once, for any set  *)
(* of scans of any months.                                                 *)
(***************************************************************************)
EXTENDS CheckIns, TLAPS

\* Every month up to the last one provided for has a partition.
Provided == ~lapsed => /\ month <= ran + Ahead
                       /\ 0..(ran + Ahead) \subseteq partitions

DefaultIsEmpty == ~lapsed => inDefault \intersect Nat = {}

IInv == TypeOK /\ Provided /\ DefaultIsEmpty

\* The migration provides for the current and the next month.
LEMMA InitIInv == Init => IInv
<1> SUFFICES ASSUME Init PROVE IInv
  OBVIOUS
<1>1. ran + Ahead = 1 /\ partitions = 0..1 /\ ran \in Int
  BY PartitionAssumption, SMT DEF Init, MigrationAhead
<1>2. TypeOK
  <2>1. month \in 0..MaxMonth /\ ran \in Int
    BY <1>1, PartitionAssumption, SMT DEF Init
  <2>2. partitions \subseteq Nat
    BY <1>1, SMT
  <2> QED BY <2>1, <2>2, Zenon DEF Init, TypeOK
<1>3. Provided /\ DefaultIsEmpty
  BY <1>1, SMT DEF Init, Provided, DefaultIsEmpty
<1> QED BY <1>2, <1>3 DEF IInv

\* A row of any month that has begun keeps the months provided for out of the default
\* partition.
LEMMA InsertKeeps ==
  ASSUME IInv, NEW m \in Int, m <= month, Insert(m)
  PROVE  IInv'
<1> USE PartitionAssumption DEF IInv, TypeOK
<1>1. TypeOK'
  BY SMT DEF Insert
<1>2. Provided'
  BY SMT DEF Insert, Provided
<1>3. ASSUME ~lapsed, m \in Nat PROVE m \in partitions
  BY <1>3, SMT DEF Provided
<1>4. DefaultIsEmpty'
  BY <1>3, SMT DEF Insert, DefaultIsEmpty
<1> QED BY <1>1, <1>2, <1>4

\* A month that begins, a row and a run keep the months provided for contiguous.
LEMMA NextIInv == IInv /\ [Next]_vars => IInv'
<1> SUFFICES ASSUME IInv, [Next]_vars PROVE IInv'
  OBVIOUS
<1> USE PartitionAssumption DEF IInv, TypeOK
<1>1. CASE NextMonth
  <2>1. TypeOK'
    BY <1>1, SMT DEF NextMonth
  <2>2. Provided' /\ DefaultIsEmpty'
    <3> SUFFICES ASSUME ~lapsed' PROVE Provided' /\ DefaultIsEmpty'
      BY DEF Provided, DefaultIsEmpty
    <3>1. ~lapsed /\ ~(month' > ran + Ahead)
      BY <1>1 DEF NextMonth
    <3>2. month' <= ran + Ahead
      BY <1>1, <3>1, SMT DEF NextMonth
    <3> QED BY <1>1, <3>1, <3>2, Zenon DEF NextMonth, Provided, DefaultIsEmpty
  <2> QED BY <2>1, <2>2
<1>2. ASSUME NEW m \in (month - Late)..month, Insert(m) PROVE IInv'
  <2>1. m \in Int /\ m <= month
    BY SMT
  <2> QED BY <1>2, <2>1, InsertKeeps DEF IInv
<1>3. CASE Maintain
  <2>1. TypeOK'
    BY <1>3, SMT DEF Maintain, Wanted
  <2>2. ASSUME ~lapsed' PROVE 0..(ran' + Ahead) \subseteq partitions'
    <3>1. ASSUME NEW m \in 0..(month + Ahead) PROVE m \in partitions \union Wanted
      BY <1>3, <2>2, SMT DEF Maintain, Provided, Wanted
    <3> QED BY <1>3, <3>1, SMT DEF Maintain
  <2>3. Provided'
    BY <1>3, <2>2, SMT DEF Maintain, Provided
  <2>4. DefaultIsEmpty'
    BY <1>3, SMT DEF Maintain, DefaultIsEmpty
  <2> QED BY <2>1, <2>3, <2>4
<1>4. CASE UNCHANGED vars
  BY <1>4 DEF vars, Provided, DefaultIsEmpty
<1>5. CASE MaintainFails
  BY <1>4, <1>5 DEF MaintainFails
<1> QED BY <1>1, <1>2, <1>3, <1>4, <1>5 DEF Next

\* With no row of a wanted month in the default partition, no CREATE is refused.
LEMMA IInvSuffices == IInv => ScheduleSuffices
<1> SUFFICES ASSUME IInv, ~lapsed PROVE inDefault \intersect Nat = {} /\ Wanted \subseteq Nat
  BY DEF ScheduleSuffices
<1> QED BY PartitionAssumption, SMT DEF IInv, TypeOK, DefaultIsEmpty, Wanted

\* The inductive invariant holds of every state.
THEOREM Invariance == Spec => []IInv
BY InitIInv, NextIInv, PTL DEF Spec

\* The clock, the months that have a partition, and the rows outside them.
THEOREM TypeCorrect == Spec => []TypeOK
<1>1. IInv => TypeOK
  BY DEF IInv
<1> QED BY Invariance, <1>1, PTL

\* A schedule that never lets Ahead months pass without a complete run keeps every
\* row out of the default partition and never meets a run that raises.
THEOREM ScheduleSufficesHolds == Spec => []ScheduleSuffices
BY Invariance, IInvSuffices, PTL

-----------------------------------------------------------------------------
\* A scan has at most one row, and that is in the leaf a replay would be routed to: in its
\* month's partition, or in the default one while inDefault keeps the month without one.
Placed ==
  \A s \in Scans : rows[s] # <<>> =>
    /\ rows[s] = <<Leaf(s)>>
    /\ Leaf(s) = {} => ScanMonth[s] \in inDefault

CheckInsInv == IInv /\ CheckInsTypeOK /\ Placed

\* The leaf of a scan that has a row stays its leaf while partitions are only added, none of
\* them for a month with rows in the default partition.
LEMMA LeafStays ==
  ASSUME CheckInsInv, NEW s \in Scans, rows[s] # <<>>,
         partitions \subseteq partitions', inDefault \subseteq inDefault',
         partitions' \intersect inDefault' = {}
  PROVE  Leaf(s)' = Leaf(s) /\ (Leaf(s)' = {} => ScanMonth[s] \in inDefault')
<1>1. Leaf(s) = {} => ScanMonth[s] \in inDefault
  BY DEF CheckInsInv, Placed
<1>2. Leaf(s) = {ScanMonth[s]} \intersect partitions
  BY DEF Leaf, KeyMonth
<1>3. Leaf(s)' = {ScanMonth[s]} \intersect partitions'
  BY DEF Leaf, KeyMonth
<1> QED BY <1>1, <1>2, <1>3

\* A pushed scan goes where a replay of it will look for it.
LEMMA PushKeeps ==
  ASSUME CheckInsInv, NEW s \in Scans, Push(s)
  PROVE  CheckInsInv'
<1>1. ScanMonth[s] \in Int /\ ScanMonth[s] <= month /\ KeyMonth(s) = ScanMonth[s]
  BY ScanAssumption DEF Push, Pushable, KeyMonth
<1>2. IInv'
  BY <1>1, InsertKeeps DEF Push, CheckInsInv
<1>3. /\ partitions' = partitions
      /\ inDefault' = IF ScanMonth[s] \in partitions THEN inDefault ELSE inDefault \union {ScanMonth[s]}
  BY <1>1 DEF Push, Insert
<1>4. rows[s] = <<>>
  <2> SUFFICES ASSUME rows[s] # <<>> PROVE FALSE
    OBVIOUS
  <2>1. rows[s] = <<Leaf(s)>>
    BY DEF CheckInsInv, Placed
  <2>2. 1 \in DOMAIN rows[s] /\ rows[s][1] = Leaf(s)
    BY <2>1, SMT
  <2> QED BY <2>2 DEF Push, UniqueViolation
<1>5. Leaf(s) = {ScanMonth[s]} \intersect partitions /\ Leaf(s)' = Leaf(s) /\ Leaf(s) \in SUBSET Int
  BY <1>1, <1>3 DEF Leaf, KeyMonth
<1>6. rows' = [rows EXCEPT ![s] = <<Leaf(s)>>]
  <2>1. rows' = [rows EXCEPT ![s] = Append(rows[s], Leaf(s))]
    BY DEF Push
  <2>2. Append(<<>>, Leaf(s)) = <<Leaf(s)>>
    BY <1>5, SMT
  <2> QED BY <1>4, <2>1, <2>2
<1>7. CheckInsTypeOK'
  <2>1. <<Leaf(s)>> \in Seq(SUBSET Int)
    BY <1>5, SMT
  <2> QED BY <1>2, <1>6, <2>1 DEF CheckInsInv, CheckInsTypeOK, IInv
<1>8. Placed'
  <2> SUFFICES ASSUME NEW r \in Scans, rows'[r] # <<>>
               PROVE  rows'[r] = <<Leaf(r)'>> /\ (Leaf(r)' = {} => ScanMonth[r] \in inDefault')
    BY DEF Placed
  <2>1. CASE r = s
    BY <1>3, <1>5, <1>6, <2>1 DEF CheckInsInv, CheckInsTypeOK
  <2>2. CASE r # s
    <3>1. rows'[r] = rows[r] /\ rows[r] = <<Leaf(r)>>
      BY <1>6, <2>2 DEF CheckInsInv, CheckInsTypeOK, Placed
    <3>2. partitions' \intersect inDefault' = {}
      BY <1>2 DEF IInv, TypeOK
    <3>3. Leaf(r)' = Leaf(r) /\ (Leaf(r)' = {} => ScanMonth[r] \in inDefault')
      BY <1>3, <3>1, <3>2, LeafStays
    <3> QED BY <3>1, <3>3
  <2> QED BY <2>1, <2>2
<1> QED BY <1>2, <1>7, <1>8 DEF CheckInsInv

\* A month that begins and a run leave every scan with the leaf of its row.
LEMMA CheckInsNextInv == CheckInsInv /\ [CheckInsNext]_checkInVars => CheckInsInv'
<1> SUFFICES ASSUME CheckInsInv, [CheckInsNext]_checkInVars PROVE CheckInsInv'
  OBVIOUS
<1>1. ASSUME NEW s \in Scans, Push(s) PROVE CheckInsInv'
  BY <1>1, PushKeeps
<1>2. ASSUME rows' = rows, NextMonth \/ Maintain \/ MaintainFails \/ UNCHANGED vars
      PROVE  CheckInsInv'
  <2>1. IInv'
    BY <1>2, NextIInv DEF CheckInsInv, Next
  <2>2. partitions \subseteq partitions' /\ inDefault' = inDefault
    BY <1>2 DEF NextMonth, Maintain, MaintainFails, vars
  <2>3. partitions' \intersect inDefault' = {}
    BY <2>1 DEF IInv, TypeOK
  <2>4. Placed'
    <3> SUFFICES ASSUME NEW s \in Scans, rows[s] # <<>>
                 PROVE  rows[s] = <<Leaf(s)'>> /\ (Leaf(s)' = {} => ScanMonth[s] \in inDefault')
      BY <1>2 DEF Placed
    <3>1. Leaf(s)' = Leaf(s) /\ (Leaf(s)' = {} => ScanMonth[s] \in inDefault')
      BY <2>2, <2>3, LeafStays
    <3>2. rows[s] = <<Leaf(s)>>
      BY DEF CheckInsInv, Placed
    <3> QED BY <3>1, <3>2
  <2> QED BY <1>2, <2>1, <2>4 DEF CheckInsInv, CheckInsTypeOK, IInv
<1>3. ASSUME NEW s \in Scans, Replay(s) PROVE rows' = rows /\ UNCHANGED vars
  BY <1>3 DEF Replay, checkInVars
<1> QED BY <1>1, <1>2, <1>3 DEF CheckInsNext, checkInVars

\* The inductive invariant of the scans holds of every state.
THEOREM CheckInsInvariance == CheckInsSpec => []CheckInsInv
<1>1. CheckInsInit => CheckInsInv
  <2> SUFFICES ASSUME CheckInsInit PROVE CheckInsInv
    OBVIOUS
  <2>1. IInv
    BY InitIInv DEF CheckInsInit
  <2>2. <<>> \in Seq(SUBSET Int)
    BY SMT
  <2> QED BY <2>1, <2>2 DEF CheckInsInit, CheckInsInv, CheckInsTypeOK, IInv, Placed
<1> QED BY <1>1, CheckInsNextInv, PTL DEF CheckInsSpec

\* The rows are of scans, in leaves, beside the types of the months.
THEOREM CheckInsTypeCorrect == CheckInsSpec => []CheckInsTypeOK
<1>1. CheckInsInv => CheckInsTypeOK
  BY DEF CheckInsInv
<1> QED BY CheckInsInvariance, <1>1, PTL

\* No scan is stored twice, whatever is pushed again and whenever the command runs: the leaf
\* in which the unique index is searched is always the one that holds the scan's row.
THEOREM ReplayAbsorbedHolds == CheckInsSpec => []ReplayAbsorbed
<1>1. CheckInsInv => ReplayAbsorbed
  <2> SUFFICES ASSUME CheckInsInv, NEW s \in Scans PROVE Len(rows[s]) <= 1
    BY DEF ReplayAbsorbed
  <2>1. rows[s] = <<>> \/ rows[s] = <<Leaf(s)>>
    BY DEF CheckInsInv, Placed
  <2>2. CASE rows[s] = <<>>
    BY <2>2
  <2>3. CASE rows[s] = <<Leaf(s)>>
    <3>1. Len(<<Leaf(s)>>) = 1
      OBVIOUS
    <3> QED BY <2>3, <3>1
  <2> QED BY <2>1, <2>2, <2>3
<1> QED BY CheckInsInvariance, <1>1, PTL

\* The schedule suffices for the scans too, however old the ones pushed again are.
THEOREM CheckInsScheduleSuffices == CheckInsSpec => []ScheduleSuffices
<1>1. CheckInsInv => ScheduleSuffices
  BY IInvSuffices DEF CheckInsInv
<1> QED BY CheckInsInvariance, <1>1, PTL
=============================================================================
