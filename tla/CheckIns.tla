------------------------------- MODULE CheckIns -------------------------------
(***************************************************************************)
(* check_ins: the ledger of scans, partitioned by the scan's minute. A     *)
(* scan stands for one key of uidx_check_ins__idempotency: device, QR code *)
(* and minute. Its device pushes it, at once or with an offline batch, and *)
(* pushes it again whenever the answer was lost.                           *)
(*                                                                         *)
(* The months, their partitions and the command that creates them are      *)
(* those of MonthlyPartitions, whose Insert is refined here to single keys.*)
(***************************************************************************)
EXTENDS MonthlyPartitions, Sequences

CONSTANTS
  Scans,
  ScanMonth   \* the month of each scan's minute

ASSUME ScanAssumption == ScanMonth \in [Scans -> Int]

VARIABLE rows   \* the rows of check_ins by scan: the leaf of each, in the order of the INSERTs

checkInVars == <<vars, rows>>

CheckInsInit == Init /\ rows = [s \in Scans |-> <<>>]

\* Mutant: partitioned by created_at, as audit_logs is.
KeyMonthOfArrival(s) == month

\* PARTITION BY RANGE (scan_minute): the month in which a scan was made, not pushed.
KeyMonth(s) == ScanMonth[s]

\* The leaf a scan is routed to, named by the months of its range: its own, or none for
\* the default partition.
Leaf(s) == {KeyMonth(s)} \intersect partitions

\* The unique index has the columns of the key. PostgreSQL keeps it per partition, so only
\* the rows of the leaf are searched.
UniqueViolation(s) == \E i \in DOMAIN rows[s] : rows[s][i] = Leaf(s)

\* A scan is first pushed within Late months; pushed again, it may be of any age.
Pushable(s) ==
  /\ ScanMonth[s] <= month
  /\ rows[s] # <<>> \/ ScanMonth[s] >= month - Late

Push(s) ==
  /\ Pushable(s) /\ ~UniqueViolation(s)
  /\ Insert(KeyMonth(s))
  /\ rows' = [rows EXCEPT ![s] = Append(@, Leaf(s))]

\* A replay hits the unique index and stores nothing.
Replay(s) ==
  /\ Pushable(s) /\ UniqueViolation(s)
  /\ UNCHANGED checkInVars

CheckInsNext ==
  \/ \E s \in Scans : Push(s) \/ Replay(s)
  \/ NextMonth /\ UNCHANGED rows
  \/ Maintain /\ UNCHANGED rows
  \/ MaintainFails /\ UNCHANGED rows

CheckInsSpec == CheckInsInit /\ [][CheckInsNext]_checkInVars

-----------------------------------------------------------------------------
\* Every row is of a scan, in a leaf.
CheckInsTypeOK == TypeOK /\ rows \in [Scans -> Seq(SUBSET Int)]

\* "Exact offline replay is absorbed idempotently": a scan pushed any number of times, next
\* to months that begin and runs that create partitions, is one row. No index spans the
\* partitions, so this needs that a scan is routed to one leaf for ever.
ReplayAbsorbed == \A s \in Scans : Len(rows[s]) <= 1
=============================================================================
