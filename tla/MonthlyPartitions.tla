-------------------------- MODULE MonthlyPartitions --------------------------
(***************************************************************************)
(* The month partitions of audit_logs, check_ins and webhook_events, and   *)
(* the command that creates them ahead of time. The three commands differ  *)
(* only in the table's name.                                               *)
(*                                                                         *)
(* External: PostgreSQL routes a row to its month's partition, or to the   *)
(* default one when there is none, and refuses to create a partition whose *)
(* rows the default already holds. Rows never leave: audit_logs rejects    *)
(* UPDATE and DELETE.                                                      *)
(***************************************************************************)
EXTENDS Integers

CONSTANTS
  Ahead,      \* the command's FOR offset_month IN 0..Ahead
  Late,       \* how many months old a row may be when it is written: 0 for created_at
              \* and received_at, 1 for an offline scan pushed after the month's end
  MaxMonth    \* bound: the last month of the clock

ASSUME PartitionAssumption ==
  /\ Ahead \in Nat \ {0} /\ Late \in Nat /\ MaxMonth \in Nat

VARIABLES
  month,        \* the clock; the migration runs in month 0
  partitions,   \* the months that have a partition
  inDefault,    \* the months of which the default partition holds a row
  ran,          \* the month of the command's last complete run
  lapsed        \* whether a month began that no run, nor the migration, had provided for

vars == <<month, partitions, inDefault, ran, lapsed>>

\* The migration creates the current and the next month, and the default partition.
MigrationAhead == 1

Init ==
  /\ month = 0
  /\ partitions = 0..MigrationAhead
  /\ inDefault = {}
  /\ ran = MigrationAhead - Ahead     \* as a run of the command that reaches as far
  /\ lapsed = FALSE

NextMonth ==
  /\ month < MaxMonth
  /\ month' = month + 1
  /\ lapsed' = (lapsed \/ month' > ran + Ahead)
  /\ UNCHANGED <<partitions, inDefault, ran>>

Insert(m) ==
  /\ inDefault' = IF m \in partitions THEN inDefault ELSE inDefault \union {m}
  /\ UNCHANGED <<month, partitions, ran, lapsed>>

\* Mutants: the loop starts at the last month; it ends a month early.
WantedFromLast == (month - 1)..(month + Ahead)
WantedOneLess == month..(month + Ahead - 1)

Wanted == month..(month + Ahead)

(***************************************************************************)
(* The command: one DO block, so one transaction. A month that exists is   *)
(* passed over; one whose rows are in the default partition raises, and    *)
(* then no month is created.                                               *)
(***************************************************************************)
Maintain ==
  /\ (Wanted \ partitions) \intersect inDefault = {}
  /\ partitions' = partitions \union Wanted
  /\ ran' = month
  /\ UNCHANGED <<month, inDefault, lapsed>>

MaintainFails ==
  /\ (Wanted \ partitions) \intersect inDefault # {}
  /\ UNCHANGED vars

Next ==
  \/ NextMonth
  \/ \E m \in (month - Late)..month : Insert(m)
  \/ Maintain
  \/ MaintainFails

Spec == Init /\ [][Next]_vars

-----------------------------------------------------------------------------
\* The clock, the months and the history have their types.
TypeOK ==
  /\ month \in 0..MaxMonth
  /\ partitions \subseteq Nat /\ inDefault \subseteq Int
  /\ partitions \intersect inDefault = {}
  /\ ran \in Int /\ lapsed \in BOOLEAN

\* As long as some run came at least once in every Ahead months, no row of a month
\* since the migration is in the default partition, and the next run completes.
ScheduleSuffices ==
  ~lapsed => /\ inDefault \intersect Nat = {}
             /\ (Wanted \ partitions) \intersect inDefault = {}

\* What the commands' header says of every run: it can be run again on a schedule and
\* creates the current and the next Ahead months.
RunCompletes == (Wanted \ partitions) \intersect inDefault = {}
=============================================================================
