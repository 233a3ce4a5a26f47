------------------------------ MODULE MCTables ------------------------------
(***************************************************************************)
(* Three small components in one run: the scans with their month           *)
(* partitions, the tickets with their payments, and the key rings. They    *)
(* share no variable and every property reads one of them only, so a       *)
(* behaviour is about one, chosen at the start: their interleavings would  *)
(* add nothing.                                                            *)
(***************************************************************************)
EXTENDS CheckIns, TicketSales, KeyRings, TLC

CONSTANTS
  t1, t2, t3, e1, e2, w1, w2,
  k0, k1, k2, r1, r2, o1, o2, i1, i2, factor

VARIABLE part

\* One scan in every month, and one of the month before the migration.
MCScans == -1..MaxMonth
MCScanMonth == [s \in Scans |-> s]

\* A group of three and two single visitors. The group's payment may be tried twice, the
\* third ticket is never paid for.
MCQuantity == [t \in Tickets |-> IF t = t1 THEN 3 ELSE 1]
MCAttemptIds == {<<t1, 1>>, <<t1, 2>>, <<t2, 1>>}

TablesInit ==
  /\ part \in {"check-ins", "tickets", "field", "jwt"}
  /\ CheckInsInit /\ SalesInit /\ KeysInit
  /\ purpose = IF part = "jwt" THEN "jwt" ELSE "field"

TablesNext ==
  /\ part' = part
  /\ \/ part = "check-ins" /\ CheckInsNext /\ UNCHANGED <<salesVars, keyVars>>
     \/ part = "tickets" /\ SalesNext /\ UNCHANGED <<checkInVars, keyVars>>
     \/ part = purpose /\ KeysNext /\ UNCHANGED <<checkInVars, salesVars>>

TablesSpec == TablesInit /\ [][TablesNext]_<<part, checkInVars, salesVars, keyVars>>

Symmetry == UNION {Permutations(S) : S \in {Events, Replicas, Runs}}
=============================================================================
