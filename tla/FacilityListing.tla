--------------------------- MODULE FacilityListing ---------------------------
(***************************************************************************)
(* GET /v1/facilities: keyset pagination over the active facilities, by    *)
(* name or by distance, while the rows change between two pages.           *)
(*                                                                         *)
(* A page is one SELECT, so it is atomic; a walk is the sequence of pages  *)
(* a client asks for with the cursors it is given. Nothing in src/ writes  *)
(* facilities or facility_types: the writes are external.                  *)
(***************************************************************************)
EXTENDS Integers, FiniteSets

CONSTANTS
  Facilities,     \* ids; PostgreSQL's order of uuids is the order of numbers here
  Types,
  Names,          \* numbers, in the collation's order
  Distances,      \* from the one point that clients search near
  Hits, Mentions, \* the names, and the facilities by address or description, that a search finds
  Queries,        \* the queries clients make
  PageSizes,
  MaxWrites,      \* bound: writes during a walk
  Nothing

NoFilter == [search |-> FALSE, facilityType |-> Nothing, radiusMeters |-> Nothing]

QueryType == [search : BOOLEAN, facilityType : Types \union {Nothing},
              radiusMeters : Nat \union {Nothing}]

ASSUME ListingAssumption ==
  /\ Facilities \subseteq Nat /\ IsFiniteSet(Facilities)
  /\ Names \subseteq Nat /\ Distances \subseteq Nat
  /\ Hits \subseteq Names /\ Mentions \subseteq Facilities
  /\ Queries \subseteq QueryType
  /\ PageSizes \subseteq Nat \ {0}
  /\ MaxWrites \in Nat
  /\ Nothing \notin Nat /\ Nothing \notin Types /\ Nothing \notin QueryType

VARIABLES
  name, distance, facilityType, isActive,   \* facilities
  typeIsActive,                             \* facility_types
  walk,           \* the query of the walk under way, or Nothing
  nextCursor,     \* [query, key] of the last page's last row, or Nothing
  finished,       \* whether the last page had no nextCursor
  times,          \* how often the walk has shown each facility
  moved, hidden,  \* since the walk began: facilities whose key changed; that were not listed
  writes

table == <<name, distance, facilityType, isActive, typeIsActive>>
client == <<walk, nextCursor, finished, times>>
vars == <<table, client, moved, hidden, writes>>

Key == [value : Nat, id : Facilities]
Cursor == [query : Queries, key : Key]

(***************************************************************************)
(* The SELECT of the repository.                                           *)
(***************************************************************************)
\* Mutant: a page does not ask whether the type is active.
VisibleOfAnyType(f) == isActive[f]

Visible(f) == isActive[f] /\ typeIsActive[facilityType[f]]

Matches(q, f) ==
  /\ Visible(f)
  /\ q.facilityType # Nothing => facilityType[f] = q.facilityType
  /\ q.search => name[f] \in Hits \/ f \in Mentions
  /\ q.radiusMeters # Nothing => distance[f] <= q.radiusMeters

\* What the rows are ordered by: distance for a nearby query, else name; then id.
RowKey(q, f) ==
  [value |-> IF q.radiusMeters = Nothing THEN name[f] ELSE distance[f], id |-> f]

Precedes(a, b) == a.value < b.value \/ (a.value = b.value /\ a.id < b.id)

\* Mutants: the last row comes again; rows that tie with it are passed over.
FromCursor(q, c) ==
  {f \in Facilities : Matches(q, f) /\ (c = Nothing \/ ~Precedes(RowKey(q, f), c.key))}
BeyondCursor(q, c) ==
  {f \in Facilities : Matches(q, f) /\ (c = Nothing \/ c.key.value < RowKey(q, f).value)}

AfterCursor(q, c) ==
  {f \in Facilities : Matches(q, f) /\ (c = Nothing \/ Precedes(c.key, RowKey(q, f)))}

InOrder(q, f, g) == f = g \/ Precedes(RowKey(q, f), RowKey(q, g))

\* ORDER BY ... LIMIT n of the rows.
First(q, rows, n) ==
  {f \in rows : Cardinality({g \in rows : InOrder(q, g, f)}) <= n}

(***************************************************************************)
(* The service: the cursor is checked against the query, one row more than *)
(* the page holds tells whether there is another page.                     *)
(***************************************************************************)
\* Mutant: only the mode, by name or by distance, is compared.
AcceptsMode(q, c) ==
  c = Nothing \/ (c.query.radiusMeters = Nothing <=> q.radiusMeters = Nothing)

Accepts(q, c) == c = Nothing \/ c.query = q

Fetch(q, c, size) == First(q, AfterCursor(q, c), size + 1)

Show(q, fetched, size) ==
  LET data == First(q, fetched, size)
      last == CHOOSE f \in data : \A g \in data : InOrder(q, g, f)
      hasMore == Cardinality(fetched) > size
  IN  /\ nextCursor' = IF hasMore THEN [query |-> q, key |-> RowKey(q, last)] ELSE Nothing
      /\ finished' = ~hasMore
      /\ times' = [f \in Facilities |->
                     (IF nextCursor = Nothing THEN 0 ELSE times[f]) + IF f \in data THEN 1 ELSE 0]

FirstPage(q, size) ==
  /\ nextCursor = Nothing
  /\ walk' = q
  /\ Show(q, Fetch(q, Nothing, size), size)
  /\ moved' = {}
  /\ hidden' = {f \in Facilities : ~Matches(q, f)}
  /\ writes' = 0
  /\ UNCHANGED table

\* The client may change its filters and keep the cursor; the page is then refused.
NextPage(q, size) ==
  /\ nextCursor # Nothing
  /\ Accepts(q, nextCursor)
  /\ Show(q, Fetch(q, nextCursor, size), size)
  /\ UNCHANGED <<table, walk, moved, hidden, writes>>

\* The client gives the walk up.
Abandon ==
  /\ nextCursor # Nothing
  /\ nextCursor' = Nothing
  /\ walk' = Nothing
  /\ finished' = FALSE
  /\ UNCHANGED <<table, times, moved, hidden, writes>>

\* GET /v1/facilities/{facilityId}.
GetFacility(f) == isActive[f] /\ typeIsActive[facilityType[f]]

(***************************************************************************)
(* External: an administrator or a seed changes a row.                     *)
(***************************************************************************)
Write ==
  /\ walk # Nothing
  /\ writes < MaxWrites
  /\ writes' = writes + 1
  /\ UNCHANGED client
  /\ moved' = moved \union {f \in Facilities : RowKey(walk, f)' # RowKey(walk, f)}
  /\ hidden' = hidden \union {f \in Facilities : ~Matches(walk, f)'}

Rename(f, n) ==
  /\ name' = [name EXCEPT ![f] = n]
  /\ UNCHANGED <<distance, facilityType, isActive, typeIsActive>>
  /\ Write

Relocate(f, d) ==
  /\ distance' = [distance EXCEPT ![f] = d]
  /\ UNCHANGED <<name, facilityType, isActive, typeIsActive>>
  /\ Write

Retype(f, t) ==
  /\ facilityType' = [facilityType EXCEPT ![f] = t]
  /\ UNCHANGED <<name, distance, isActive, typeIsActive>>
  /\ Write

SetActive(f, active) ==
  /\ isActive' = [isActive EXCEPT ![f] = active]
  /\ UNCHANGED <<name, distance, facilityType, typeIsActive>>
  /\ Write

SetTypeActive(t, active) ==
  /\ typeIsActive' = [typeIsActive EXCEPT ![t] = active]
  /\ UNCHANGED <<name, distance, facilityType, isActive>>
  /\ Write

Init ==
  /\ name \in [Facilities -> Names] /\ distance \in [Facilities -> Distances]
  /\ facilityType \in [Facilities -> Types]
  /\ isActive \in [Facilities -> BOOLEAN] /\ typeIsActive = [t \in Types |-> TRUE]
  /\ walk = Nothing /\ nextCursor = Nothing /\ finished = FALSE
  /\ times = [f \in Facilities |-> 0]
  /\ moved = {} /\ hidden = {} /\ writes = 0

Next ==
  \/ \E q \in Queries, size \in PageSizes : FirstPage(q, size) \/ NextPage(q, size)
  \/ Abandon
  \/ \E f \in Facilities :
       \/ \E n \in Names : Rename(f, n)
       \/ \E d \in Distances : Relocate(f, d)
       \/ \E t \in Types : Retype(f, t)
       \/ \E active \in BOOLEAN : SetActive(f, active)
  \/ \E t \in Types, active \in BOOLEAN : SetTypeActive(t, active)

Spec == Init /\ [][Next]_vars

-----------------------------------------------------------------------------
\* The columns, the cursor and the history have their types.
TypeOK ==
  /\ name \in [Facilities -> Names] /\ distance \in [Facilities -> Distances]
  /\ facilityType \in [Facilities -> Types]
  /\ isActive \in [Facilities -> BOOLEAN] /\ typeIsActive \in [Types -> BOOLEAN]
  /\ walk \in Queries \union {Nothing} /\ nextCursor \in Cursor \union {Nothing}
  /\ nextCursor # Nothing => nextCursor.query = walk /\ ~finished
  /\ finished \in BOOLEAN /\ times \in [Facilities -> Nat]
  /\ moved \subseteq Facilities /\ hidden \subseteq Facilities /\ writes \in Nat

\* However rows change between two pages and whatever sizes the pages have, a walk
\* shows a facility twice only if its own place in the order changed meanwhile:
\* the cursor is the last row's key, so what others do does not shift the pages.
NoRepeat == \A f \in Facilities : times[f] > 1 => f \in moved

\* A walk that ran to a page without nextCursor has shown every facility that was
\* listed and kept its place throughout: no row is lost at a page's end, among rows
\* of one name or one distance, or to a cursor of other filters.
NothingSkipped ==
  finished => \A f \in Facilities : times[f] = 0 => f \in moved \union hidden

\* What a walk has shown and nothing has taken off the list since can be opened: the
\* list and the detail request hide the same facilities.
ListedIsFound ==
  \A f \in Facilities : times[f] > 0 /\ f \notin hidden => GetFacility(f)
=============================================================================
