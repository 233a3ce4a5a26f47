------------------------ MODULE FacilityListingProofs ------------------------
(***************************************************************************)
(* A walk shows every facility that stays listed and in its place, once,   *)
(* and nothing that cannot be opened: for any facilities, filters, page    *)
(* sizes and writes between the pages.                                     *)
(*                                                                         *)
(* First the SELECT: what the rows ordered, limited and cut to a page are. *)
(* Then the walk: what a cursor says of the rows before and after it.      *)
(***************************************************************************)
EXTENDS FacilityListing, FiniteSetTheorems, TLAPS

\* The columns that the order is made of.
ColumnsOK == name \in [Facilities -> Names] /\ distance \in [Facilities -> Distances]

\* While a walk is under way, a facility that was never off the list matches its query.
ListedMatches ==
  walk # Nothing => \A f \in Facilities : f \notin hidden => Matches(walk, f)

\* The cursor separates: of the facilities that kept their place, what is not after it has
\* been shown, and what has been shown is not after it.
CursorSeparates ==
  nextCursor # Nothing =>
    \A f \in Facilities : f \notin moved =>
      /\ times[f] > 0 => ~Precedes(nextCursor.key, RowKey(walk, f))
      /\ times[f] = 0 /\ f \notin hidden => Precedes(nextCursor.key, RowKey(walk, f))

\* A walk that is not given up has a query.
FinishedWalk == finished => walk # Nothing

ListingInv ==
  /\ TypeOK /\ ListedMatches /\ CursorSeparates /\ FinishedWalk
  /\ NoRepeat /\ NothingSkipped /\ ListedIsFound

-----------------------------------------------------------------------------
(***************************************************************************)
(* The order of the rows, and LIMIT.                                       *)
(***************************************************************************)
\* A row's key is two numbers, whatever it is ordered by.
LEMMA KeyTypes ==
  ASSUME ColumnsOK, NEW q, NEW f \in Facilities
  PROVE  RowKey(q, f) \in Key /\ RowKey(q, f).id = f
BY ListingAssumption DEF ColumnsOK, RowKey, Key

\* Precedes is a strict total order of the keys.
LEMMA PrecedesIsOrder ==
  ASSUME NEW a \in Key, NEW b \in Key, NEW c \in Key
  PROVE  /\ ~Precedes(a, a)
         /\ Precedes(a, b) /\ Precedes(b, c) => Precedes(a, c)
         /\ Precedes(a, b) => ~Precedes(b, a)
         /\ a # b => Precedes(a, b) \/ Precedes(b, a)
<1>1. /\ a.value \in Nat /\ b.value \in Nat /\ c.value \in Nat
      /\ a.id \in Nat /\ b.id \in Nat /\ c.id \in Nat
  BY ListingAssumption DEF Key
<1>2. a.value = b.value /\ a.id = b.id => a = b
  BY DEF Key
<1>3. QED
  BY <1>1, <1>2 DEF Precedes

\* Hence InOrder is a total order of the rows: the id breaks every tie.
LEMMA InOrderIsOrder ==
  ASSUME ColumnsOK, NEW q,
         NEW f \in Facilities, NEW g \in Facilities, NEW h \in Facilities
  PROVE  /\ InOrder(q, f, f)
         /\ InOrder(q, f, g) \/ InOrder(q, g, f)
         /\ InOrder(q, f, g) /\ InOrder(q, g, f) => f = g
         /\ InOrder(q, f, g) /\ InOrder(q, g, h) => InOrder(q, f, h)
<1> DEFINE a == RowKey(q, f)  b == RowKey(q, g)  c == RowKey(q, h)
<1>1. /\ a \in Key /\ b \in Key /\ c \in Key
      /\ f # g => a # b
  BY KeyTypes
<1> HIDE DEF a, b, c
<1>2. /\ Precedes(a, b) /\ Precedes(b, c) => Precedes(a, c)
      /\ Precedes(a, b) => ~Precedes(b, a)
      /\ a # b => Precedes(a, b) \/ Precedes(b, a)
  BY <1>1, PrecedesIsOrder
<1>3. QED
  BY <1>1, <1>2 DEF InOrder, a, b, c

\* The rows up to and including one, and from it on.
UpTo(q, rows, f) == {g \in rows : InOrder(q, g, f)}
From(q, rows, f) == {g \in rows : InOrder(q, f, g)}

\* Any rows have a first one, and a last one.
LEMMA FirstAndLastRow ==
  ASSUME ColumnsOK, NEW q, NEW rows \in SUBSET Facilities, rows # {}
  PROVE  /\ \E f \in rows : \A g \in rows : InOrder(q, f, g)
         /\ \E f \in rows : \A g \in rows : InOrder(q, g, f)
<1> DEFINE Less == StrictSubsetOrdering(rows)
           Heads == {UpTo(q, rows, f) : f \in rows}
           Tails == {From(q, rows, f) : f \in rows}
<1>1. IsWellFoundedOn(Less, SUBSET rows)
  <2>1. IsFiniteSet(rows)
    BY FS_Subset, ListingAssumption
  <2>2. QED
    BY <2>1, FS_FiniteSubsetsOfFinite, FS_StrictSubsetOrderingWellFounded
<1>2. \E f \in rows : \A g \in rows : InOrder(q, f, g)
  <2>1. Heads # {} /\ Heads \subseteq SUBSET rows
    BY DEF UpTo
  <2>2. PICK head \in Heads : \A other \in Heads : <<other, head>> \notin Less
    BY <1>1, <2>1, WFMin, Zenon
  <2>3. PICK f \in rows : head = UpTo(q, rows, f)
    OBVIOUS
  <2>4. ASSUME NEW g \in rows, ~InOrder(q, f, g)
        PROVE  FALSE
    <3>1. InOrder(q, g, f)
      BY <2>4, InOrderIsOrder
    <3>2. UpTo(q, rows, g) \subseteq UpTo(q, rows, f)
      BY <3>1, InOrderIsOrder DEF UpTo
    <3>3. f \in UpTo(q, rows, f) /\ f \notin UpTo(q, rows, g)
      BY <2>4, InOrderIsOrder DEF UpTo
    <3>4. <<UpTo(q, rows, g), head>> \in Less
      BY <2>3, <3>2, <3>3 DEF StrictSubsetOrdering, UpTo
    <3>5. QED
      BY <2>2, <3>4
  <2>5. QED
    BY <2>4
<1>3. \E f \in rows : \A g \in rows : InOrder(q, g, f)
  <2>1. Tails # {} /\ Tails \subseteq SUBSET rows
    BY DEF From
  <2>2. PICK tail \in Tails : \A other \in Tails : <<other, tail>> \notin Less
    BY <1>1, <2>1, WFMin, Zenon
  <2>3. PICK f \in rows : tail = From(q, rows, f)
    OBVIOUS
  <2>4. ASSUME NEW g \in rows, ~InOrder(q, g, f)
        PROVE  FALSE
    <3>1. InOrder(q, f, g)
      BY <2>4, InOrderIsOrder
    <3>2. From(q, rows, g) \subseteq From(q, rows, f)
      BY <3>1, InOrderIsOrder DEF From
    <3>3. f \in From(q, rows, f) /\ f \notin From(q, rows, g)
      BY <2>4, InOrderIsOrder DEF From
    <3>4. <<From(q, rows, g), tail>> \in Less
      BY <2>3, <3>2, <3>3 DEF StrictSubsetOrdering, From
    <3>5. QED
      BY <2>2, <3>4
  <2>5. QED
    BY <2>4
<1>4. QED
  BY <1>2, <1>3

\* LIMIT keeps a beginning of the rows.
LEMMA FirstIsBeginning ==
  ASSUME ColumnsOK, NEW q, NEW rows \in SUBSET Facilities, NEW n \in Nat,
         NEW f \in First(q, rows, n), NEW g \in rows, InOrder(q, g, f)
  PROVE  g \in First(q, rows, n)
<1>1. f \in rows /\ f \in Facilities /\ g \in Facilities
  BY DEF First
<1>2. UpTo(q, rows, g) \subseteq UpTo(q, rows, f)
  BY <1>1, InOrderIsOrder DEF UpTo
<1>3. IsFiniteSet(rows)
  BY FS_Subset, ListingAssumption
<1>4. IsFiniteSet(UpTo(q, rows, f))
  BY <1>3, FS_Subset DEF UpTo
<1>5. Cardinality(UpTo(q, rows, g)) <= Cardinality(UpTo(q, rows, f))
  BY <1>2, <1>4, FS_Subset
<1>6. /\ Cardinality(UpTo(q, rows, g)) \in Nat
      /\ Cardinality(UpTo(q, rows, f)) \in Nat
  BY <1>2, <1>4, FS_Subset, FS_CardinalityType
<1>7. Cardinality(UpTo(q, rows, f)) <= n
  BY DEF First, UpTo
<1>8. Cardinality(UpTo(q, rows, g)) <= n
  BY <1>5, <1>6, <1>7
<1>9. QED
  BY <1>8 DEF First, UpTo

\* It keeps n rows at most.
LEMMA FirstFits ==
  ASSUME ColumnsOK, NEW q, NEW rows \in SUBSET Facilities, NEW n \in Nat
  PROVE  /\ First(q, rows, n) \subseteq rows
         /\ IsFiniteSet(First(q, rows, n))
         /\ Cardinality(First(q, rows, n)) \in 0..n
<1> DEFINE kept == First(q, rows, n)
<1>1. kept \subseteq rows /\ kept \in SUBSET Facilities
  BY DEF First
<1>2. IsFiniteSet(rows) /\ IsFiniteSet(kept)
  BY <1>1, FS_Subset, ListingAssumption
<1>3. Cardinality(kept) \in Nat
  BY <1>2, FS_CardinalityType
<1>4. CASE kept = {}
  BY <1>1, <1>2, <1>4, FS_EmptySet
<1>5. CASE kept # {}
  <2>1. PICK f \in kept : \A g \in kept : InOrder(q, g, f)
    BY <1>1, <1>5, FirstAndLastRow
  <2>2. kept \subseteq UpTo(q, rows, f) /\ UpTo(q, rows, f) \in SUBSET rows
    BY <1>1, <2>1 DEF UpTo
  <2>3. IsFiniteSet(UpTo(q, rows, f))
    BY <1>2, <2>2, FS_Subset
  <2>4. Cardinality(kept) <= Cardinality(UpTo(q, rows, f)) /\ Cardinality(UpTo(q, rows, f)) \in Nat
    BY <2>2, <2>3, FS_Subset, FS_CardinalityType
  <2>5. Cardinality(UpTo(q, rows, f)) <= n
    BY DEF First, UpTo
  <2>6. QED
    BY <1>1, <1>2, <1>3, <2>4, <2>5
<1>6. QED
  BY <1>4, <1>5

\* It keeps all of n rows or fewer.
LEMMA FirstOfFewIsAll ==
  ASSUME NEW q, NEW rows \in SUBSET Facilities, NEW n \in Nat, Cardinality(rows) <= n
  PROVE  First(q, rows, n) = rows
<1>1. IsFiniteSet(rows)
  BY FS_Subset, ListingAssumption
<1>2. ASSUME NEW f \in rows
      PROVE  Cardinality(UpTo(q, rows, f)) <= n
  <2>1. UpTo(q, rows, f) \in SUBSET rows
    BY DEF UpTo
  <2>2. /\ Cardinality(UpTo(q, rows, f)) <= Cardinality(rows)
        /\ Cardinality(UpTo(q, rows, f)) \in Nat /\ Cardinality(rows) \in Nat
    BY <1>1, <2>1, FS_Subset, FS_CardinalityType
  <2>3. QED
    BY <2>2
<1>3. QED
  BY <1>2 DEF First, UpTo

\* When it leaves a row out it is full: fewer than n rows are all there are.
LEMMA FirstIsFull ==
  ASSUME ColumnsOK, NEW q, NEW rows \in SUBSET Facilities, NEW n \in Nat,
         First(q, rows, n) # rows
  PROVE  Cardinality(First(q, rows, n)) = n
<1> DEFINE kept == First(q, rows, n)
<1>1. kept \subseteq rows /\ IsFiniteSet(kept) /\ Cardinality(kept) \in 0..n
  BY FirstFits
<1>2. rows \ kept # {} /\ rows \ kept \in SUBSET Facilities
  BY <1>1
<1>3. PICK f \in rows \ kept : \A g \in rows \ kept : InOrder(q, f, g)
  BY <1>2, FirstAndLastRow
<1> DEFINE head == UpTo(q, rows, f)
<1>4. head \in SUBSET rows /\ f \in head
  BY <1>3, InOrderIsOrder DEF UpTo
<1>5. IsFiniteSet(head) /\ Cardinality(head) \in Nat
  <2>1. IsFiniteSet(rows)
    BY FS_Subset, ListingAssumption
  <2>2. QED
    BY <1>4, <2>1, FS_Subset, FS_CardinalityType
<1>6. ~(Cardinality(head) <= n)
  BY <1>3 DEF First, UpTo
<1>7. head \ {f} \subseteq kept
  BY <1>3, InOrderIsOrder DEF UpTo
<1>8. /\ IsFiniteSet(head \ {f})
      /\ Cardinality(head \ {f}) = Cardinality(head) - 1
  BY <1>4, <1>5, FS_RemoveElement
<1>9. Cardinality(head \ {f}) <= Cardinality(kept)
  BY <1>1, <1>7, FS_Subset
<1>10. QED
  BY <1>1, <1>5, <1>6, <1>8, <1>9

-----------------------------------------------------------------------------
(***************************************************************************)
(* A page.                                                                 *)
(***************************************************************************)
LastOf(q, data) == CHOOSE f \in data : \A g \in data : InOrder(q, g, f)

\* Cutting one row more than the page holds down to the page: there is a next page exactly
\* when rows are left, and they all come after the page's last row.
LEMMA PageOfRows ==
  ASSUME ColumnsOK, NEW q, NEW rows \in SUBSET Facilities, NEW size \in PageSizes,
         NEW fetched, fetched = First(q, rows, size + 1),
         NEW data, data = First(q, fetched, size)
  PROVE  /\ data \subseteq rows
         /\ IsFiniteSet(data) /\ Cardinality(data) \in 0..size
         /\ Cardinality(fetched) > size <=> data # rows
         /\ data # rows =>
              /\ Cardinality(data) = size
              /\ LastOf(q, data) \in data
              /\ \A g \in rows : g \in data <=> InOrder(q, g, LastOf(q, data))
<1>1. size \in Nat /\ size > 0 /\ size + 1 \in Nat
  BY ListingAssumption
<1>2. /\ fetched \subseteq rows /\ fetched \in SUBSET Facilities
      /\ IsFiniteSet(fetched) /\ Cardinality(fetched) \in 0..(size + 1)
  BY <1>1, FirstFits
<1>3. data \subseteq fetched /\ IsFiniteSet(data) /\ Cardinality(data) \in 0..size
  BY <1>1, <1>2, FirstFits
<1>4. CASE Cardinality(fetched) > size
  <2>1. data # fetched
    BY <1>1, <1>2, <1>3, <1>4
  <2>2. Cardinality(data) = size
    BY <1>1, <1>2, <2>1, FirstIsFull
  <2>3. data # {} /\ data \in SUBSET Facilities
    BY <1>1, <1>2, <1>3, <2>2, FS_EmptySet
  <2>4. \E f \in data : \A g \in data : InOrder(q, g, f)
    BY <2>3, FirstAndLastRow
  <2>5. LastOf(q, data) \in data /\ \A g \in data : InOrder(q, g, LastOf(q, data))
    BY <2>4 DEF LastOf
  <2>6. ASSUME NEW g \in rows, InOrder(q, g, LastOf(q, data))
        PROVE  g \in data
    <3>1. g \in fetched
      BY <1>1, <1>3, <2>5, <2>6, FirstIsBeginning
    <3>2. QED
      BY <1>1, <1>2, <2>5, <2>6, <3>1, FirstIsBeginning
  <2>7. QED
    BY <1>2, <1>3, <1>4, <2>1, <2>2, <2>5, <2>6
<1>5. CASE ~(Cardinality(fetched) > size)
  <2>1. fetched = rows
    BY <1>1, <1>2, <1>5, FirstIsFull
  <2>2. Cardinality(fetched) <= size
    BY <1>1, <1>2, <1>5
  <2>3. data = fetched
    BY <1>1, <1>2, <2>2, FirstOfFewIsAll
  <2>4. QED
    BY <1>3, <1>5, <2>1, <2>3
<1>6. QED
  BY <1>4, <1>5

\* What a request answers: the next rows that match, at most as many as the page holds and
\* none left out between them, with a nextCursor exactly when rows are left.
THEOREM PageIsNextRows ==
  ASSUME ColumnsOK, NEW q \in Queries, NEW c \in Cursor \union {Nothing},
         NEW size \in PageSizes
  PROVE  LET fetched == Fetch(q, c, size)
             data == First(q, fetched, size)
         IN  /\ data \subseteq AfterCursor(q, c)
             /\ Cardinality(data) <= size
             /\ \A f \in data, g \in AfterCursor(q, c) : InOrder(q, g, f) => g \in data
             /\ Cardinality(fetched) > size <=> data # AfterCursor(q, c)
<1> DEFINE rows == AfterCursor(q, c)
           fetched == Fetch(q, c, size)
           data == First(q, fetched, size)
<1>1. rows \in SUBSET Facilities
  BY DEF AfterCursor
<1>2. fetched = First(q, rows, size + 1)
  BY DEF Fetch
<1> HIDE DEF rows, fetched, data
<1>3. /\ data \subseteq rows
      /\ IsFiniteSet(data) /\ Cardinality(data) \in 0..size
      /\ Cardinality(fetched) > size <=> data # rows
      /\ data # rows =>
           /\ LastOf(q, data) \in data
           /\ \A g \in rows : g \in data <=> InOrder(q, g, LastOf(q, data))
  BY <1>1, <1>2, PageOfRows DEF data
<1>4. ASSUME NEW f \in data, NEW g \in rows, InOrder(q, g, f)
      PROVE  g \in data
  <2>1. CASE data = rows
    BY <2>1
  <2>2. CASE data # rows
    <3>1. InOrder(q, f, LastOf(q, data)) /\ LastOf(q, data) \in Facilities /\ f \in Facilities
      BY <1>1, <1>3, <2>2
    <3>2. InOrder(q, g, LastOf(q, data))
      BY <1>1, <1>4, <3>1, InOrderIsOrder
    <3>3. QED
      BY <1>3, <2>2, <3>2
  <2>3. QED
    BY <2>1, <2>2
<1>5. Cardinality(data) <= size
  BY <1>3, ListingAssumption
<1>6. QED
  BY <1>3, <1>4, <1>5 DEF rows, fetched, data

\* What the page leaves behind: it shows some of the rows; and either they were all and the
\* walk is finished, or its cursor has the page on one side and the rest on the other.
LEMMA ShownPage ==
  ASSUME ColumnsOK, NEW q \in Queries, NEW rows \in SUBSET Facilities, NEW size \in PageSizes,
         Show(q, First(q, rows, size + 1), size)
  PROVE  \E data \in SUBSET rows :
           /\ times' = [f \in Facilities |->
                 (IF nextCursor = Nothing THEN 0 ELSE times[f]) + IF f \in data THEN 1 ELSE 0]
           /\ \/ finished' = TRUE /\ nextCursor' = Nothing /\ data = rows
              \/ /\ finished' = FALSE
                 /\ nextCursor' \in Cursor /\ nextCursor'.query = q
                 /\ \E last \in data : nextCursor'.key = RowKey(q, last)
                 /\ \A g \in rows : g \in data <=> ~Precedes(nextCursor'.key, RowKey(q, g))
<1> DEFINE fetched == First(q, rows, size + 1)
           data == First(q, fetched, size)
           last == LastOf(q, data)
<1>1. /\ data \subseteq rows
      /\ Cardinality(fetched) > size <=> data # rows
      /\ data # rows =>
           last \in data /\ \A g \in rows : g \in data <=> InOrder(q, g, last)
  BY PageOfRows
<1>2. /\ nextCursor' = IF Cardinality(fetched) > size
                         THEN [query |-> q, key |-> RowKey(q, last)] ELSE Nothing
      /\ finished' = ~(Cardinality(fetched) > size)
      /\ times' = [f \in Facilities |->
            (IF nextCursor = Nothing THEN 0 ELSE times[f]) + IF f \in data THEN 1 ELSE 0]
  BY DEF Show, LastOf
<1> HIDE DEF fetched, data, last
<1>3. CASE data = rows
  <2>1. finished' = TRUE /\ nextCursor' = Nothing
    BY <1>1, <1>2, <1>3, Zenon
  <2>2. QED
    BY <1>1, <1>2, <1>3, <2>1
<1>4. CASE data # rows
  <2>1. finished' = FALSE /\ nextCursor' = [query |-> q, key |-> RowKey(q, last)]
    BY <1>1, <1>2, <1>4
  <2>2. last \in Facilities /\ RowKey(q, last) \in Key
    BY <1>1, <1>4, KeyTypes
  <2>3. nextCursor' \in Cursor /\ nextCursor'.query = q /\ nextCursor'.key = RowKey(q, last)
    BY <2>1, <2>2 DEF Cursor
  <2>4. ASSUME NEW g \in rows
        PROVE  g \in data <=> ~Precedes(RowKey(q, last), RowKey(q, g))
    <3>1. g \in data <=> InOrder(q, g, last)
      BY <1>1, <1>4
    <3>2. /\ RowKey(q, g) \in Key /\ RowKey(q, g).id = g /\ RowKey(q, last).id = last
      BY <2>2, KeyTypes
    <3>3. /\ Precedes(RowKey(q, g), RowKey(q, last)) => ~Precedes(RowKey(q, last), RowKey(q, g))
          /\ ~Precedes(RowKey(q, last), RowKey(q, last))
          /\ g # last => \/ Precedes(RowKey(q, g), RowKey(q, last))
                         \/ Precedes(RowKey(q, last), RowKey(q, g))
      BY <2>2, <3>2, PrecedesIsOrder
    <3>4. QED
      BY <3>1, <3>3 DEF InOrder
  <2>5. \E f \in data : nextCursor'.key = RowKey(q, f)
    BY <1>1, <1>4, <2>3
  <2>6. QED
    BY <1>1, <1>2, <2>1, <2>3, <2>4, <2>5
<1>5. QED
  BY <1>3, <1>4

-----------------------------------------------------------------------------
(***************************************************************************)
(* The walk.                                                               *)
(***************************************************************************)
\* Nobody has asked for a page.
LEMMA ListingInitInv == Init => ListingInv
<1> SUFFICES ASSUME Init PROVE ListingInv
  OBVIOUS
<1>1. TypeOK
  BY DEF Init, TypeOK
<1>2. ListedMatches /\ CursorSeparates /\ FinishedWalk
  BY DEF Init, ListedMatches, CursorSeparates, FinishedWalk
<1>3. \A f \in Facilities : times[f] = 0
  BY DEF Init
<1>4. NoRepeat /\ NothingSkipped /\ ListedIsFound
  BY <1>3 DEF Init, NoRepeat, NothingSkipped, ListedIsFound
<1>5. QED
  BY <1>1, <1>2, <1>4 DEF ListingInv

\* What reads the table alone is the same as long as no row changes.
LEMMA TableKept ==
  ASSUME UNCHANGED table
  PROVE  \A q, f :
           (Matches(q, f)' <=> Matches(q, f)) /\ RowKey(q, f)' = RowKey(q, f)
           /\ (GetFacility(f)' <=> GetFacility(f))
BY DEF table, Matches, Visible, RowKey, GetFacility

\* What matches a query can be opened.
LEMMA MatchIsFound ==
  ASSUME NEW q, NEW f, Matches(q, f)
  PROVE  GetFacility(f)
BY DEF Matches, Visible, GetFacility

\* The first page: everything that matches is a row, and the history begins anew.
LEMMA FirstPageKeeps ==
  ASSUME ListingInv, NEW q \in Queries, NEW size \in PageSizes, FirstPage(q, size)
  PROVE  ListingInv'
<1> DEFINE rows == AfterCursor(q, Nothing)
<1>1. TypeOK /\ ColumnsOK /\ rows \in SUBSET Facilities /\ q # Nothing
  BY ListingAssumption DEF ListingInv, TypeOK, ColumnsOK, AfterCursor
<1>2. \A f \in Facilities : f \in rows <=> Matches(q, f)
  BY DEF AfterCursor
<1>3. /\ nextCursor = Nothing /\ walk' = q /\ moved' = {} /\ writes' = 0
      /\ hidden' = {f \in Facilities : ~Matches(q, f)}
      /\ UNCHANGED table
      /\ Show(q, First(q, rows, size + 1), size)
  BY DEF FirstPage, Fetch
<1> HIDE DEF rows
<1>4. PICK data \in SUBSET rows :
        /\ times' = [f \in Facilities |->
              (IF nextCursor = Nothing THEN 0 ELSE times[f]) + IF f \in data THEN 1 ELSE 0]
        /\ \/ finished' = TRUE /\ nextCursor' = Nothing /\ data = rows
           \/ /\ finished' = FALSE
              /\ nextCursor' \in Cursor /\ nextCursor'.query = q
              /\ \E last \in data : nextCursor'.key = RowKey(q, last)
              /\ \A g \in rows : g \in data <=> ~Precedes(nextCursor'.key, RowKey(q, g))
  BY <1>1, <1>3, ShownPage
<1>5. \A f \in Facilities : times'[f] = IF f \in data THEN 1 ELSE 0
  BY <1>3, <1>4
<1>6. \A f \in Facilities :
        /\ f \notin hidden' <=> f \in rows
        /\ f \in rows <=> Matches(q, f)'
        /\ RowKey(q, f)' = RowKey(q, f)
  BY <1>2, <1>3, TableKept
<1>7. TypeOK'
  <2>1. /\ times' \in [Facilities -> Nat]
        /\ moved' \subseteq Facilities /\ hidden' \subseteq Facilities /\ writes' \in Nat
    BY <1>3, <1>4
  <2>2. /\ walk' \in Queries \union {Nothing} /\ nextCursor' \in Cursor \union {Nothing}
        /\ finished' \in BOOLEAN
        /\ nextCursor' # Nothing => nextCursor'.query = walk' /\ ~finished'
    BY <1>3, <1>4
  <2>3. QED
    BY <1>1, <1>3, <2>1, <2>2 DEF TypeOK, table
<1>8. ListedMatches' /\ FinishedWalk'
  BY <1>1, <1>3, <1>6 DEF ListedMatches, FinishedWalk
<1>9. CursorSeparates'
  <2>1. ASSUME nextCursor' # Nothing, NEW f \in Facilities
        PROVE  /\ times'[f] > 0 => ~Precedes(nextCursor'.key, RowKey(q, f))
               /\ times'[f] = 0 /\ f \in rows => Precedes(nextCursor'.key, RowKey(q, f))
    BY <1>4, <1>5, <2>1
  <2>2. QED
    BY <1>3, <1>6, <2>1 DEF CursorSeparates
<1>10. NoRepeat'
  BY <1>5 DEF NoRepeat
<1>11. NothingSkipped'
  BY <1>4, <1>5, <1>6 DEF NothingSkipped
<1>12. ListedIsFound'
  BY <1>5, <1>6, MatchIsFound, <1>2, <1>3, TableKept DEF ListedIsFound
<1>13. QED
  BY <1>7, <1>8, <1>9, <1>10, <1>11, <1>12 DEF ListingInv

\* A next page: its rows are what the cursor's page left, so of the facilities that kept
\* their place none is among them twice and none is missing.
LEMMA NextPageKeeps ==
  ASSUME ListingInv, NEW q \in Queries, NEW size \in PageSizes, NextPage(q, size)
  PROVE  ListingInv'
<1> DEFINE rows == AfterCursor(q, nextCursor)
<1>1. TypeOK /\ ColumnsOK /\ rows \in SUBSET Facilities /\ q # Nothing
  BY ListingAssumption DEF ListingInv, TypeOK, ColumnsOK, AfterCursor
<1>2. /\ nextCursor # Nothing /\ walk = q
      /\ UNCHANGED <<table, walk, moved, hidden, writes>>
      /\ Show(q, First(q, rows, size + 1), size)
  BY <1>1 DEF NextPage, Fetch, Accepts, TypeOK
<1>3. \A f \in Facilities :
        f \in rows <=> Matches(q, f) /\ Precedes(nextCursor.key, RowKey(q, f))
  BY <1>2 DEF AfterCursor
<1> HIDE DEF rows
<1>4. PICK data \in SUBSET rows :
        /\ times' = [f \in Facilities |->
              (IF nextCursor = Nothing THEN 0 ELSE times[f]) + IF f \in data THEN 1 ELSE 0]
        /\ \/ finished' = TRUE /\ nextCursor' = Nothing /\ data = rows
           \/ /\ finished' = FALSE
              /\ nextCursor' \in Cursor /\ nextCursor'.query = q
              /\ \E last \in data : nextCursor'.key = RowKey(q, last)
              /\ \A g \in rows : g \in data <=> ~Precedes(nextCursor'.key, RowKey(q, g))
  BY <1>1, <1>2, ShownPage
<1>5. \A f \in Facilities :
        times[f] \in Nat /\ times'[f] = times[f] + IF f \in data THEN 1 ELSE 0
  BY <1>1, <1>2, <1>4 DEF TypeOK
<1>6. \A f \in Facilities :
        /\ Matches(q, f)' <=> Matches(q, f)
        /\ RowKey(q, f)' = RowKey(q, f)
        /\ GetFacility(f)' <=> GetFacility(f)
  BY <1>2, TableKept
<1>7. \A f \in Facilities : f \notin hidden => Matches(q, f)
  BY <1>1, <1>2 DEF ListingInv, ListedMatches
<1>8. \A f \in Facilities : f \notin moved =>
        /\ times[f] > 0 => f \notin rows
        /\ times[f] = 0 /\ f \notin hidden => f \in rows
        /\ times[f] <= 1
  <2>1. \A f \in Facilities : f \notin moved =>
          /\ times[f] > 0 => ~Precedes(nextCursor.key, RowKey(q, f))
          /\ times[f] = 0 /\ f \notin hidden => Precedes(nextCursor.key, RowKey(q, f))
    BY <1>2 DEF ListingInv, CursorSeparates
  <2>2. \A f \in Facilities : f \notin moved => times[f] <= 1
    BY <1>5 DEF ListingInv, NoRepeat
  <2>3. QED
    BY <1>3, <1>7, <2>1, <2>2
<1>9. TypeOK'
  <2>1. times' \in [Facilities -> Nat]
    BY <1>1, <1>4 DEF TypeOK
  <2>2. /\ walk' \in Queries \union {Nothing} /\ nextCursor' \in Cursor \union {Nothing}
        /\ finished' \in BOOLEAN
        /\ nextCursor' # Nothing => nextCursor'.query = walk' /\ ~finished'
    BY <1>2, <1>4
  <2>3. QED
    BY <1>1, <1>2, <2>1, <2>2 DEF TypeOK, table
<1>10. ListedMatches' /\ FinishedWalk'
  BY <1>1, <1>2, <1>6, <1>7 DEF ListedMatches, FinishedWalk
<1>11. NoRepeat'
  <2>1. ASSUME NEW f \in Facilities, f \notin moved
        PROVE  ~(times'[f] > 1)
    BY <1>5, <1>8, <2>1
  <2>2. QED
    BY <1>2, <2>1 DEF NoRepeat
<1>12. CursorSeparates'
  <2>1. ASSUME nextCursor' # Nothing, NEW f \in Facilities, f \notin moved
        PROVE  /\ times'[f] > 0 => ~Precedes(nextCursor'.key, RowKey(q, f))
               /\ times'[f] = 0 /\ f \notin hidden => Precedes(nextCursor'.key, RowKey(q, f))
    <3>1. PICK last \in data : nextCursor'.key = RowKey(q, last)
      BY <1>4, <2>1
    <3>2. /\ nextCursor.key \in Key /\ nextCursor'.key \in Key /\ RowKey(q, f) \in Key
          /\ Precedes(nextCursor.key, nextCursor'.key)
      BY <1>1, <1>2, <1>3, <3>1, KeyTypes DEF TypeOK, Cursor
    <3>3. \A g \in rows : g \in data <=> ~Precedes(nextCursor'.key, RowKey(q, g))
      BY <1>4, <2>1
    <3>4. times[f] > 0 => ~Precedes(nextCursor'.key, RowKey(q, f))
      <4>1. times[f] > 0 => ~Precedes(nextCursor.key, RowKey(q, f))
        BY <1>2, <2>1 DEF ListingInv, CursorSeparates
      <4>2. QED
        BY <3>2, <4>1, PrecedesIsOrder
    <3>5. f \in data => ~Precedes(nextCursor'.key, RowKey(q, f))
      BY <3>3
    <3>6. times'[f] > 0 => times[f] > 0 \/ f \in data
      BY <1>5
    <3>7. times'[f] = 0 => times[f] = 0 /\ f \notin data
      BY <1>5
    <3>8. times'[f] = 0 /\ f \notin hidden => Precedes(nextCursor'.key, RowKey(q, f))
      BY <1>8, <2>1, <3>3, <3>7
    <3>9. QED
      BY <3>4, <3>5, <3>6, <3>8
  <2>2. QED
    BY <1>2, <1>6, <2>1 DEF CursorSeparates
<1>13. NothingSkipped'
  <2>1. ASSUME finished', NEW f \in Facilities, times'[f] = 0, f \notin moved, f \notin hidden
        PROVE  FALSE
    BY <1>4, <1>5, <1>8, <2>1
  <2>2. QED
    BY <1>2, <2>1 DEF NothingSkipped
<1>14. ListedIsFound'
  BY <1>2, <1>6, <1>7, MatchIsFound DEF ListedIsFound
<1>15. QED
  BY <1>9, <1>10, <1>11, <1>12, <1>13, <1>14 DEF ListingInv

\* A walk that is given up leaves what it has shown, and no row changes until the next.
LEMMA AbandonKeeps ==
  ASSUME ListingInv, Abandon
  PROVE  ListingInv'
<1>1. /\ walk' = Nothing /\ nextCursor' = Nothing /\ finished' = FALSE
      /\ UNCHANGED <<table, times, moved, hidden, writes>>
  BY DEF Abandon
<1>2. TypeOK'
  BY <1>1 DEF ListingInv, TypeOK, table
<1>3. ListedMatches' /\ CursorSeparates' /\ FinishedWalk' /\ NothingSkipped'
  BY <1>1 DEF ListedMatches, CursorSeparates, FinishedWalk, NothingSkipped
<1>4. NoRepeat'
  BY <1>1 DEF ListingInv, NoRepeat
<1>5. ListedIsFound'
  BY <1>1, TableKept DEF ListingInv, ListedIsFound
<1>6. QED
  BY <1>2, <1>3, <1>4, <1>5 DEF ListingInv

\* A write to the table between two pages: whatever it does to a row that the walk is about,
\* the history says so.
LEMMA WriteKeeps ==
  ASSUME ListingInv, Write,
         name' \in [Facilities -> Names], distance' \in [Facilities -> Distances],
         facilityType' \in [Facilities -> Types],
         isActive' \in [Facilities -> BOOLEAN], typeIsActive' \in [Types -> BOOLEAN]
  PROVE  ListingInv'
<1>1. /\ walk # Nothing /\ writes' = writes + 1 /\ UNCHANGED client
      /\ moved' = moved \union {f \in Facilities : RowKey(walk, f)' # RowKey(walk, f)}
      /\ hidden' = hidden \union {f \in Facilities : ~Matches(walk, f)'}
  BY DEF Write
<1>2. /\ walk' = walk /\ nextCursor' = nextCursor /\ finished' = finished /\ times' = times
  BY <1>1 DEF client
<1>3. \A f \in Facilities :
        /\ f \notin moved' => f \notin moved /\ RowKey(walk, f)' = RowKey(walk, f)
        /\ f \notin hidden' => f \notin hidden /\ Matches(walk, f)'
  BY <1>1
<1>4. TypeOK'
  BY <1>1, <1>2 DEF ListingInv, TypeOK
<1>5. ListedMatches' /\ FinishedWalk'
  BY <1>1, <1>2, <1>3 DEF ListedMatches, FinishedWalk
<1>6. CursorSeparates'
  BY <1>2, <1>3 DEF ListingInv, CursorSeparates
<1>7. NoRepeat' /\ NothingSkipped'
  BY <1>2, <1>3 DEF ListingInv, NoRepeat, NothingSkipped
<1>8. ListedIsFound'
  <2>1. ASSUME NEW f \in Facilities, f \notin hidden'
        PROVE  GetFacility(f)'
    BY <1>3, <2>1 DEF Matches, Visible, GetFacility
  <2>2. QED
    BY <2>1 DEF ListedIsFound
<1>9. QED
  BY <1>4, <1>5, <1>6, <1>7, <1>8 DEF ListingInv

\* Every step keeps the invariant.
LEMMA ListingNextInv == ListingInv /\ [Next]_vars => ListingInv'
<1> SUFFICES ASSUME ListingInv, [Next]_vars PROVE ListingInv'
  OBVIOUS
<1> USE DEF ListingInv, TypeOK
<1>1. ASSUME NEW q \in Queries, NEW size \in PageSizes, FirstPage(q, size)
      PROVE  ListingInv'
  BY <1>1, FirstPageKeeps
<1>2. ASSUME NEW q \in Queries, NEW size \in PageSizes, NextPage(q, size)
      PROVE  ListingInv'
  BY <1>2, NextPageKeeps
<1>3. CASE Abandon
  BY <1>3, AbandonKeeps
<1>4. ASSUME NEW f \in Facilities, NEW n \in Names, Rename(f, n)
      PROVE  ListingInv'
  BY <1>4, WriteKeeps DEF Rename
<1>5. ASSUME NEW f \in Facilities, NEW d \in Distances, Relocate(f, d)
      PROVE  ListingInv'
  BY <1>5, WriteKeeps DEF Relocate
<1>6. ASSUME NEW f \in Facilities, NEW t \in Types, Retype(f, t)
      PROVE  ListingInv'
  BY <1>6, WriteKeeps DEF Retype
<1>7. ASSUME NEW f \in Facilities, NEW active \in BOOLEAN, SetActive(f, active)
      PROVE  ListingInv'
  BY <1>7, WriteKeeps DEF SetActive
<1>8. ASSUME NEW t \in Types, NEW active \in BOOLEAN, SetTypeActive(t, active)
      PROVE  ListingInv'
  BY <1>8, WriteKeeps DEF SetTypeActive
<1>9. CASE UNCHANGED vars
  <2>1. UNCHANGED table /\ UNCHANGED client /\ UNCHANGED <<moved, hidden, writes>>
    BY <1>9 DEF vars
  <2>2. TypeOK'
    BY <2>1 DEF table, client
  <2>3. QED
    BY <2>1, <2>2, TableKept
    DEF client, ListedMatches, CursorSeparates, FinishedWalk, NoRepeat, NothingSkipped, ListedIsFound
<1>10. QED
  BY <1>1, <1>2, <1>3, <1>4, <1>5, <1>6, <1>7, <1>8, <1>9 DEF Next

\* The invariant holds throughout, for any facilities, filters, page sizes and writes.
THEOREM ListingInvariance == Spec => []ListingInv
BY ListingInitInv, ListingNextInv, PTL DEF Spec

\* The columns, the cursor and the history keep their types; a cursor is of the walk's query.
THEOREM TypeCorrect == Spec => []TypeOK
<1>1. ListingInv => TypeOK
  BY DEF ListingInv
<1>2. QED
  BY <1>1, ListingInvariance, PTL

\* A walk shows a facility twice only if its own place in the order changed meanwhile.
THEOREM NoRepeatHolds == Spec => []NoRepeat
<1>1. ListingInv => NoRepeat
  BY DEF ListingInv
<1>2. QED
  BY <1>1, ListingInvariance, PTL

\* A finished walk has shown every facility that stayed listed and in its place.
THEOREM NothingSkippedHolds == Spec => []NothingSkipped
<1>1. ListingInv => NothingSkipped
  BY DEF ListingInv
<1>2. QED
  BY <1>1, ListingInvariance, PTL

\* What a walk has shown and nothing has taken off the list since can be opened.
THEOREM ListedIsFoundHolds == Spec => []ListedIsFound
<1>1. ListingInv => ListedIsFound
  BY DEF ListingInv
<1>2. QED
  BY <1>1, ListingInvariance, PTL

\* Whatever is written between two pages and whatever sizes they have, each page's cursor
\* lies after the one before.
CursorAdvances ==
  nextCursor # Nothing /\ nextCursor' # Nothing /\ nextCursor' # nextCursor =>
    Precedes(nextCursor.key, nextCursor'.key)

\* Only the next page of the walk gives another cursor, that of a row after the last.
LEMMA CursorStep == ListingInv /\ [Next]_vars => CursorAdvances
<1> SUFFICES ASSUME ListingInv, [Next]_vars,
                    nextCursor # Nothing, nextCursor' # Nothing, nextCursor' # nextCursor
             PROVE  Precedes(nextCursor.key, nextCursor'.key)
  BY DEF CursorAdvances
<1>1. PICK q \in Queries, size \in PageSizes : NextPage(q, size)
  <2>1. ~Abandon /\ ~Write /\ ~UNCHANGED vars
    BY DEF Abandon, Write, client, vars
  <2>2. \A q \in Queries, size \in PageSizes : ~FirstPage(q, size)
    BY DEF FirstPage
  <2>3. QED
    BY <2>1, <2>2 DEF Next, Rename, Relocate, Retype, SetActive, SetTypeActive
<1> DEFINE rows == AfterCursor(q, nextCursor)
<1>2. ColumnsOK /\ rows \in SUBSET Facilities
  BY DEF ListingInv, TypeOK, ColumnsOK, AfterCursor
<1>3. Show(q, First(q, rows, size + 1), size)
  BY <1>1 DEF NextPage, Fetch
<1>4. \A f \in rows : Precedes(nextCursor.key, RowKey(q, f))
  BY DEF AfterCursor
<1> HIDE DEF rows
<1>5. \E last \in rows : nextCursor'.key = RowKey(q, last)
  <2>1. \E data \in SUBSET rows :
          nextCursor' = Nothing \/ \E last \in data : nextCursor'.key = RowKey(q, last)
    BY <1>2, <1>3, ShownPage
  <2>2. QED
    BY <2>1
<1>6. QED
  BY <1>4, <1>5

\* A walk never goes back.
THEOREM CursorAdvancesAlways == Spec => [][CursorAdvances]_vars
BY CursorStep, ListingInvariance, PTL DEF Spec

=============================================================================
