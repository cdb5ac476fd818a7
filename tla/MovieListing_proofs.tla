------------------------ MODULE MovieListing_proofs -------------------------
(***************************************************************************)
(* Proofs about paging, for any list, page size, order and writes.  The    *)
(* three layers: ORDER BY is a strict total order of keys; a page is the   *)
(* front of what lies beyond the cursor, and its last row the next cursor; *)
(* and so the client has passed exactly what it was given (PassedOnce).    *)
(***************************************************************************)
EXTENDS MovieListing, FiniteSetTheorems, WellFoundedInduction, TLAPS

\* Every set of numbers has a least one.
LEMMA LeastNumber ==
  ASSUME NEW T \in SUBSET Nat, T # {}
  PROVE  \E x \in T : \A y \in T : x <= y
<1>1. IsWellFoundedOn(OpToRel(<, Nat), Nat)
  BY NatLessThanWellFounded
<1> DEFINE R == {ss \in Nat \X Nat : ss[1] < ss[2]}
<1>2. OpToRel(<, Nat) = R
  BY DEF OpToRel
<1>3. IsWellFoundedOn(R, Nat)
  BY <1>1, <1>2
<1>4. \A x, y \in Nat : y < x => <<y, x>> \in R
  OBVIOUS
<1> HIDE DEF R
<1>5. PICK x \in T : \A y \in T : ~ (<<y, x>> \in R)
  BY <1>3, WFMin
<1>6. ASSUME NEW y \in T PROVE x <= y
  <2>1. x \in Nat /\ y \in Nat
    OBVIOUS
  <2>2. ~ (y < x)
    BY <2>1, <1>4, <1>5
  <2> QED
    BY ONLY <2>1, <2>2
<1> QED
  BY <1>6

\* The order of a finite set has a first element.
LEMMA FirstOfFinite ==
  ASSUME NEW H, IsFiniteSet(H), H # {}, NEW R,
         \A x \in H : <<x, x>> \notin R,
         \A x, y, z \in H : <<x, y>> \in R /\ <<y, z>> \in R => <<x, z>> \in R
  PROVE  \E m \in H : \A n \in H : <<n, m>> \notin R
<1> DEFINE Below(m) == {n \in H : <<n, m>> \in R}
           Sizes == {Cardinality(Below(m)) : m \in H}
<1>1. \A m \in H : Below(m) \in SUBSET H /\ IsFiniteSet(Below(m)) /\ Cardinality(Below(m)) \in Nat
  BY FS_Subset, FS_CardinalityType
<1>2. Sizes \in SUBSET Nat /\ Sizes # {}
  <2>1. ASSUME NEW t \in Sizes PROVE t \in Nat
    <3>1. PICK m \in H : t = Cardinality(Below(m))
      BY <2>1
    <3> HIDE DEF Below
    <3> QED
      BY <1>1, <3>1
  <2>2. PICK m \in H : TRUE
    OBVIOUS
  <2>3. Cardinality(Below(m)) \in Sizes
    OBVIOUS
  <2> HIDE DEF Sizes
  <2> QED
    BY <2>1, <2>3
<1>3. PICK s \in Sizes : \A t \in Sizes : s <= t
  BY <1>2, LeastNumber
<1>4. PICK m \in H : s = Cardinality(Below(m))
  BY <1>3
<1>5. ASSUME NEW n \in H, <<n, m>> \in R PROVE FALSE
  <2>1. Below(n) \in SUBSET Below(m) /\ n \in Below(m) /\ n \notin Below(n)
    BY <1>5
  <2>2. /\ Cardinality(Below(n)) <= Cardinality(Below(m))
        /\ Cardinality(Below(n)) = Cardinality(Below(m)) => Below(n) = Below(m)
    <3>1. IsFiniteSet(Below(m))
      BY <1>1
    <3> HIDE DEF Below
    <3> QED
      BY <2>1, <3>1, FS_Subset
  <2>3. Cardinality(Below(n)) \in Nat /\ Cardinality(Below(m)) \in Nat
    BY <1>1
  <2>4. Cardinality(Below(m)) <= Cardinality(Below(n))
    <3>1. Cardinality(Below(n)) \in Sizes
      OBVIOUS
    <3> HIDE DEF Sizes, Below
    <3> QED
      BY <1>3, <1>4, <3>1
  <2> HIDE DEF Below
  <2> QED
    BY <2>1, <2>2, <2>3, <2>4
<1> QED
  BY <1>5

\* The comparison of ORDER BY, for an order that is given.
Before(o, k, l) == \E i \in 1 .. Len(o) : Differ(k, l, i) /\ Lower(k[i], l[i], o[i].dir)
KeysOf(o) == [1 .. Len(o) -> Nat]

\* An order has columns, each with a direction, and id among them.
LEMMA OrderShape ==
  ASSUME NEW o \in Orders
  PROVE  /\ Len(o) \in Nat \ {0}
         /\ \A i \in 1 .. Len(o) : o[i].col \in Columns /\ o[i].dir \in Directions
         /\ \E i \in 1 .. Len(o) : o[i].col = "id"
<1>1. o \in Seq([col : Columns, dir : Directions])
  BY ListingAssumption
<1>2. Len(o) \in Nat /\ \A i \in 1 .. Len(o) : o[i] \in [col : Columns, dir : Directions]
  <2> DEFINE C == [col : Columns, dir : Directions]
  <2>1. o \in Seq(C)
    BY <1>1
  <2> HIDE DEF C
  <2>2. Len(o) \in Nat /\ \A i \in 1 .. Len(o) : o[i] \in C
    BY <2>1
  <2> QED
    BY <2>2 DEF C
<1>3. Len(o) > 0 /\ \E i \in 1 .. Len(o) : o[i].col = "id"
  BY ListingAssumption
<1> QED
  BY <1>2, <1>3

\* ORDER BY is a strict total order of keys.
LEMMA NoneBeforeItself == ASSUME NEW o, NEW k PROVE ~ Before(o, k, k)
BY DEF Before, Differ

\* The key that two comparisons lead to is found at the earlier of their columns.
LEMMA BeforeTransitive ==
  ASSUME NEW o \in Orders, NEW k \in KeysOf(o), NEW l \in KeysOf(o), NEW m \in KeysOf(o),
         Before(o, k, l), Before(o, l, m)
  PROVE  Before(o, k, m)
<1>1. PICK i \in 1 .. Len(o) : Differ(k, l, i) /\ Lower(k[i], l[i], o[i].dir)
  BY DEF Before
<1>2. PICK j \in 1 .. Len(o) : Differ(l, m, j) /\ Lower(l[j], m[j], o[j].dir)
  BY DEF Before
<1>a. Len(o) \in Nat
  BY OrderShape
<1>b. i \in 1 .. Len(o) /\ j \in 1 .. Len(o) /\ i \in Int /\ j \in Int
  BY <1>a
<1>c. \A x \in 1 .. Len(o) : k[x] \in Nat /\ l[x] \in Nat /\ m[x] \in Nat
  BY DEF KeysOf
<1>3. CASE i < j
  <2>1. l[i] = m[i] /\ \A x \in 1 .. i - 1 : k[x] = m[x]
    BY <1>b, <1>1, <1>2, <1>3 DEF Differ
  <2>2. Differ(k, m, i) /\ Lower(k[i], m[i], o[i].dir)
    BY <1>1, <2>1 DEF Differ
  <2> QED
    BY <2>2, <1>b DEF Before
<1>4. CASE j < i
  <2>1. k[j] = l[j] /\ \A x \in 1 .. j - 1 : k[x] = m[x]
    BY <1>b, <1>1, <1>2, <1>4 DEF Differ
  <2>2. Differ(k, m, j) /\ Lower(k[j], m[j], o[j].dir)
    BY <1>2, <2>1 DEF Differ
  <2> QED
    BY <2>2, <1>b DEF Before
<1>5. CASE i = j
  <2>1. \A x \in 1 .. i - 1 : k[x] = m[x]
    BY <1>1, <1>2, <1>5 DEF Differ
  <2>2. k[i] # m[i] /\ Lower(k[i], m[i], o[i].dir)
    BY <1>1, <1>2, <1>5, <1>c DEF Lower
  <2> QED
    BY <2>1, <2>2, <1>b DEF Before, Differ
<1> QED
  BY <1>b, <1>3, <1>4, <1>5

\* Two keys are compared at the first column where they differ.
LEMMA BeforeTotal ==
  ASSUME NEW o \in Orders, NEW k \in KeysOf(o), NEW l \in KeysOf(o), k # l
  PROVE  Before(o, k, l) \/ Before(o, l, k)
<1> DEFINE D == {i \in 1 .. Len(o) : k[i] # l[i]}
<1>1. D # {}
  BY DEF KeysOf
<1>2. PICK i \in D : \A j \in D : i <= j
  <2>1. D \in SUBSET Nat
    BY OrderShape
  <2> HIDE DEF D
  <2> QED
    BY <1>1, <2>1, LeastNumber
<1>3. Len(o) \in Nat /\ i \in 1 .. Len(o) /\ k[i] # l[i] /\ k[i] \in Nat /\ l[i] \in Nat
  BY OrderShape DEF KeysOf
<1>4. \A j \in 1 .. i - 1 : k[j] = l[j]
  <2> SUFFICES ASSUME NEW j \in 1 .. i - 1, k[j] # l[j] PROVE FALSE
    OBVIOUS
  <2>1. j \in 1 .. Len(o) /\ j \in Int /\ i \in Int /\ ~ (i <= j)
    BY <1>3
  <2> QED
    BY <1>2, <2>1
<1>5. Differ(k, l, i) /\ Differ(l, k, i)
  BY <1>3, <1>4 DEF Differ
<1>6. Lower(k[i], l[i], o[i].dir) \/ Lower(l[i], k[i], o[i].dir)
  BY <1>3 DEF Lower
<1> QED
  BY <1>3, <1>5, <1>6 DEF Before

\* No two keys come before each other.
LEMMA NotBothBefore ==
  ASSUME NEW o \in Orders, NEW k \in KeysOf(o), NEW l \in KeysOf(o), Before(o, k, l)
  PROVE  ~ Before(o, l, k)
BY BeforeTransitive, NoneBeforeItself

\* The order the code can page through: one operator compares all the columns with the
\* cursor, so that the columns have to go the same way.
OneDirection == \A o \in Orders : \A i, j \in 1 .. Len(o) : o[i].dir = o[j].dir

\* Precedes is that comparison, for the client's order.
LEMMA PrecedesIs == \A k, l : Precedes(k, l) <=> Before(order, k, l)
BY DEF Precedes, Before

\* A movie's key is its own.
LEMMA KeyFacts ==
  ASSUME TypeOK
  PROVE  /\ order \in Orders /\ SortKeys = KeysOf(order)
         /\ \A m \in Movies : Key(m) \in KeysOf(order)
         /\ \A m, n \in Movies : m # n => Key(m) # Key(n)
<1>1. order \in Orders /\ likes \in [Movies -> 0 .. MaxLikes] /\ MaxId \in Nat /\ MaxLikes \in Nat
  BY ListingAssumption DEF TypeOK
<1>2. \A m \in Movies : m \in Nat /\ likes[m] \in Nat
  BY <1>1 DEF Movies
<1>3. \A m \in Movies : Key(m) \in KeysOf(order)
  <2>1. \A m \in Movies, i \in 1 .. Len(order) : Value(m, order[i].col) \in Nat
    BY <1>2 DEF Value
  <2> QED
    BY <2>1 DEF Key, KeysOf
<1>4. ASSUME NEW m \in Movies, NEW n \in Movies, m # n PROVE Key(m) # Key(n)
  <2>1. PICK i \in 1 .. Len(order) : order[i].col = "id"
    BY <1>1, OrderShape
  <2>2. Key(m)[i] = m /\ Key(n)[i] = n
    BY <2>1 DEF Key, Value
  <2> QED
    BY <2>2, <1>4
<1> QED
  BY <1>1, <1>3, <1>4 DEF SortKeys, KeysOf

\* With one direction, the cursor's where() is the comparison of ORDER BY.
LEMMA BeyondIsBefore ==
  ASSUME OneDirection, order \in Orders
  PROVE  \A k : Beyond(k) <=> Before(order, cursor, k)
<1>1. \A i \in 1 .. Len(order) : order[i].dir = CursorDirection
  <2>1. \A i \in 1 .. Len(order) : order[i].dir \in {"ASC", "DESC"}
    BY OrderShape DEF Directions
  <2> QED
    BY <2>1 DEF OneDirection, CursorDirection
<1> QED
  BY <1>1 DEF Beyond, Before

\* A page is the front of what is asked for, it has a last row, and it is empty only if
\* nothing is there.
LEMMA PageFacts ==
  ASSUME TypeOK
  PROVE  /\ Page \subseteq Hits /\ Hits \subseteq rows /\ Hits \subseteq Movies
         /\ Hits # {} => Page # {}
         /\ \A p \in Page, m \in Hits \ Page : Before(order, Key(p), Key(m))
         /\ Page # {} => /\ LastOf(Page) \in Page
                         /\ \A n \in Page \ {LastOf(Page)} :
                              Before(order, Key(n), Key(LastOf(Page)))
<1> DEFINE R == {ab \in Movies \X Movies : Before(order, Key(ab[1]), Key(ab[2]))}
           Back == {ab \in Movies \X Movies : Before(order, Key(ab[2]), Key(ab[1]))}
           Ahead(m) == {n \in Hits : Precedes(Key(n), Key(m))}
<1>1. Page \subseteq Hits /\ Hits \subseteq rows /\ Hits \subseteq Movies
  BY DEF Page, Hits, TypeOK
<1>2. IsFiniteSet(Movies) /\ IsFiniteSet(Hits) /\ IsFiniteSet(Page)
  <2>1. IsFiniteSet(Movies)
    BY ListingAssumption, FS_Interval DEF Movies
  <2> QED
    BY <2>1, <1>1, FS_Subset
<1>3. \A x \in Movies : <<x, x>> \notin R /\ <<x, x>> \notin Back
  BY NoneBeforeItself
<1>4. \A x, y, z \in Movies :
        /\ <<x, y>> \in R /\ <<y, z>> \in R => <<x, z>> \in R
        /\ <<x, y>> \in Back /\ <<y, z>> \in Back => <<x, z>> \in Back
  BY KeyFacts, BeforeTransitive
<1>5. \A x, y \in Movies : /\ <<x, y>> \in R <=> Before(order, Key(x), Key(y))
                           /\ <<x, y>> \in Back <=> Before(order, Key(y), Key(x))
  OBVIOUS
<1>6. \A m : Ahead(m) = {n \in Hits : Before(order, Key(n), Key(m))}
  BY PrecedesIs
<1>7. \A m : m \in Page <=> m \in Hits /\ Cardinality(Ahead(m)) < Take
  BY DEF Page
<1>8. \A m : IsFiniteSet(Ahead(m)) /\ Cardinality(Ahead(m)) \in Nat
  BY <1>2, FS_Subset, FS_CardinalityType
<1> HIDE DEF R, Back, Ahead
<1>9. Hits # {} => Page # {}
  <2> SUFFICES ASSUME Hits # {} PROVE Page # {}
    OBVIOUS
  <2>1. PICK m \in Hits : \A n \in Hits : <<n, m>> \notin R
    BY <1>1, <1>2, <1>3, <1>4, FirstOfFinite
  <2>2. Ahead(m) = {}
    BY <2>1, <1>1, <1>5, <1>6
  <2>3. Cardinality(Ahead(m)) < Take
    BY <2>2, FS_EmptySet, ListingAssumption
  <2> QED
    BY <2>3, <1>7
<1>10. ASSUME NEW p \in Page, NEW m \in Hits \ Page PROVE Before(order, Key(p), Key(m))
  <2>1. p \in Movies /\ m \in Movies /\ p # m
    BY <1>1
  <2>2. ASSUME Before(order, Key(m), Key(p)) PROVE FALSE
    <3>1. Ahead(m) \in SUBSET Ahead(p)
      BY <2>1, <2>2, <1>1, <1>6, KeyFacts, BeforeTransitive
    <3>2. Cardinality(Ahead(m)) <= Cardinality(Ahead(p))
      BY <3>1, <1>8, FS_Subset
    <3>3. Cardinality(Ahead(p)) < Take /\ ~ (Cardinality(Ahead(m)) < Take) /\ Take \in Nat
      BY <1>7, ListingAssumption
    <3> QED
      BY <3>2, <3>3, <1>8
  <2>3. Key(p) # Key(m) /\ Key(p) \in KeysOf(order) /\ Key(m) \in KeysOf(order) /\ order \in Orders
    BY <2>1, KeyFacts
  <2> QED
    BY <2>2, <2>3, BeforeTotal
<1>11. Page # {} => /\ LastOf(Page) \in Page
                    /\ \A n \in Page \ {LastOf(Page)} : Before(order, Key(n), Key(LastOf(Page)))
  <2> SUFFICES ASSUME Page # {}
               PROVE  /\ LastOf(Page) \in Page
                      /\ \A n \in Page \ {LastOf(Page)} : Before(order, Key(n), Key(LastOf(Page)))
    OBVIOUS
  <2>1. PICK m \in Page : \A n \in Page : <<n, m>> \notin Back
    BY <1>1, <1>2, <1>3, <1>4, FirstOfFinite
  <2>2. ASSUME NEW n \in Page \ {m} PROVE Before(order, Key(n), Key(m))
    <3>1. n \in Movies /\ m \in Movies /\ n # m /\ ~ Before(order, Key(m), Key(n))
      BY <2>1, <1>1, <1>5
    <3>2. Key(n) # Key(m) /\ Key(n) \in KeysOf(order) /\ Key(m) \in KeysOf(order)
          /\ order \in Orders
      BY <3>1, KeyFacts
    <3> QED
      BY <3>1, <3>2, BeforeTotal
  <2>3. \E x \in Page : \A n \in Page \ {x} : Precedes(Key(n), Key(x))
    BY <2>2, PrecedesIs
  <2>4. LastOf(Page) \in Page /\ \A n \in Page \ {LastOf(Page)} :
          Precedes(Key(n), Key(LastOf(Page)))
    BY <2>3 DEF LastOf
  <2> QED
    BY <2>4, PrecedesIs
<1> QED
  BY <1>1, <1>9, <1>10, <1>11

\* The shapes.
LEMMA ListingTypes == TypeOK /\ [Next]_vars => TypeOK'
<1> SUFFICES ASSUME TypeOK, [Next]_vars PROVE TypeOK'
  OBVIOUS
<1>a. MaxId \in Nat /\ MaxLikes \in Nat /\ MaxWrites \in Nat
  BY ListingAssumption
<1>b. \A m \in Movies : Key(m) \in SortKeys
  BY KeyFacts
<1>c. order' = order => SortKeys' = SortKeys /\ Cursors' = Cursors
  BY DEF SortKeys, Cursors
<1>1. CASE FindCursor
  <2>1. NextCursor \in Cursors
    BY <1>b, PageFacts DEF NextCursor, Values, Cursors
  <2> QED
    BY <1>1, <1>c, <2>1 DEF FindCursor, TypeOK, table
<1>2. CASE FindPage
  <2>1. Page \subseteq Movies
    BY PageFacts
  <2>2. HasNextPage \in BOOLEAN
    BY DEF HasNextPage
  <2>3. times' \in [Movies -> Nat]
    BY <1>2 DEF FindPage, TypeOK
  <2>4. keys' \subseteq SortKeys
    BY <1>2, <1>b, <2>1 DEF FindPage, TypeOK
  <2> QED
    BY <1>2, <1>c, <2>2, <2>3, <2>4 DEF FindPage, TypeOK, table
<1>3. CASE AskMore \/ Stop
  BY <1>3, <1>c DEF AskMore, Stop, TypeOK, table
<1>4. ASSUME NEW S, Written(S)
      PROVE  /\ writes' \in 0 .. MaxWrites /\ kept' \subseteq Early /\ torn' \in BOOLEAN
             /\ UNCHANGED <<search, order, pc, cursor, next, hasNext, times, keys>>
  BY <1>4, <1>a DEF Written, TypeOK, client
<1>5. CASE Create
  <2>1. lastId' \in 0 .. MaxId /\ rows' \subseteq Movies
    BY <1>5, <1>a DEF Create, TypeOK, Movies
  <2> QED
    BY <1>5, <1>4, <1>c, <2>1 DEF Create, TypeOK
<1>6. ASSUME NEW m \in Movies, Remove(m) PROVE TypeOK'
  BY <1>6, <1>4, <1>c DEF Remove, TypeOK
<1>7. ASSUME NEW m \in Movies, NEW n \in 0 .. MaxLikes, Like(m, n) PROVE TypeOK'
  <2>1. likes' \in [Movies -> 0 .. MaxLikes]
    BY <1>7 DEF Like, TypeOK
  <2>2. PICK S : Written(S)
    BY <1>7 DEF Like
  <2> QED
    BY <1>7, <1>4, <1>c, <2>1, <2>2 DEF Like, TypeOK
<1>8. CASE UNCHANGED vars
  BY <1>8, <1>c DEF vars, table, client, TypeOK
<1> QED
  BY <1>1, <1>2, <1>3, <1>5, <1>6, <1>7, <1>8 DEF Next, Walk

\* Where the client stands: the cursor it asks with, or the one it was given.
Asking  == pc \in {"ask", "counted"}
At(c)   == IF Asking THEN cursor = c ELSE next = c
Watched == IF search THEN kept \cap Wanted ELSE kept

\* Between the two queries nothing was written: the next cursor is the page's last row.
CursorFits == (pc = "counted" /\ ~ torn) =>
  IF Hits = {} THEN next = NoCursor
  ELSE \E x \in Page : /\ next = Key(x)
                       /\ \A n \in Page \ {x} : Before(order, Key(n), Key(x))

\* No key the client was given sorts after the place where it stands.
KeysPassed == ~ torn =>
  /\ (Asking /\ cursor = NoCursor) => keys = {}
  /\ \A c \in KeysOf(order) : At(c) => \A k \in keys : k = c \/ Before(order, k, c)

\* It was given each movie that keeps its place once if it has passed it, and never if not.
PassedOnce == ~ torn => \A m \in Watched :
  /\ (Asking /\ cursor = NoCursor) => times[m] = 0
  /\ (~ Asking /\ next = NoCursor) => times[m] = 1
  /\ \A c \in KeysOf(order) : At(c) => times[m] = IF Before(order, c, Key(m)) THEN 0 ELSE 1

ListingInv ==
  /\ TypeOK /\ kept \subseteq rows
  /\ pc = "done" => next = NoCursor \/ HeedsHasNext
  /\ CursorFits /\ KeysPassed /\ PassedOnce

\* A key is not the absent cursor.
LEMMA KeyIsCursor == \A o \in Orders : NoCursor \notin KeysOf(o)
<1> SUFFICES ASSUME NEW o \in Orders, NoCursor \in KeysOf(o) PROVE FALSE
  OBVIOUS
<1>1. Len(o) \in Nat
  BY OrderShape
<1>2. NoCursor \in Seq(Int)
  BY <1>1 DEF KeysOf
<1> QED
  BY <1>2, ListingAssumption

\* The first request is sent in the invariant.
LEMMA ListingStarts == Init => ListingInv
<1> SUFFICES ASSUME Init PROVE ListingInv
  OBVIOUS
<1>1. MaxId \in Nat /\ MaxWrites \in Nat /\ Early \subseteq Movies
  BY ListingAssumption
<1>2. TypeOK
  <2>1. likes \in [Movies -> 0 .. MaxLikes] /\ times \in [Movies -> Nat] /\ lastId \in 0 .. MaxId
    BY DEF Init
  <2>2. /\ rows = Early /\ writes = 0 /\ search \in BOOLEAN /\ order \in Orders /\ pc = "ask"
        /\ cursor = NoCursor /\ next = NoCursor /\ hasNext = FALSE /\ keys = {}
        /\ kept = Early /\ torn = FALSE
    BY DEF Init
  <2>3. cursor \in Cursors /\ next \in Cursors /\ writes \in 0 .. MaxWrites
    BY <1>1, <2>2 DEF Cursors
  <2>4. rows \subseteq Movies /\ keys \subseteq SortKeys /\ kept \subseteq Early
    BY <1>1, <2>2
  <2>5. hasNext \in BOOLEAN /\ torn \in BOOLEAN
    BY <2>2
  <2> QED
    BY <2>1, <2>2, <2>3, <2>4, <2>5 DEF TypeOK
<1>3. \A c \in KeysOf(order) : ~ At(c)
  BY <1>2, KeyIsCursor DEF Init, At, Asking, TypeOK
<1>4. kept \subseteq rows /\ pc = "ask" /\ keys = {} /\ \A m \in Movies : times[m] = 0
  BY DEF Init
<1>5. \A m \in Watched : times[m] = 0
  BY <1>1, <1>2, <1>4 DEF Watched, TypeOK
<1> QED
  BY <1>2, <1>3, <1>4, <1>5 DEF ListingInv, CursorFits, KeysPassed, PassedOnce, Asking

\* A step of the client: the table, and with it every key, is as it was.
LEMMA ClientStep ==
  ASSUME UNCHANGED <<table, search, order, kept>>
  PROVE  /\ \A m : Key(m)' = Key(m)
         /\ KeysOf(order') = KeysOf(order) /\ Watched' = Watched
BY DEF table, Key, Value, Watched

\* A page is a matter of the table, the order and the cursor.
LEMMA SamePage ==
  ASSUME UNCHANGED <<rows, likes, search, order, cursor>>
  PROVE  Hits' = Hits /\ Page' = Page
<1>1. \A m : Key(m)' = Key(m)
  BY DEF Key, Value
<1>2. \A m : Beyond(Key(m))' <=> Beyond(Key(m))
  BY <1>1 DEF Beyond, CursorDirection
<1>3. Hits' = Hits
  BY <1>2 DEF Hits
<1>4. \A m, n : Precedes(Key(n), Key(m))' <=> Precedes(Key(n), Key(m))
  BY <1>1 DEF Precedes
<1>5. \A m : {n \in Hits : Precedes(Key(n), Key(m))}' = {n \in Hits : Precedes(Key(n), Key(m))}
  BY <1>3, <1>4
<1> QED
  BY <1>3, <1>5 DEF Page

\* The first query gives the cursor of the page that the second will bring, if no write
\* comes between.
LEMMA FindCursorStep ==
  ASSUME OneDirection, ListingInv, TypeOK', FindCursor
  PROVE  ListingInv'
<1> USE DEF ListingInv
<1>1. /\ pc = "ask" /\ pc' = "counted" /\ next' = NextCursor
      /\ UNCHANGED <<table, search, order, cursor, hasNext, times, keys, kept, torn>>
      /\ UNCHANGED <<rows, likes>>
  BY DEF FindCursor, table
<1>2. /\ \A m : Key(m)' = Key(m)
      /\ KeysOf(order') = KeysOf(order) /\ Watched' = Watched
  BY <1>1, ClientStep
<1>3. Asking /\ Asking' /\ \A c : At(c)' <=> At(c)
  BY <1>1 DEF Asking, At
<1>4. KeysPassed' /\ PassedOnce'
  BY <1>1, <1>2, <1>3 DEF KeysPassed, PassedOnce
<1>5. Hits' = Hits /\ Page' = Page
  BY <1>1, SamePage
<1>6. CursorFits'
  <2>1. CASE Hits = {}
    <3>1. next' = NoCursor
      BY <1>1, <2>1, PageFacts DEF NextCursor
    <3> QED
      BY <3>1, <2>1, <1>5 DEF CursorFits
  <2>2. CASE Hits # {}
    <3> DEFINE x == LastOf(Page)
    <3>1. /\ x \in Page /\ next' = Key(x)
          /\ \A n \in Page \ {x} : Before(order, Key(n), Key(x))
      BY <1>1, <2>2, PageFacts DEF NextCursor, Values
    <3> HIDE DEF x
    <3>2. \E y \in Page : /\ next' = Key(y)
                          /\ \A n \in Page \ {y} : Before(order, Key(n), Key(y))
      BY <3>1
    <3>3. \E y \in Page' : /\ next' = Key(y)'
                           /\ \A n \in Page' \ {y} : Before(order', Key(n)', Key(y)')
      BY <3>2, <1>1, <1>2, <1>5
    <3> QED
      BY <3>3, <2>2, <1>5 DEF CursorFits
  <2> QED
    BY <2>1, <2>2
<1> QED
  BY <1>1, <1>4, <1>6

\* What the second query brings lies beyond everything the client was given.
LEMMA PageIsBeyond ==
  ASSUME OneDirection, ListingInv, pc = "counted", ~ torn
  PROVE  \A k \in keys, m \in Hits : Before(order, k, Key(m))
<1> SUFFICES ASSUME NEW k \in keys, NEW m \in Hits PROVE Before(order, k, Key(m))
  OBVIOUS
<1>1. TypeOK /\ KeysPassed /\ Asking
  BY DEF ListingInv, Asking
<1>2. cursor \in KeysOf(order) /\ (k = cursor \/ Before(order, k, cursor))
  BY <1>1, KeyFacts DEF KeysPassed, At, TypeOK, Cursors
<1>3. Beyond(Key(m))
  BY <1>1, <1>2, KeyFacts, KeyIsCursor DEF Hits
<1>4. Before(order, cursor, Key(m))
  BY <1>1, <1>3, BeyondIsBefore, KeyFacts
<1>5. k \in KeysOf(order) /\ Key(m) \in KeysOf(order) /\ order \in Orders
  BY <1>1, KeyFacts, PageFacts DEF TypeOK
<1> QED
  BY <1>2, <1>4, <1>5, BeforeTransitive

\* Which movies that keep their place the page brings.
LEMMA PageOfWatched ==
  ASSUME OneDirection, ListingInv, pc = "counted", ~ torn, NEW m \in Watched
  PROVE  /\ m \in Movies
         /\ m \in Hits => times[m] = 0
         /\ m \notin Hits => /\ times[m] = 1 /\ cursor \in KeysOf(order)
                             /\ ~ Before(order, cursor, Key(m))
<1>1. TypeOK /\ PassedOnce /\ Asking /\ kept \subseteq rows /\ rows \subseteq Movies
  BY DEF ListingInv, Asking, TypeOK
<1>2. m \in rows /\ (search => m \in Wanted)
  BY <1>1 DEF Watched
<1>3. CASE cursor = NoCursor
  <2>1. m \in Hits
    BY <1>2, <1>3 DEF Hits
  <2> QED
    BY <2>1, <1>1, <1>2, <1>3 DEF PassedOnce
<1>4. CASE cursor # NoCursor
  <2>1. cursor \in KeysOf(order) /\ At(cursor)
    BY <1>1, <1>4, KeyFacts DEF TypeOK, Cursors, At
  <2>2. times[m] = IF Before(order, cursor, Key(m)) THEN 0 ELSE 1
    BY <2>1, <1>1 DEF PassedOnce
  <2>3. m \in Hits <=> Before(order, cursor, Key(m))
    BY <1>1, <1>2, <1>4, BeyondIsBefore, KeyFacts DEF Hits
  <2> QED
    BY <2>1, <2>2, <2>3, <1>1, <1>2
<1> QED
  BY <1>3, <1>4

\* The second query: the page is counted, and the client stands at its last row.
LEMMA FindPageStep ==
  ASSUME OneDirection, ListingInv, TypeOK', FindPage
  PROVE  ListingInv'
<1> USE DEF ListingInv
<1>1. /\ pc = "counted" /\ pc' = "got"
      /\ UNCHANGED <<table, search, order, cursor, next, kept, torn>> /\ rows' = rows
      /\ times' = [m \in Movies |-> IF m \in Page THEN times[m] + 1 ELSE times[m]]
      /\ keys'  = keys \cup {Key(m) : m \in Page}
  BY DEF FindPage, table
<1>2. /\ \A m : Key(m)' = Key(m)
      /\ KeysOf(order') = KeysOf(order) /\ Watched' = Watched
  BY <1>1, ClientStep
<1>3. ~ Asking' /\ (\A c : At(c)' <=> next = c) /\ CursorFits'
  BY <1>1 DEF Asking, At, CursorFits
<1>4. Page \subseteq Hits /\ Hits \subseteq Movies /\ order \in Orders
      /\ \A m \in Movies : Key(m) \in KeysOf(order)
  BY PageFacts, KeyFacts
<1>5. ~ torn => \A c \in KeysOf(order) : next = c =>
        \E x \in Page : c = Key(x) /\ \A n \in Page \ {x} : Before(order, Key(n), Key(x))
  BY <1>1, <1>4, KeyIsCursor DEF CursorFits
<1>6. KeysPassed'
  <2> SUFFICES ASSUME ~ torn, NEW c \in KeysOf(order), next = c, NEW k \in keys'
               PROVE  k = c \/ Before(order, k, c)
    BY <1>1, <1>2, <1>3 DEF KeysPassed
  <2>1. PICK x \in Page : c = Key(x) /\ \A n \in Page \ {x} : Before(order, Key(n), Key(x))
    BY <1>5
  <2>2. CASE k \in keys
    BY <2>1, <2>2, <1>1, <1>4, PageIsBeyond
  <2>3. CASE k \notin keys
    <3>1. PICK n \in Page : k = Key(n)
      BY <2>3, <1>1
    <3> QED
      BY <2>1, <3>1
  <2> QED
    BY <2>2, <2>3
<1>7. PassedOnce'
  <2> SUFFICES ASSUME ~ torn, NEW m \in Watched
               PROVE  /\ next = NoCursor => times'[m] = 1
                      /\ \A c \in KeysOf(order) : next = c =>
                           times'[m] = IF Before(order, c, Key(m)) THEN 0 ELSE 1
    BY <1>1, <1>2, <1>3 DEF PassedOnce
  <2>1. /\ m \in Movies
        /\ m \in Hits => times[m] = 0
        /\ m \notin Hits => /\ times[m] = 1 /\ cursor \in KeysOf(order)
                            /\ ~ Before(order, cursor, Key(m))
    BY <1>1, PageOfWatched
  <2>2. times'[m] = IF m \in Page THEN times[m] + 1 ELSE times[m]
    BY <1>1, <2>1
  <2>3. next = NoCursor => times'[m] = 1
    <3>1. next = NoCursor => Hits = {}
      BY <1>1, <1>4, KeyIsCursor DEF CursorFits
    <3> QED
      BY <3>1, <2>1, <2>2, <1>4
  <2>4. ASSUME NEW c \in KeysOf(order), next = c
        PROVE  times'[m] = IF Before(order, c, Key(m)) THEN 0 ELSE 1
    <3>1. PICK x \in Page : c = Key(x) /\ \A n \in Page \ {x} : Before(order, Key(n), Key(x))
      BY <1>5, <2>4
    <3>2. CASE m \in Page
      <4>1. ~ Before(order, c, Key(m))
        BY <3>1, <3>2, <2>1, <1>4, NoneBeforeItself, NotBothBefore
      <4> QED
        BY <4>1, <3>2, <2>1, <2>2, <1>4
    <3>3. CASE m \in Hits \ Page
      <4>1. Before(order, c, Key(m))
        BY <3>1, <3>3, PageFacts
      <4> QED
        BY <4>1, <3>3, <2>1, <2>2
    <3>4. CASE m \notin Hits
      <4>1. Before(order, cursor, c)
        <5>1. Beyond(Key(x)) /\ x \in Movies
          BY <3>1, <3>4, <2>1, <1>4, KeyIsCursor DEF Hits
        <5> QED
          BY <5>1, <3>1, <1>4, BeyondIsBefore
      <4>2. ~ Before(order, c, Key(m))
        BY <4>1, <3>4, <2>1, <1>4, BeforeTransitive
      <4> QED
        BY <4>2, <3>4, <2>1, <2>2, <1>4
    <3> QED
      BY <3>2, <3>3, <3>4
  <2> QED
    BY <2>3, <2>4
<1> QED
  BY <1>1, <1>3, <1>6, <1>7

\* A write leaves the keys of the movies that still keep their place.
LEMMA WriteStep ==
  ASSUME ListingInv, TypeOK', NEW S, Written(S), kept' \subseteq rows',
         \A m \in kept' : Key(m)' = Key(m)
  PROVE  ListingInv'
<1> USE DEF ListingInv
<1>1. /\ pc # "done" /\ kept' = kept \ S /\ torn' = (torn \/ pc = "counted")
      /\ UNCHANGED <<search, order, pc, cursor, next, hasNext, times, keys>>
  BY DEF Written, client
<1>2. /\ (Asking' <=> Asking) /\ (\A c : At(c)' <=> At(c)) /\ KeysOf(order') = KeysOf(order)
      /\ \A m \in Watched' : m \in Watched /\ m \in kept'
  BY <1>1 DEF Asking, At, Watched
<1>3. torn \in BOOLEAN /\ (~ torn' => ~ torn /\ pc # "counted")
  BY <1>1 DEF TypeOK
<1>4. CursorFits' /\ KeysPassed'
  BY <1>1, <1>2, <1>3 DEF CursorFits, KeysPassed
<1>5. PassedOnce'
  BY <1>1, <1>2, <1>3 DEF PassedOnce
<1> QED
  BY <1>1, <1>4, <1>5

\* Every step keeps the invariant.
LEMMA ListingStep == OneDirection /\ ListingInv /\ [Next]_vars => ListingInv'
<1> SUFFICES ASSUME OneDirection, ListingInv, [Next]_vars PROVE ListingInv'
  OBVIOUS
<1>a. TypeOK' /\ TypeOK
  BY ListingTypes DEF ListingInv
<1>1. CASE FindCursor
  BY <1>1, <1>a, FindCursorStep
<1>2. CASE FindPage
  BY <1>2, <1>a, FindPageStep
<1>3. CASE AskMore \/ Stop
  <2>1. /\ UNCHANGED <<table, search, order, next, times, keys, kept, torn>> /\ rows' = rows
        /\ \/ pc = "got" /\ pc' = "ask" /\ cursor' = next /\ next # NoCursor
           \/ pc = "got" /\ pc' = "done" /\ (next = NoCursor \/ HeedsHasNext)
    BY <1>3 DEF AskMore, Stop, WantsMore, table
  <2>2. /\ \A m : Key(m)' = Key(m)
        /\ KeysOf(order') = KeysOf(order) /\ Watched' = Watched
    BY <2>1, ClientStep
  <2>3. /\ ~ Asking /\ (\A c : At(c)' <=> At(c))
        /\ Asking' => cursor' # NoCursor
        /\ ~ Asking' => next' = next
    BY <2>1 DEF Asking, At
  <2>4. CursorFits' /\ KeysPassed'
    BY <2>1, <2>2, <2>3 DEF CursorFits, KeysPassed, ListingInv
  <2>5. PassedOnce'
    BY <2>1, <2>2, <2>3 DEF PassedOnce, ListingInv
  <2> QED
    BY <1>a, <2>1, <2>4, <2>5 DEF ListingInv
<1>4. CASE Create
  <2>1. Written({}) /\ likes' = likes /\ rows \subseteq rows' /\ order' = order
    BY <1>4 DEF Create, Written, client
  <2>2. kept' \subseteq rows' /\ \A m : Key(m)' = Key(m)
    BY <2>1 DEF Written, Key, Value, ListingInv
  <2> QED
    BY <1>a, <2>1, <2>2, WriteStep
<1>5. ASSUME NEW m \in Movies, Remove(m) PROVE ListingInv'
  <2>1. Written({m}) /\ likes' = likes /\ rows' = rows \ {m} /\ order' = order
    BY <1>5 DEF Remove, Written, client
  <2>2. kept' \subseteq rows' /\ \A n : Key(n)' = Key(n)
    BY <2>1 DEF Written, Key, Value, ListingInv
  <2> QED
    BY <1>a, <2>1, <2>2, WriteStep
<1>6. ASSUME NEW m \in Movies, NEW n \in 0 .. MaxLikes, Like(m, n) PROVE ListingInv'
  <2> DEFINE S == IF \E i \in 1 .. Len(order) : order[i].col = "likeCount" THEN {m} ELSE {}
  <2>1. Written(S) /\ rows' = rows /\ order' = order /\ kept' = kept \ S
        /\ likes' = [likes EXCEPT ![m] = n] /\ likes \in [Movies -> 0 .. MaxLikes]
    BY <1>6, <1>a DEF Like, Written, client, TypeOK
  <2>2. ASSUME NEW x \in kept' PROVE Key(x)' = Key(x)
    <3>1. CASE x = m
      <4>1. \A i \in 1 .. Len(order) : order[i].col = "id"
        BY <3>1, <2>1, <2>2, <1>a, KeyFacts, OrderShape DEF Columns
      <4> QED
        BY <4>1, <2>1 DEF Key, Value
    <3>2. CASE x # m
      <4>1. likes'[x] = likes[x]
        BY <3>2, <2>1
      <4> QED
        BY <4>1, <2>1 DEF Key, Value
    <3> QED
      BY <3>1, <3>2
  <2>3. kept' \subseteq rows'
    BY <2>1 DEF ListingInv
  <2> HIDE DEF S
  <2> QED
    BY <1>a, <2>1, <2>2, <2>3, WriteStep
<1>7. CASE UNCHANGED vars
  <2>1. UNCHANGED <<table, search, order, kept, pc, cursor, next, times, keys, torn, rows, likes>>
    BY <1>7 DEF vars, table, client
  <2>2. /\ \A m : Key(m)' = Key(m)
        /\ KeysOf(order') = KeysOf(order) /\ Watched' = Watched
        /\ (Asking' <=> Asking) /\ (\A c : At(c)' <=> At(c))
    BY <2>1, ClientStep DEF Asking, At
  <2>3. KeysPassed' /\ PassedOnce'
    BY <2>1, <2>2 DEF KeysPassed, PassedOnce, ListingInv
  <2>4. CursorFits'
    <3>1. Hits' = Hits /\ Page' = Page
      BY <2>1, SamePage
    <3>2. CursorFits
      BY DEF ListingInv
    <3>3. CASE pc = "counted" /\ ~ torn /\ Hits # {}
      <4>1. PICK x \in Page : /\ next = Key(x)
                              /\ \A n \in Page \ {x} : Before(order, Key(n), Key(x))
        BY <3>2, <3>3 DEF CursorFits
      <4>2. /\ x \in Page' /\ next' = Key(x)'
            /\ \A n \in Page' \ {x} : Before(order', Key(n)', Key(x)')
        BY <4>1, <3>1, <2>1, <2>2
      <4>3. \E y \in Page' : /\ next' = Key(y)'
                             /\ \A n \in Page' \ {y} : Before(order', Key(n)', Key(y)')
        BY <4>2
      <4> QED
        BY <4>3, <3>1, <3>3 DEF CursorFits
    <3>4. CASE ~ (pc = "counted" /\ ~ torn /\ Hits # {})
      BY <3>1, <3>2, <3>4, <2>1 DEF CursorFits
    <3> QED
      BY <3>3, <3>4
  <2> QED
    BY <1>a, <2>1, <2>3, <2>4 DEF ListingInv
<1> QED
  BY <1>1, <1>2, <1>3, <1>4, <1>5, <1>6, <1>7 DEF Next, Walk

\* The invariant holds for orders of one direction.
LEMMA ListingHolds == ASSUME OneDirection PROVE Spec => []ListingInv
BY ListingStarts, ListingStep, PTL DEF Spec, Safe

\* The list's state keeps its shapes, for every order, also one of mixed directions.
THEOREM ListingTypeOK == Spec => []TypeOK
<1>1. Init => TypeOK
  BY ListingStarts DEF ListingInv
<1> QED
  BY <1>1, ListingTypes, PTL DEF Spec, Safe

\* A client that follows nextCursor to its end is given every movie that was there all
\* along and kept its place, exactly once, however many movies there are, whatever the
\* page's size and whatever is written between the pages: if the columns of an order go
\* one way, which the one operator of the cursor's where() needs.
THEOREM EachMovieOnce ==
  ASSUME OneDirection, HeedsHasNext = FALSE
  PROVE  Spec => []EveryMovieOnce
<1>1. ListingInv => EveryMovieOnce
  <2> SUFFICES ASSUME ListingInv, ~ torn, NEW m \in Watched
               PROVE  times[m] <= 1 /\ (pc = "done" => times[m] = 1)
    BY DEF EveryMovieOnce, Watched
  <2> DEFINE at == IF Asking THEN cursor ELSE next
  <2>1. TypeOK /\ PassedOnce /\ (pc = "done" => next = NoCursor)
    BY DEF ListingInv
  <2>2. at \in Cursors
    BY <2>1 DEF TypeOK
  <2>3. CASE at = NoCursor
    BY <2>1, <2>3 DEF PassedOnce, Asking
  <2>4. CASE at # NoCursor
    <3>1. at \in KeysOf(order) /\ At(at)
      BY <2>1, <2>2, <2>4, KeyFacts DEF Cursors, At
    <3>2. times[m] = 0 \/ times[m] = 1
      BY <2>1, <3>1 DEF PassedOnce
    <3>3. pc # "done"
      BY <2>1, <2>4 DEF Asking
    <3> QED
      BY <3>2, <3>3
  <2> QED
    BY <2>3, <2>4
<1> QED
  BY <1>1, ListingHolds, PTL

\* Each page sorts after every row of the pages before it, for any list and any writes.
THEOREM PagesAreInOrder == ASSUME OneDirection PROVE Spec => PagesInOrder
<1> DEFINE InOrder == ~ torn /\ pc = "counted" /\ pc' = "got" =>
      \A k \in keys, l \in {Key(m) : m \in Page} : Precedes(k, l)
<1>1. ListingInv => InOrder
  <2> SUFFICES ASSUME ListingInv, ~ torn, pc = "counted", NEW k \in keys, NEW m \in Page
               PROVE  Precedes(k, Key(m))
    OBVIOUS
  <2>1. m \in Hits
    BY PageFacts DEF ListingInv
  <2> QED
    BY <2>1, PageIsBeyond, PrecedesIs
<1> QED
  BY <1>1, ListingHolds, PTL DEF Spec, Safe, PagesInOrder
=============================================================================
