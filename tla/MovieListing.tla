---------------------------- MODULE MovieListing ----------------------------
(***************************************************************************)
(* GET /movie: MovieService.findAll over the cursor pagination of          *)
(* CommonService, followed page by page by a client, while movies are      *)
(* created, deleted and liked.                                             *)
(*                                                                         *)
(* A page costs two queries that each see the table as it is then: the     *)
(* first finds where the next page starts, the second brings the rows.     *)
(* The order is a sequence of columns; id stands for one that never        *)
(* changes, likeCount for one that does, and id is always the last, so     *)
(* that no two rows tie.                                                   *)
(***************************************************************************)
EXTENDS Integers, Sequences, FiniteSets

CONSTANTS
  MaxId,         \* bound on the ids handed out
  Early,         \* movies there at the start
  Wanted,        \* movies whose title contains the text searched for
  Orders,        \* values of the order parameter
  Take,          \* the take parameter
  MaxLikes,      \* bound on likeCount
  MaxWrites,     \* bound on what the other requests write
  HeedsHasNext,  \* the client is MovieList.tsx, which asks for more only if hasNextPage
  NoCursor

Movies     == 1 .. MaxId
Columns    == {"id", "likeCount"}
Directions == {"ASC", "DESC"}

ASSUME ListingAssumption ==
  /\ MaxId \in Nat /\ Early \subseteq Movies /\ Wanted \subseteq Movies
  /\ Orders \subseteq Seq([col : Columns, dir : Directions])
  /\ \A o \in Orders : Len(o) > 0 /\ \E i \in 1 .. Len(o) : o[i].col = "id"
  /\ Take \in Nat \ {0} /\ MaxLikes \in Nat /\ MaxWrites \in Nat
  /\ HeedsHasNext \in BOOLEAN /\ NoCursor \notin Seq(Int)

VARIABLES
  rows,     \* ids in the movie table
  likes,    \* likeCount of each
  lastId,   \* the sequence behind movie.id
  writes,   \* writes made so far (bounded by MaxWrites)
  search,   \* the client sends a title
  order,    \* the order it sends with its first request; later ones have it in the cursor
  pc,       \* "ask": request on its way; "counted": between the two queries; "got"; "done"
  cursor,   \* values in the cursor of the request, or NoCursor
  next,     \* nextCursor of the response
  hasNext,  \* hasNextPage of the response
  times,    \* how often the client was given each movie
  keys,     \* sort keys it was given
  kept,     \* movies there all along, with the same key all along
  torn      \* a write fell between the two queries of some page

table  == <<rows, likes, lastId, writes>>
client == <<search, order, pc, cursor, next, hasNext, times, keys>>
vars   == <<table, client, kept, torn>>

SortKeys == [1 .. Len(order) -> Nat]
Cursors  == SortKeys \cup {NoCursor}

TypeOK ==
  /\ rows \subseteq Movies /\ likes \in [Movies -> 0 .. MaxLikes]
  /\ lastId \in 0 .. MaxId /\ writes \in 0 .. MaxWrites
  /\ search \in BOOLEAN /\ order \in Orders
  /\ pc \in {"ask", "counted", "got", "done"}
  /\ cursor \in Cursors /\ next \in Cursors /\ hasNext \in BOOLEAN
  /\ times \in [Movies -> Nat] /\ keys \subseteq SortKeys
  /\ kept \subseteq Early /\ torn \in BOOLEAN

Init ==
  /\ rows = Early /\ likes \in [Movies -> 0 .. MaxLikes]
  /\ lastId \in {n \in 0 .. MaxId : \A m \in Early : m <= n}
  /\ writes = 0
  /\ search \in BOOLEAN /\ order \in Orders
  /\ pc = "ask" /\ cursor = NoCursor /\ next = NoCursor /\ hasNext = FALSE
  /\ times = [m \in Movies |-> 0] /\ keys = {}
  /\ kept = Early /\ torn = FALSE

(***************************************************************************)
(* Rows, keys and cursors.                                                 *)
(***************************************************************************)

\* The values of the ORDER BY columns, and so of a cursor, for movie m.
Value(m, col) == IF col = "id" THEN m ELSE likes[m]
Key(m)        == [i \in 1 .. Len(order) |-> Value(m, order[i].col)]

\* k comes before l where column i is the first that differs and is sorted by dir[i].
Differ(k, l, i)    == k[i] # l[i] /\ \A j \in 1 .. i - 1 : k[j] = l[j]
Lower(a, b, dir)   == IF dir = "ASC" THEN a < b ELSE b < a
Precedes(k, l)     == \E i \in 1 .. Len(order) :
                        Differ(k, l, i) /\ Lower(k[i], l[i], order[i].dir)

\* (columns) < (values) when some column is DESC, otherwise (columns) > (values).
\* Mutants: always >; only the first column compared.
CursorDirection == IF \E i \in 1 .. Len(order) : order[i].dir = "DESC" THEN "DESC" ELSE "ASC"
BeyondUp(k)    == \E i \in 1 .. Len(order) : Differ(cursor, k, i) /\ cursor[i] < k[i]
BeyondFirst(k) == Lower(cursor[1], k[1], CursorDirection)
Beyond(k)      == \E i \in 1 .. Len(order) :
                    Differ(cursor, k, i) /\ Lower(cursor[i], k[i], CursorDirection)

\* The cursor's where() takes the place of the title's.
Hits == IF cursor = NoCursor THEN {m \in rows : search => m \in Wanted}
                             ELSE {m \in rows : Beyond(Key(m))}

\* ORDER BY ... LIMIT take
Page == {m \in Hits : Cardinality({n \in Hits : Precedes(Key(n), Key(m))}) < Take}

\* generateNextCursor: the order's columns of the last row.
\* Mutant: an empty page gives the old cursor back.
LastOf(P) == CHOOSE m \in P : \A n \in P \ {m} : Precedes(Key(n), Key(m))
Values(m) == Key(m)
NextCursorKept == IF Page = {} THEN cursor ELSE Values(LastOf(Page))
NextCursor     == IF Page = {} THEN NoCursor ELSE Values(LastOf(Page))

(***************************************************************************)
(* The request and the client.                                             *)
(***************************************************************************)

\* applyCursorPaginationParamsToQb: getMany() and the next cursor.
FindCursor ==
  /\ pc = "ask" /\ pc' = "counted"
  /\ next' = NextCursor
  /\ UNCHANGED <<table, search, order, cursor, hasNext, times, keys, kept, torn>>

\* getManyAndCount() on the same query; more rows than `take` would mean a next page.
HasNextPage == Cardinality(Page) > Take

FindPage ==
  /\ pc = "counted" /\ pc' = "got"
  /\ hasNext' = HasNextPage
  /\ times' = [m \in Movies |-> IF m \in Page THEN times[m] + 1 ELSE times[m]]
  /\ keys'  = keys \cup {Key(m) : m \in Page}
  /\ UNCHANGED <<table, search, order, cursor, next, kept, torn>>

\* loadMore, behind a button the page shows only when hasNextPage; other clients
\* follow nextCursor until it is null.
WantsMore == next # NoCursor /\ (HeedsHasNext => hasNext)

AskMore ==
  /\ pc = "got" /\ WantsMore
  /\ pc' = "ask" /\ cursor' = next
  /\ UNCHANGED <<table, search, order, next, hasNext, times, keys, kept, torn>>

Stop ==
  /\ pc = "got" /\ ~ WantsMore
  /\ pc' = "done"
  /\ UNCHANGED <<table, search, order, cursor, next, hasNext, times, keys, kept, torn>>

Walk == FindCursor \/ FindPage \/ AskMore \/ Stop

(***************************************************************************)
(* What other requests do to the table meanwhile.                          *)
(***************************************************************************)

Written(changed) ==
  /\ pc # "done" /\ writes < MaxWrites
  /\ writes' = writes + 1
  /\ kept' = kept \ changed
  /\ torn' = (torn \/ pc = "counted")
  /\ UNCHANGED client

Create ==
  /\ lastId < MaxId
  /\ lastId' = lastId + 1 /\ rows' = rows \cup {lastId + 1}
  /\ Written({})
  /\ UNCHANGED likes

Remove(m) ==
  /\ m \in rows /\ rows' = rows \ {m}
  /\ Written({m})
  /\ UNCHANGED <<likes, lastId>>

Like(m, n) ==
  /\ m \in rows /\ n \in {likes[m] - 1, likes[m] + 1} \cap (0 .. MaxLikes)
  /\ likes' = [likes EXCEPT ![m] = n]
  /\ Written(IF \E i \in 1 .. Len(order) : order[i].col = "likeCount" THEN {m} ELSE {})
  /\ UNCHANGED <<rows, lastId>>

Next ==
  \/ Walk
  \/ Create
  \/ \E m \in Movies : Remove(m) \/ \E n \in 0 .. MaxLikes : Like(m, n)

Safe == Init /\ [][Next]_vars

\* Requests are answered and the client asks for the next page; nobody has to write.
Spec == Safe /\ WF_vars(Walk)

(***************************************************************************)
(* What paging through the list promises.                                  *)
(***************************************************************************)

\* However the list changes between the pages, a movie that was there all along and
\* kept its place is given to the client once, and not missed once the walk is over
\* (the cursor is a key, not an offset).  Only a write between the two queries of one
\* page, which take the cursor and the rows from different lists, breaks this.
EveryMovieOnce == ~ torn => \A m \in (IF search THEN kept \cap Wanted ELSE kept) :
  /\ times[m] <= 1
  /\ pc = "done" => times[m] = 1

\* Pages come in the order asked for: every row of a page sorts after every row of
\* the pages before, deletions, new movies and moving like counts notwithstanding.
PagesInOrder == [][~ torn /\ pc = "counted" /\ pc' = "got" =>
  \A k \in keys, l \in {Key(m) : m \in Page} : Precedes(k, l)]_vars

\* The walk ends, however pages are torn: nextCursor never points back.
WalkEnds == <>(pc = "done")
=============================================================================
