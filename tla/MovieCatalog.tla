---------------------------- MODULE MovieCatalog ----------------------------
(***************************************************************************)
(* The catalog: MovieService.create and update inside the transaction that *)
(* TransactionInterceptor opens around them, remove in none, the file a    *)
(* new movie is given, and the genres and directors deleted meanwhile.     *)
(*                                                                         *)
(* An action is one statement or one file operation.  What a transaction   *)
(* has written is known from where it stands (pc) and what it was asked    *)
(* (Body), and reaches the tables at Commit; a statement that meets a row  *)
(* another transaction has written waits for it, as PostgreSQL does.       *)
(***************************************************************************)
EXTENDS Integers, FiniteSets

CONSTANTS
  Creates, Updates, Removes,   \* requests; a movie takes the name of its POST
  OldMovies,                   \* movies of earlier days
  Genres, Directors, Titles, Files,
  Body,                        \* of an old movie, a POST or a PATCH; None: field absent
  Target,                      \* the movie a PATCH or DELETE names
  Doomed,                      \* genres and directors an admin may delete
  Fragile,                     \* requests whose statements may fail
  None

ASSUME CatalogAssumption ==
  /\ IsFiniteSet(Creates \cup Updates \cup Removes)
  /\ Creates \cap (OldMovies \cup Updates \cup Removes) = {} /\ Updates \cap Removes = {}
  /\ Body \in [OldMovies \cup Creates \cup Updates ->
               [title : Titles \cup {None}, director : Directors \cup {None},
                genres : SUBSET Genres, file : Files \cup {None}]]
  /\ \A c \in OldMovies \cup Creates :
       Body[c].title # None /\ Body[c].director # None /\ Body[c].file # None
  /\ \A m, n \in OldMovies : Body[m].title = Body[n].title => m = n
  /\ Target \in [Updates \cup Removes -> OldMovies \cup Creates]
  /\ Doomed \subseteq Genres \cup Directors
  /\ None \notin Titles \cup Directors \cup Files

MovieIds == OldMovies \cup Creates
Writers  == Creates \cup Updates      \* the requests that run in a transaction
Requests == Writers \cup Removes

VARIABLES
  prod,       \* ENV: files are on S3 rather than on disk
  movie,      \* movie rows
  detail,     \* movie_detail rows, each named after its movie
  links,      \* movie_genres_genre
  genreRows,
  directors,
  places,     \* the folders (public/temp, public/movie) a file is in
  pc,         \* next statement of a request
  seen,       \* movie.genres as update read it
  answer,     \* the response sent
  shown       \* the movie a POST or PATCH answered with

tables   == <<movie, detail, links, genreRows, directors>>
response == <<answer, shown>>
vars     == <<prod, tables, places, pc, seen, response>>

Stages  == {"start", "findDirector", "findGenres", "write", "link", "move", "erase",
            "reread", "commit", "deleteMovie", "deleteDetail"}
Settled == {"done", "failed", "lost"}
Rows    == [title : Titles, director : Directors]
NoRow   == [title |-> None, director |-> None]
RowOf(body) == [title |-> body.title, director |-> body.director]
\* A movie with its relations, as a response has it.
Movies  == [row : Rows \cup {NoRow}, genres : SUBSET Genres]
NoMovie == [row |-> NoRow, genres |-> {}]

TypeOK ==
  /\ prod \in BOOLEAN
  /\ movie  \in [MovieIds -> Rows \cup {NoRow}]
  /\ detail \in SUBSET MovieIds
  /\ links  \in [MovieIds -> SUBSET Genres]
  /\ genreRows \in SUBSET Genres /\ directors \in SUBSET Directors
  /\ places \in [Files -> SUBSET {"temp", "movie"}]
  /\ pc     \in [Requests -> Stages \cup Settled]
  /\ seen   \in [Updates -> SUBSET Genres]
  /\ answer \in [Requests -> {"none", "ok", "null", "error"}]
  /\ shown  \in [Writers -> Movies]

Init ==
  /\ prod \in BOOLEAN
  /\ movie  = [m \in MovieIds |-> IF m \in OldMovies THEN RowOf(Body[m]) ELSE NoRow]
  /\ detail = OldMovies
  /\ links  = [m \in MovieIds |-> IF m \in OldMovies THEN Body[m].genres ELSE {}]
  /\ genreRows = Genres /\ directors = Directors
  /\ places = [f \in Files |-> IF \E m \in OldMovies : Body[m].file = f
                               THEN {"movie"} ELSE {"temp"}]
  /\ pc     = [q \in Requests |-> "start"]
  /\ seen   = [u \in Updates |-> {}]
  /\ answer = [q \in Requests |-> "none"]
  /\ shown  = [q \in Writers |-> NoMovie]

Stored(m) == movie[m] # NoRow

\* Requests whose transaction has written a movie row it has not committed.
\* Mutant: a failed request never rolls back.
OpenLeaky(q) ==
  /\ q \in Writers /\ pc[q] \in {"link", "move", "erase", "reread", "commit", "failed"}
  /\ q \in Updates => Stored(Target[q])
Open(q) == /\ q \in Writers /\ pc[q] \in {"link", "move", "erase", "reread", "commit"}
           /\ q \in Updates => Stored(Target[q])

\* The titles and the links such a transaction keeps others waiting on.
TitlesHeld(q) == {Body[q].title} \cup (IF q \in Updates THEN {movie[Target[q]].title} ELSE {})
LinksHeld(q)  == pc[q] # "link" /\ Open(q)

Goto(q, from, to) ==
  /\ pc[q] = from
  /\ pc' = [pc EXCEPT ![q] = to]

(***************************************************************************)
(* create and update, inside their transactions.                           *)
(***************************************************************************)

\* update reads the movie with its genres before anything else.
FindMovie(u) ==
  /\ Goto(u, "start", "findDirector") /\ Stored(Target[u])
  /\ seen' = [seen EXCEPT ![u] = links[Target[u]]]
  /\ UNCHANGED <<prod, tables, places, response>>

\* A director is looked up when the body names one.
FindDirector(q) ==
  /\ Goto(q, IF q \in Creates THEN "start" ELSE "findDirector", "findGenres")
  /\ Body[q].director \in directors \cup {None}
  /\ UNCHANGED <<prod, tables, places, seen, response>>

FindGenres(q) ==
  /\ Goto(q, "findGenres", "write")
  /\ Body[q].genres \subseteq genreRows
  /\ UNCHANGED <<prod, tables, places, seen, response>>

\* No open transaction holds what this write touches.
NoWait(q) ==
  /\ \A p \in Writers \ {q} : Open(p) => TitlesHeld(p) \cap ({Body[q].title} \ {None}) = {}
  /\ q \in Updates => \A u \in Updates \ {q} : Open(u) => Target[u] # Target[q]

\* The unique title and the director's foreign key.
Accepted(q) ==
  /\ Body[q].director \in directors \cup {None}
  /\ \A m \in MovieIds : (Stored(m) /\ (q \in Updates => m # Target[q]))
                            => movie[m].title # Body[q].title

\* INSERT movie_detail and movie, or UPDATE movie and movie_detail; an UPDATE finds
\* nothing to change, and nothing wrong, when the movie is gone.
Write(q) ==
  /\ Goto(q, "write", "link")
  /\ (q \in Updates /\ ~ Stored(Target[q])) \/ (NoWait(q) /\ Accepted(q))
  /\ UNCHANGED <<prod, tables, places, seen, response>>

\* createMovieGenreRelation, or addAndRemove with the genres read at the start; a
\* link that is there already breaks the primary key.
Linkable(q) ==
  \/ q \in Creates /\ Body[q].genres \subseteq genreRows
  \/ q \in Updates /\ Body[q].genres = {}
  \/ /\ q \in Updates /\ Stored(Target[q]) /\ Body[q].genres \subseteq genreRows
     /\ Body[q].genres \cap (links[Target[q]] \ seen[q]) = {}

Link(q) ==
  /\ Goto(q, "link", IF q \in Creates THEN "move" ELSE "reread")
  /\ Linkable(q)
  /\ UNCHANGED <<prod, tables, places, seen, response>>

\* renameMovieFile: one rename on disk; on S3 a copy and then a delete.
\* Mutants: renamed within temp; deleted before the copy is there.
MovedInTemp(f) == places[f]
CopiedLate(f)  == places[f]
Moved(f)  == (places[f] \ {"temp"}) \cup {"movie"}
Copied(f) == places[f] \cup {"movie"}
Missing(c) == "temp" \notin places[Body[c].file]

Move(c) ==
  LET f == Body[c].file IN
  /\ ~ Missing(c)
  /\ \/ ~ prod /\ Goto(c, "move", "reread") /\ places' = [places EXCEPT ![f] = Moved(f)]
     \/ prod   /\ Goto(c, "move", "erase")  /\ places' = [places EXCEPT ![f] = Copied(f)]
  /\ UNCHANGED <<prod, tables, seen, response>>

Erase(c) ==
  /\ Goto(c, "erase", "reread")
  /\ places' = [places EXCEPT ![Body[c].file] = @ \ {"temp"}]
  /\ UNCHANGED <<prod, tables, seen, response>>

\* What the tables hold once the transaction is in.
\* Mutant: absent fields are written too.
PatchedWhole(u) == RowOf(Body[u])
Patched(u) ==
  LET old == movie[Target[u]] IN
  [title    |-> IF Body[u].title = None THEN old.title ELSE Body[u].title,
   director |-> IF Body[u].director = None THEN old.director ELSE Body[u].director]
Relinked(u) == IF Body[u].genres = {} THEN links[Target[u]]
               ELSE (links[Target[u]] \ seen[u]) \cup Body[u].genres

\* The movie as the transaction of a POST or PATCH has it: the tables and, over them,
\* what it has written.
\* Mutant: it is read through the repository, on a connection of its own.
Mine(q) == IF q \in Creates THEN q ELSE Target[q]
Outside(q) == [row |-> movie[Mine(q)], genres |-> links[Mine(q)]]
Inside(q) ==
  IF q \in Creates THEN [row |-> RowOf(Body[q]), genres |-> Body[q].genres]
  ELSE IF Stored(Target[q]) THEN [row |-> Patched(q), genres |-> Relinked(q)]
  ELSE NoMovie

\* The movie is read back and the response goes out; tap only starts the COMMIT.
Reread(q) ==
  /\ Goto(q, "reread", "commit")
  /\ shown'  = [shown EXCEPT ![q] = Inside(q)]
  /\ answer' = [answer EXCEPT ![q] =
       IF q \in Updates /\ ~ Stored(Target[q]) THEN "null" ELSE "ok"]
  /\ UNCHANGED <<prod, tables, places, seen>>

CommitCreate(c) ==
  /\ Goto(c, "commit", "done")
  /\ movie'  = [movie EXCEPT ![c] = RowOf(Body[c])]
  /\ detail' = detail \cup {c}
  /\ links'  = [links EXCEPT ![c] = Body[c].genres]
  /\ UNCHANGED <<prod, genreRows, directors, places, seen, response>>

CommitUpdate(u) ==
  /\ Goto(u, "commit", "done")
  /\ IF Stored(Target[u])
     THEN /\ movie' = [movie EXCEPT ![Target[u]] = Patched(u)]
          /\ links' = [links EXCEPT ![Target[u]] = Relinked(u)]
     ELSE UNCHANGED <<movie, links>>
  /\ UNCHANGED <<prod, detail, genreRows, directors, places, seen, response>>

(***************************************************************************)
(* remove: each statement commits on its own.                              *)
(***************************************************************************)

FindDoomed(r) ==
  /\ Goto(r, "start", "deleteMovie") /\ Stored(Target[r])
  /\ UNCHANGED <<prod, tables, places, seen, response>>

\* deleteMovie, and the second delete of the same id that finds nothing; the links
\* go with the row, the detail it refers to does not.
DeleteMovie(r) ==
  /\ Goto(r, "deleteMovie", "deleteDetail")
  /\ \A u \in Updates : Open(u) => Target[u] # Target[r]
  /\ movie' = [movie EXCEPT ![Target[r]] = NoRow]
  /\ links' = [links EXCEPT ![Target[r]] = {}]
  /\ UNCHANGED <<prod, detail, genreRows, directors, places, seen, response>>

DetailsLeft(r) == detail \ {Target[r]}

DeleteDetail(r) ==
  /\ Goto(r, "deleteDetail", "done")
  /\ detail' = DetailsLeft(r)
  /\ answer' = [answer EXCEPT ![r] = "ok"]
  /\ UNCHANGED <<prod, movie, links, genreRows, directors, places, seen, shown>>

(***************************************************************************)
(* Errors, and the admin's other deletions.                                *)
(***************************************************************************)

Refused(q) ==
  \/ pc[q] = "start" /\ q \in Updates \cup Removes /\ ~ Stored(Target[q])
  \/ /\ pc[q] = (IF q \in Creates THEN "start" ELSE "findDirector") /\ q \in Writers
     /\ Body[q].director \notin directors \cup {None}
  \/ pc[q] = "findGenres" /\ ~ Body[q].genres \subseteq genreRows
  \/ /\ pc[q] = "write" /\ (q \in Updates => Stored(Target[q]))
     /\ NoWait(q) /\ ~ Accepted(q)
  \/ pc[q] = "link" /\ ~ Linkable(q)
  \/ pc[q] = "move" /\ Missing(q)

\* Mutant: the error is swallowed.
Swallowed   == "ok"
ErrorAnswer == "error"

RollBack(q) ==
  /\ pc'     = [pc EXCEPT ![q] = "failed"]
  /\ answer' = [answer EXCEPT ![q] = ErrorAnswer]
  /\ UNCHANGED <<prod, tables, places, seen, shown>>

\* catchError rolls back and releases; what is done to the files stays done.
Throw(q) == Refused(q) /\ RollBack(q)

\* The database or the file store fails the operation that is running.
Fail(q) == q \in Fragile /\ pc[q] \notin Settled \cup {"commit"} /\ RollBack(q)

\* A COMMIT that fails rejects inside the async tap, an unhandled rejection on which
\* Node exits; every transaction that was open is rolled back.
Crash ==
  /\ \E q \in Fragile : pc[q] = "commit"
  /\ pc' = [q \in Requests |-> IF pc[q] \in Settled \cup {"start"} THEN pc[q] ELSE "lost"]
  /\ UNCHANGED <<prod, tables, places, seen, response>>

\* GenreService.remove: the links to it go with the genre.
RemoveGenre(g) ==
  /\ g \in Doomed \cap genreRows
  /\ \A q \in Writers : LinksHeld(q) => g \notin Body[q].genres \cup
       (IF q \in Updates /\ Body[q].genres # {} THEN seen[q] \cap links[Target[q]] ELSE {})
  /\ genreRows' = genreRows \ {g}
  /\ links'     = [m \in MovieIds |-> links[m] \ {g}]
  /\ UNCHANGED <<prod, movie, detail, directors, places, pc, seen, response>>

\* DirectorService.remove: refused while a movie refers to the director.
RemoveDirector(d) ==
  /\ d \in Doomed \cap directors
  /\ \A m \in MovieIds : movie[m].director # d
  /\ \A q \in Writers : Open(q) => Body[q].director # d
  /\ directors' = directors \ {d}
  /\ UNCHANGED <<prod, movie, detail, links, genreRows, places, pc, seen, response>>

Create(c) ==
  \/ FindDirector(c) \/ FindGenres(c) \/ Write(c) \/ Link(c) \/ Move(c) \/ Erase(c)
  \/ Reread(c) \/ CommitCreate(c) \/ Throw(c)
Update(u) ==
  \/ FindMovie(u) \/ FindDirector(u) \/ FindGenres(u) \/ Write(u) \/ Link(u)
  \/ Reread(u) \/ CommitUpdate(u) \/ Throw(u)
Remove(r) == FindDoomed(r) \/ DeleteMovie(r) \/ DeleteDetail(r) \/ Throw(r)

Handling ==
  \/ \E c \in Creates : Create(c)
  \/ \E u \in Updates : Update(u)
  \/ \E r \in Removes : Remove(r)

Next ==
  \/ Handling
  \/ \E q \in Requests : Fail(q)
  \/ \E x \in Doomed   : RemoveGenre(x) \/ RemoveDirector(x)
  \/ Crash

Safe == Init /\ [][Next]_vars

\* While a request can go on, some request does: Node and the database are never idle
\* with work at hand.  Deletions and faults need not happen.
Spec == Safe /\ WF_vars(Handling)

(***************************************************************************)
(* What the catalog promises.                                              *)
(***************************************************************************)

\* Whatever is deleted beside it, a stored movie is whole: its detail, director and
\* genres exist, its file is in public/movie, and no other movie has its title.
WholeMovie == \A m \in MovieIds : Stored(m) =>
  /\ m \in detail /\ movie[m].director \in directors /\ links[m] \subseteq genreRows
  /\ "movie" \in places[Body[m].file]
  /\ \A n \in MovieIds \ {m} : movie[n].title # movie[m].title

\* An uploaded file is always in one of the two folders, whichever request fails, is
\* repeated with the same file name or stops half way.
NoFileLost == \A f \in Files : places[f] # {}

\* A POST or PATCH that was answered with its movie is committed, or about to be, or
\* lost with the process; one that failed never shows in the catalog.
AnswerHolds == \A q \in Writers :
  /\ answer[q] = "ok" => pc[q] \in {"commit", "done", "lost"}
  /\ q \in Creates /\ Stored(q) => pc[q] = "done" /\ answer[q] = "ok"

\* What a POST or PATCH answered is what its COMMIT, several statements of others later,
\* leaves in the tables: the row and the genres, those deleted since aside.
CommitsWhatItShowed == [][\A q \in Writers :
  (pc[q] = "commit" /\ pc'[q] = "done" /\ answer[q] = "ok") =>
    /\ movie'[Mine(q)] = shown[q].row
    /\ links'[Mine(q)] = shown[q].genres \cap genreRows]_vars

\* A PATCH that names genres answers with these (movie.e2e.spec.ts 249).
GenresAsAsked == \A u \in Updates :
  (pc[u] = "commit" /\ answer[u] = "ok" /\ Body[u].genres # {}) => shown[u].genres = Body[u].genres

\* Every request is answered or lost: no transaction waits on another for ever.
EveryRequestEnds == <>(\A q \in Requests : pc[q] \in Settled)
=============================================================================
