------------------------ MODULE MovieCatalog_proofs -------------------------
(***************************************************************************)
(* Proofs about the catalog, for any requests, movies, files and deletions.*)
(* WholeMovie is not inductive: what an open transaction is about to write *)
(* has to be kept possible for it, by the waits and the checks of the      *)
(* others.  The invariant says what is kept: the rows it refers to (Kept), *)
(* its title (TitlesFree, Apart), its file (Shelved), and that a movie     *)
(* deleted or rolled back does not come back (Arrived, Gone).              *)
(***************************************************************************)
EXTENDS MovieCatalog, TLAPS

Opened == {"link", "move", "erase", "reread", "commit"}

\* The answers keep step with the transactions.
Answered ==
  /\ \A q \in Writers : answer[q] = "ok" => pc[q] \in {"commit", "done", "lost"}
  /\ \A c \in Creates : pc[c] \in {"commit", "done"} => answer[c] = "ok"

\* A POST's movie is there only once its transaction is in, and whoever works on it has
\* found it there.
Arrived ==
  /\ \A c \in Creates : Stored(c) => pc[c] = "done"
  /\ \A q \in Updates \cup Removes : (pc[q] \notin Settled \cup {"start"} /\ Target[q] \in Creates)
                                        => pc[Target[q]] = "done"

\* A row that a DELETE has removed stays away.
Gone == \A r \in Removes : pc[r] = "deleteDetail" => ~ Stored(Target[r])

\* No file leaves public/movie, and a movie's file is there from the rename on.
Shelved ==
  /\ \A m \in OldMovies : "movie" \in places[Body[m].file]
  /\ \A c \in Creates : pc[c] \in {"erase", "reread", "commit", "done"}
                           => "movie" \in places[Body[c].file]

\* What an open transaction refers to is kept for it.
Kept == \A q \in Writers :
  /\ Open(q) => Body[q].director \in directors \cup {None}
  /\ LinksHeld(q) => Body[q].genres \subseteq genreRows

\* No stored movie has the title an open transaction writes, the one it changes aside.
TitlesFree == \A q \in Writers : Open(q) => \A m \in MovieIds :
  (Stored(m) /\ (q \in Updates => m # Target[q])) => movie[m].title # Body[q].title

\* Two open transactions write different titles and different movies.
Apart == \A p, q \in Writers : (p # q /\ Open(p) /\ Open(q)) =>
  /\ Body[p].title = Body[q].title => Body[p].title = None
  /\ p \in Updates /\ q \in Updates => Target[p] # Target[q]

CatalogInv ==
  TypeOK /\ NoFileLost /\ Answered /\ Arrived /\ Gone /\ Shelved /\ Kept /\ TitlesFree /\ Apart
  /\ WholeMovie

\* The shapes of what a request asks for, and where it runs.
LEMMA Asked ==
  /\ \A q \in Writers : /\ q \in Requests
                        /\ Body[q].title \in Titles \cup {None}
                        /\ Body[q].director \in Directors \cup {None}
                        /\ Body[q].genres \in SUBSET Genres
                        /\ Body[q].file \in Files \cup {None}
  /\ \A m \in MovieIds : /\ Body[m].title \in Titles /\ Body[m].director \in Directors
                         /\ Body[m].genres \in SUBSET Genres /\ Body[m].file \in Files
  /\ \A q \in Updates \cup Removes : q \in Requests /\ Target[q] \in MovieIds
  /\ None \notin Titles \cup Directors \cup Files
BY CatalogAssumption DEF Writers, Requests, MovieIds

\* A row is either stored, with a title and a director, or absent.
LEMMA StoredRow ==
  ASSUME TypeOK, NEW m \in MovieIds
  PROVE  /\ Stored(m) => movie[m] \in Rows /\ movie[m].title \in Titles
                         /\ movie[m].director \in Directors
         /\ ~ Stored(m) => movie[m].title = None /\ movie[m].director = None
<1>1. movie[m] \in Rows \cup {NoRow}
  BY DEF TypeOK
<1>2. CASE movie[m] = NoRow
  BY <1>2 DEF Stored, NoRow
<1>3. CASE movie[m] # NoRow
  BY <1>1, <1>3 DEF Stored, Rows
<1> QED
  BY <1>2, <1>3

\* What a transaction reads back of its movie is a row, or none, and its genres.
LEMMA Shows ==
  ASSUME TypeOK, NEW q \in Writers
  PROVE  Inside(q) \in Movies
<1>1. CASE q \in Creates
  <2>1. RowOf(Body[q]) \in Rows /\ Body[q].genres \in SUBSET Genres
    BY <1>1, Asked DEF RowOf, Rows, MovieIds
  <2> QED
    BY <1>1, <2>1 DEF Inside, Movies
<1>2. CASE q \notin Creates
  <2>1. q \in Updates /\ Target[q] \in MovieIds /\ Body[q].genres \in SUBSET Genres
    BY <1>2, Asked DEF Writers
  <2>2. Relinked(q) \in SUBSET Genres
    BY <2>1 DEF Relinked, TypeOK
  <2>3. CASE Stored(Target[q])
    <3>1. Patched(q) \in Rows
      BY <2>1, <2>3, Asked, StoredRow DEF Patched, Rows
    <3> QED
      BY <1>2, <2>2, <2>3, <3>1 DEF Inside, Movies
  <2>4. CASE ~ Stored(Target[q])
    BY <1>2, <2>4 DEF Inside, Movies, NoMovie
  <2> QED
    BY <2>3, <2>4
<1> QED
  BY <1>1, <1>2

\* The day starts in the invariant.
LEMMA CatalogStarts == Init => CatalogInv
<1> SUFFICES ASSUME Init PROVE CatalogInv
  OBVIOUS
<1>1. TypeOK
  <2>1. movie \in [MovieIds -> Rows \cup {NoRow}]
    <3>1. \A m \in MovieIds : RowOf(Body[m]) \in Rows
      BY Asked DEF RowOf, Rows
    <3> QED
      BY <3>1 DEF Init
  <2>2. links \in [MovieIds -> SUBSET Genres]
    BY Asked DEF Init
  <2>3. pc \in [Requests -> Stages \cup Settled]
    BY DEF Init, Stages
  <2>4. shown \in [Writers -> Movies]
    BY DEF Init, Movies, NoMovie
  <2> QED
    BY <2>1, <2>2, <2>3, <2>4 DEF Init, TypeOK, MovieIds
<1>2. \A q \in Writers : ~ Open(q)
  BY Asked DEF Open, Init
<1>3. \A m \in MovieIds : Stored(m) => m \in OldMovies /\ movie[m] = RowOf(Body[m])
  BY DEF Init, Stored
<1>4. NoFileLost /\ Answered /\ Gone /\ Shelved
  <2>1. \A q \in Requests : pc[q] = "start" /\ answer[q] = "none"
    BY DEF Init
  <2>2. \A m \in OldMovies : places[Body[m].file] = {"movie"}
    BY Asked DEF Init, MovieIds
  <2>3. NoFileLost
    BY DEF Init, NoFileLost
  <2> QED
    BY <2>1, <2>2, <2>3 DEF Answered, Gone, Shelved, Writers, Requests
<1>5. Arrived
  <2>1. \A c \in Creates : ~ Stored(c)
    BY <1>3, CatalogAssumption DEF MovieIds
  <2>2. \A q \in Updates \cup Removes : pc[q] = "start"
    BY Asked DEF Init
  <2> QED
    BY <2>1, <2>2 DEF Arrived
<1>6. Kept /\ TitlesFree /\ Apart
  BY <1>2 DEF Kept, TitlesFree, Apart, LinksHeld
<1>7. WholeMovie
  <2> SUFFICES ASSUME NEW m \in MovieIds, Stored(m)
               PROVE  /\ m \in detail /\ movie[m].director \in directors
                      /\ links[m] \subseteq genreRows /\ "movie" \in places[Body[m].file]
                      /\ \A n \in MovieIds \ {m} : movie[n].title # movie[m].title
    BY DEF WholeMovie
  <2>1. m \in OldMovies /\ movie[m] = RowOf(Body[m])
    BY <1>3
  <2>2. m \in detail /\ links[m] \subseteq genreRows /\ "movie" \in places[Body[m].file]
    BY <2>1, <1>4, Asked DEF Init, Shelved
  <2>3. movie[m].title = Body[m].title /\ movie[m].director = Body[m].director
    BY <2>1 DEF RowOf
  <2>4. movie[m].director \in directors
    BY <2>3, Asked DEF Init
  <2>5. ASSUME NEW n \in MovieIds, n # m PROVE movie[n].title # movie[m].title
    <3>1. CASE Stored(n)
      <4>1. n \in OldMovies /\ movie[n] = RowOf(Body[n])
        BY <3>1, <1>3, <2>5
      <4>2. movie[n].title = Body[n].title
        BY <4>1 DEF RowOf
      <4> QED
        BY <4>1, <4>2, <2>1, <2>3, <2>5, CatalogAssumption
    <3>2. CASE ~ Stored(n)
      BY <3>2, <1>1, <2>3, Asked, StoredRow
    <3> QED
      BY <3>1, <3>2
  <2> QED
    BY <2>2, <2>4, <2>5
<1> QED
  BY <1>1, <1>4, <1>5, <1>6, <1>7 DEF CatalogInv

\* A step of one request that leaves the tables as they are.
LEMMA QuietStep ==
  ASSUME CatalogInv, TypeOK', NEW q \in Requests, NEW to \in Stages \cup Settled,
         pc[q] \notin Settled,
         pc' = [pc EXCEPT ![q] = to], UNCHANGED <<tables>>,
         \A p \in Requests \ {q} : answer'[p] = answer[p],
         q \in Writers /\ answer'[q] = "ok" => to \in {"commit", "done", "lost"},
         q \in Creates /\ to \in {"commit", "done"} => answer'[q] = "ok",
         \A f \in Files : places'[f] # {} /\ ("movie" \in places[f] => "movie" \in places'[f]),
         q \in Creates /\ to \in {"erase", "reread", "commit", "done"}
           => "movie" \in places'[Body[q].file],
         q \in Updates \cup Removes /\ pc[q] = "start" /\ to \notin Settled \cup {"start"}
           => Stored(Target[q]),
         q \in Removes => to # "deleteDetail",
         q \in Writers /\ to \in Opened /\ pc[q] \notin Opened
           => (q \in Updates /\ ~ Stored(Target[q])) \/ (NoWait(q) /\ Accepted(q)),
         q \in Writers /\ to \in Opened \ {"link"} /\ pc[q] \notin Opened \ {"link"}
           => pc[q] = "link" /\ Linkable(q)
  PROVE  CatalogInv'
<1> USE DEF CatalogInv
<1>a. /\ pc'[q] = to /\ \A p \in Requests \ {q} : pc'[p] = pc[p]
      /\ movie' = movie /\ detail' = detail /\ links' = links
      /\ genreRows' = genreRows /\ directors' = directors
  BY DEF tables, TypeOK
<1>b. \A m \in MovieIds : Stored(m)' <=> Stored(m)
  BY <1>a DEF Stored
<1>c. \A p \in Writers \ {q} : (Open(p)' <=> Open(p)) /\ (LinksHeld(p)' <=> LinksHeld(p))
  BY <1>a, <1>b, Asked DEF Open, LinksHeld
<1>d. Open(q)' => /\ q \in Writers /\ q \in Updates => Stored(Target[q])
                  /\ Open(q) \/ (pc[q] \notin Opened /\ NoWait(q) /\ Accepted(q))
  BY <1>a, <1>b, Asked DEF Open, Opened
<1>e. LinksHeld(q)' => LinksHeld(q) \/ Linkable(q)
  BY <1>a, <1>b, Asked DEF Open, Opened, LinksHeld
<1>1. NoFileLost' /\ Answered' /\ Shelved'
  <2>1. NoFileLost'
    BY DEF NoFileLost
  <2>2. Answered'
    BY <1>a, Asked DEF Answered, Writers
  <2>3. Shelved'
    BY <1>a, Asked DEF Shelved, MovieIds, Writers
  <2> QED
    BY <2>1, <2>2, <2>3
<1>2. Arrived'
  <2>1. \A c \in Creates : pc[c] = "done" => pc'[c] = "done"
    BY <1>a, Asked DEF Settled, Writers
  <2>2. \A c \in Creates : Stored(c)' => pc'[c] = "done"
    BY <2>1, <1>b DEF Arrived, MovieIds
  <2>3. ASSUME NEW p \in Updates \cup Removes, pc'[p] \notin Settled \cup {"start"},
               Target[p] \in Creates
        PROVE  pc'[Target[p]] = "done"
    <3>1. CASE p = q /\ pc[p] = "start"
      BY <3>1, <2>3, <2>1, <1>a DEF Arrived
    <3>2. CASE p = q /\ pc[p] # "start"
      BY <3>2, <2>3, <2>1, <1>a DEF Arrived
    <3>3. CASE p # q
      BY <3>3, <2>3, <2>1, <1>a, Asked DEF Arrived
    <3> QED
      BY <3>1, <3>2, <3>3
  <2> QED
    BY <2>2, <2>3 DEF Arrived
<1>3. Gone'
  BY <1>a, <1>b, Asked DEF Gone
<1>4. Kept'
  <2>1. ASSUME NEW p \in Writers, Open(p)' PROVE Body[p].director \in directors' \cup {None}
    BY <2>1, <1>a, <1>c, <1>d DEF Kept, Accepted
  <2>2. ASSUME NEW p \in Writers, LinksHeld(p)' PROVE Body[p].genres \subseteq genreRows'
    BY <2>2, <1>a, <1>c, <1>e DEF Kept, Linkable
  <2> QED
    BY <2>1, <2>2 DEF Kept
<1>5. TitlesFree'
  <2> SUFFICES ASSUME NEW p \in Writers, Open(p)', NEW m \in MovieIds, Stored(m)',
                      p \in Updates => m # Target[p]
               PROVE  movie'[m].title # Body[p].title
    BY DEF TitlesFree
  <2> QED
    BY <1>a, <1>b, <1>c, <1>d DEF TitlesFree, Accepted
<1>6. Apart'
  <2> SUFFICES ASSUME NEW p \in Writers, NEW w \in Writers, p # w, Open(p)', Open(w)'
               PROVE  /\ Body[p].title = Body[w].title => Body[p].title = None
                      /\ p \in Updates /\ w \in Updates => Target[p] # Target[w]
    BY DEF Apart
  <2>1. CASE Open(p) /\ Open(w)
    BY <2>1 DEF Apart
  <2>2. CASE ~ Open(p)
    BY <2>2, <1>c, <1>d DEF NoWait, TitlesHeld
  <2>3. CASE ~ Open(w)
    BY <2>3, <1>c, <1>d DEF NoWait, TitlesHeld
  <2> QED
    BY <2>1, <2>2, <2>3
<1>7. WholeMovie'
  BY <1>a, <1>b, Asked DEF WholeMovie
<1> QED
  BY <1>1, <1>2, <1>3, <1>4, <1>5, <1>6, <1>7
\* Every step keeps the shapes.
LEMMA TypeKept == TypeOK /\ [Next]_vars => TypeOK'
<1> SUFFICES ASSUME TypeOK, [Next]_vars PROVE TypeOK'
  OBVIOUS
<1> DEFINE PcOK == pc' \in [Requests -> Stages \cup Settled]
           AnswerOK == answer' \in [Requests -> {"none", "ok", "null", "error"}]
<1>a. ASSUME NEW q, NEW from, NEW to \in Stages \cup Settled, Goto(q, from, to) PROVE PcOK
  BY <1>a DEF Goto, TypeOK
<1>b. /\ {"findDirector", "findGenres", "write", "link", "move", "erase", "reread", "commit",
          "deleteMovie", "deleteDetail", "done", "failed", "lost"} \subseteq Stages \cup Settled
      /\ \A q \in Requests : pc[q] \in Stages \cup Settled
  BY DEF Stages, Settled, TypeOK
<1>c. ASSUME NEW q \in Requests, RollBack(q) PROVE TypeOK'
  <2>1. PcOK /\ AnswerOK
    BY <1>b, <1>c DEF RollBack, TypeOK, ErrorAnswer
  <2> QED
    BY <1>c, <2>1 DEF RollBack, TypeOK, tables
<1>d. ASSUME NEW q \in Writers, FindDirector(q) \/ FindGenres(q) \/ Write(q) \/ Link(q) \/ Reread(q)
      PROVE  TypeOK'
  <2>1. PcOK
    <3>1. CASE FindDirector(q)
      BY <3>1, <1>a, <1>b DEF FindDirector
    <3>2. CASE FindGenres(q)
      BY <3>2, <1>a, <1>b DEF FindGenres
    <3>3. CASE Write(q)
      BY <3>3, <1>a, <1>b DEF Write
    <3>4. CASE Link(q) /\ q \in Creates
      BY <3>4, <1>a, <1>b DEF Link
    <3>5. CASE Link(q) /\ q \notin Creates
      BY <3>5, <1>a, <1>b DEF Link
    <3>6. CASE Reread(q)
      BY <3>6, <1>a, <1>b DEF Reread
    <3> QED
      BY <1>d, <3>1, <3>2, <3>3, <3>4, <3>5, <3>6
  <2>2. AnswerOK
    BY <1>d DEF FindDirector, FindGenres, Write, Link, Reread, TypeOK, response
  <2>3. shown' \in [Writers -> Movies]
    BY <1>d, Shows DEF FindDirector, FindGenres, Write, Link, Reread, TypeOK, response
  <2> QED
    BY <1>d, <2>1, <2>2, <2>3 DEF FindDirector, FindGenres, Write, Link, Reread, TypeOK, tables
<1>1. ASSUME NEW c \in Creates, Create(c) PROVE TypeOK'
  <2>1. CASE Move(c) \/ Erase(c)
    <3>1. PcOK
      BY <2>1, <1>a, <1>b DEF Move, Erase
    <3>2. places' \in [Files -> SUBSET {"temp", "movie"}]
      BY <2>1 DEF Move, Erase, Moved, Copied, TypeOK
    <3> QED
      BY <2>1, <3>1, <3>2 DEF Move, Erase, TypeOK, tables, response
  <2>2. CASE CommitCreate(c)
    <3>1. PcOK
      BY <2>2, <1>a, <1>b DEF CommitCreate
    <3>2. c \in MovieIds /\ RowOf(Body[c]) \in Rows /\ Body[c].genres \in SUBSET Genres
      BY Asked DEF RowOf, Rows, MovieIds
    <3>3. movie' \in [MovieIds -> Rows \cup {NoRow}] /\ links' \in [MovieIds -> SUBSET Genres]
          /\ detail' \in SUBSET MovieIds
      BY <2>2, <3>2 DEF CommitCreate, TypeOK
    <3> QED
      BY <2>2, <3>1, <3>3 DEF CommitCreate, TypeOK, response
  <2> QED
    BY <1>1, <1>c, <1>d, <2>1, <2>2 DEF Create, Throw, Writers, Requests
<1>2. ASSUME NEW u \in Updates, Update(u) PROVE TypeOK'
  <2>1. CASE FindMovie(u)
    <3>1. PcOK
      BY <2>1, <1>a, <1>b DEF FindMovie
    <3>2. seen' \in [Updates -> SUBSET Genres]
      BY <2>1, Asked DEF FindMovie, TypeOK
    <3> QED
      BY <2>1, <3>1, <3>2 DEF FindMovie, TypeOK, tables, response
  <2>2. CASE CommitUpdate(u)
    <3>1. PcOK
      BY <2>2, <1>a, <1>b DEF CommitUpdate
    <3>2. CASE Stored(Target[u])
      <4>1. Patched(u) \in Rows
        BY <3>2, Asked, StoredRow DEF Patched, Rows, Writers
      <4>2. Relinked(u) \in SUBSET Genres
        BY Asked DEF Relinked, TypeOK, Writers
      <4>3. movie' \in [MovieIds -> Rows \cup {NoRow}] /\ links' \in [MovieIds -> SUBSET Genres]
        BY <2>2, <3>2, <4>1, <4>2 DEF CommitUpdate, TypeOK
      <4> QED
        BY <2>2, <3>1, <4>3 DEF CommitUpdate, TypeOK, response
    <3>3. CASE ~ Stored(Target[u])
      BY <2>2, <3>1, <3>3 DEF CommitUpdate, TypeOK, response
    <3> QED
      BY <3>2, <3>3
  <2> QED
    BY <1>2, <1>c, <1>d, <2>1, <2>2 DEF Update, Throw, Writers, Requests
<1>3. ASSUME NEW r \in Removes, Remove(r) PROVE TypeOK'
  <2>1. CASE FindDoomed(r)
    BY <2>1, <1>a, <1>b DEF FindDoomed, TypeOK, tables, response
  <2>2. CASE DeleteMovie(r)
    <3>1. PcOK
      BY <2>2, <1>a, <1>b DEF DeleteMovie
    <3>2. movie' \in [MovieIds -> Rows \cup {NoRow}] /\ links' \in [MovieIds -> SUBSET Genres]
      BY <2>2 DEF DeleteMovie, TypeOK
    <3> QED
      BY <2>2, <3>1, <3>2 DEF DeleteMovie, TypeOK, response
  <2>3. CASE DeleteDetail(r)
    <3>1. PcOK
      BY <2>3, <1>a, <1>b DEF DeleteDetail
    <3>2. AnswerOK /\ detail' \in SUBSET MovieIds
      BY <2>3 DEF DeleteDetail, DetailsLeft, TypeOK
    <3> QED
      BY <2>3, <3>1, <3>2 DEF DeleteDetail, TypeOK
  <2> QED
    BY <1>3, <1>c, <2>1, <2>2, <2>3 DEF Remove, Throw, Requests
<1>4. ASSUME NEW q \in Requests, Fail(q) PROVE TypeOK'
  BY <1>4, <1>c DEF Fail
<1>5. ASSUME NEW x \in Doomed, RemoveGenre(x) \/ RemoveDirector(x) PROVE TypeOK'
  <2>1. CASE RemoveGenre(x)
    <3>1. links' \in [MovieIds -> SUBSET Genres] /\ genreRows' \in SUBSET Genres
      BY <2>1 DEF RemoveGenre, TypeOK
    <3> QED
      BY <2>1, <3>1 DEF RemoveGenre, TypeOK, response
  <2>2. CASE RemoveDirector(x)
    BY <2>2 DEF RemoveDirector, TypeOK, response
  <2> QED
    BY <1>5, <2>1, <2>2
<1>6. CASE Crash
  <2>1. PcOK
    BY <1>6, <1>b DEF Crash
  <2> QED
    BY <1>6, <2>1 DEF Crash, TypeOK, tables, response
<1>7. CASE UNCHANGED vars
  BY <1>7 DEF vars, tables, response, TypeOK
<1> QED
  BY <1>1, <1>2, <1>3, <1>4, <1>5, <1>6, <1>7 DEF Next, Handling

\* Steps of a request that change no table.
LEMMA RolledBack ==
  ASSUME CatalogInv, TypeOK', NEW q \in Requests, RollBack(q), pc[q] \notin Settled
  PROVE  CatalogInv'
<1>1. /\ pc' = [pc EXCEPT ![q] = "failed"] /\ answer' = [answer EXCEPT ![q] = "error"]
      /\ UNCHANGED <<tables>> /\ places' = places
  BY DEF RollBack, ErrorAnswer
<1>2. "failed" \in Settled /\ "failed" \in Stages \cup Settled /\ "failed" \notin Opened
  BY DEF Settled, Opened
<1>3. answer'[q] = "error" /\ \A p \in Requests \ {q} : answer'[p] = answer[p]
  BY <1>1 DEF CatalogInv, TypeOK
<1>4. \A f \in Files : places'[f] # {} /\ ("movie" \in places[f] => "movie" \in places'[f])
  BY <1>1 DEF CatalogInv, NoFileLost
<1> QED
  BY <1>1, <1>2, <1>3, <1>4, QuietStep

\* What the earlier statements of a request keep.
LEMMA Statement ==
  ASSUME CatalogInv, TypeOK', NEW q \in Writers,
         FindDirector(q) \/ FindGenres(q) \/ Write(q) \/ Link(q) \/ Reread(q)
         \/ (q \in Updates /\ FindMovie(q))
  PROVE  CatalogInv'
<1>a. q \in Requests /\ q \notin Removes
  BY Asked, CatalogAssumption DEF Writers
<1>b. \A f \in Files : places[f] # {}
  BY DEF CatalogInv, NoFileLost
<1>c. pc[q] \in {"commit", "done", "lost"} \/ answer[q] # "ok"
  BY DEF CatalogInv, Answered
<1>d. q \in Creates /\ pc[q] \in {"erase", "reread", "commit", "done"}
        => "movie" \in places[Body[q].file]
  BY DEF CatalogInv, Shelved
<1>1. CASE q \in Updates /\ FindMovie(q)
  <2>1. /\ pc[q] = "start" /\ pc' = [pc EXCEPT ![q] = "findDirector"]
        /\ Stored(Target[q]) /\ UNCHANGED <<tables>> /\ places' = places /\ answer' = answer
    BY <1>1 DEF FindMovie, Goto, response
  <2>2. /\ "findDirector" \in Stages \cup Settled /\ "findDirector" \notin Opened
        /\ "start" \notin Settled
    BY DEF Stages, Settled, Opened
  <2>3. q \notin Creates
    BY <1>1, CatalogAssumption
  <2> QED
    BY <1>a, <1>b, <1>c, <2>1, <2>2, <2>3, QuietStep
<1>2. CASE FindDirector(q)
  <2>1. /\ pc[q] \in {"start", "findDirector"} /\ (q \notin Creates => pc[q] = "findDirector")
        /\ pc' = [pc EXCEPT ![q] = "findGenres"]
        /\ UNCHANGED <<tables>> /\ places' = places /\ answer' = answer
    BY <1>2 DEF FindDirector, Goto, response
  <2>2. /\ "findGenres" \in Stages \cup Settled /\ "findGenres" \notin Opened
        /\ {"start", "findDirector"} \cap Settled = {}
    BY DEF Stages, Settled, Opened
  <2>3. q \in Updates => q \notin Creates
    BY CatalogAssumption
  <2> QED
    BY <1>a, <1>b, <1>c, <2>1, <2>2, <2>3, QuietStep
<1>3. CASE FindGenres(q)
  <2>1. /\ pc[q] = "findGenres" /\ pc' = [pc EXCEPT ![q] = "write"]
        /\ UNCHANGED <<tables>> /\ places' = places /\ answer' = answer
    BY <1>3 DEF FindGenres, Goto, response
  <2>2. /\ "write" \in Stages \cup Settled /\ "write" \notin Opened /\ "findGenres" \notin Settled
    BY DEF Stages, Settled, Opened
  <2> QED
    BY <1>a, <1>b, <1>c, <2>1, <2>2, QuietStep
<1>4. CASE Write(q)
  <2>1. /\ pc[q] = "write" /\ pc' = [pc EXCEPT ![q] = "link"]
        /\ (q \in Updates /\ ~ Stored(Target[q])) \/ (NoWait(q) /\ Accepted(q))
        /\ UNCHANGED <<tables>> /\ places' = places /\ answer' = answer
    BY <1>4 DEF Write, Goto, response
  <2>2. /\ "link" \in Stages \cup Settled /\ "link" \notin Opened \ {"link"}
        /\ "write" \notin Settled
    BY DEF Stages, Settled, Opened
  <2> QED
    BY <1>a, <1>b, <1>c, <2>1, <2>2, QuietStep
<1>5. CASE Link(q)
  <2> DEFINE to == IF q \in Creates THEN "move" ELSE "reread"
  <2>1. /\ pc[q] = "link" /\ pc' = [pc EXCEPT ![q] = to] /\ Linkable(q)
        /\ UNCHANGED <<tables>> /\ places' = places /\ answer' = answer
    BY <1>5 DEF Link, Goto, response
  <2>2. /\ to \in Stages \cup Settled /\ "link" \in Opened /\ "link" \notin Settled
        /\ to \in {"move", "reread"} /\ (q \in Creates => to = "move")
    BY DEF Stages, Settled, Opened
  <2> HIDE DEF to
  <2> QED
    BY <1>a, <1>b, <1>c, <2>1, <2>2, QuietStep
<1>6. CASE Reread(q)
  <2>1. /\ pc[q] = "reread" /\ pc' = [pc EXCEPT ![q] = "commit"]
        /\ UNCHANGED <<tables>> /\ places' = places
    BY <1>6 DEF Reread, Goto
  <2>2. /\ "commit" \in Stages \cup Settled /\ "reread" \in Opened \ {"link"}
        /\ "reread" \notin Settled
    BY DEF Stages, Settled, Opened
  <2>3. (q \in Creates => answer'[q] = "ok") /\ \A p \in Requests \ {q} : answer'[p] = answer[p]
    BY <1>6, <1>a, CatalogAssumption DEF Reread, CatalogInv, TypeOK
  <2> QED
    BY <1>a, <1>b, <1>d, <2>1, <2>2, <2>3, QuietStep
<1> QED
  BY <1>1, <1>2, <1>3, <1>4, <1>5, <1>6

\* The rename of a POST's file.
LEMMA FileStep ==
  ASSUME CatalogInv, TypeOK', NEW c \in Creates, Move(c) \/ Erase(c)
  PROVE  CatalogInv'
<1>a. c \in Requests /\ c \in Writers /\ c \notin Updates /\ c \notin Removes
      /\ Body[c].file \in Files
  BY Asked, CatalogAssumption DEF Writers, MovieIds
<1>b. places \in [Files -> SUBSET {"temp", "movie"}] /\ \A f \in Files : places[f] # {}
  BY DEF CatalogInv, TypeOK, NoFileLost
<1>c. pc[c] \in {"commit", "done", "lost"} \/ answer[c] # "ok"
  BY <1>a DEF CatalogInv, Answered
<1>1. CASE Move(c)
  <2>1. PICK to \in {"reread", "erase"} :
          /\ pc[c] = "move" /\ pc' = [pc EXCEPT ![c] = to]
          /\ \/ places' = [places EXCEPT ![Body[c].file] = Moved(Body[c].file)]
             \/ places' = [places EXCEPT ![Body[c].file] = Copied(Body[c].file)]
          /\ UNCHANGED <<tables>> /\ answer' = answer
    BY <1>1 DEF Move, Goto, response
  <2>2. /\ to \in Stages \cup Settled /\ "move" \in Opened \ {"link"} /\ "move" \notin Settled
    BY DEF Stages, Settled, Opened
  <2>3. /\ "movie" \in places'[Body[c].file]
        /\ \A f \in Files : places'[f] # {} /\ ("movie" \in places[f] => "movie" \in places'[f])
    BY <1>a, <1>b, <2>1 DEF Moved, Copied
  <2> QED
    BY <1>a, <1>c, <2>1, <2>2, <2>3, QuietStep
<1>2. CASE Erase(c)
  <2>1. /\ pc[c] = "erase" /\ pc' = [pc EXCEPT ![c] = "reread"]
        /\ places' = [places EXCEPT ![Body[c].file] = @ \ {"temp"}]
        /\ UNCHANGED <<tables>> /\ answer' = answer
    BY <1>2 DEF Erase, Goto, response
  <2>2. "reread" \in Stages \cup Settled /\ "erase" \in Opened \ {"link"} /\ "erase" \notin Settled
    BY DEF Stages, Settled, Opened
  <2>3. "movie" \in places[Body[c].file]
    BY <2>1 DEF CatalogInv, Shelved
  <2>4. /\ "movie" \in places'[Body[c].file]
        /\ \A f \in Files : places'[f] # {} /\ ("movie" \in places[f] => "movie" \in places'[f])
    BY <1>a, <1>b, <2>1, <2>3
  <2> QED
    BY <1>a, <1>c, <2>1, <2>2, <2>4, QuietStep
<1> QED
  BY <1>1, <1>2

\* A DELETE: the row goes while no open transaction works on it, and the detail after it.
LEMMA RemoveStep ==
  ASSUME CatalogInv, TypeOK', NEW r \in Removes,
         FindDoomed(r) \/ DeleteMovie(r) \/ DeleteDetail(r)
  PROVE  CatalogInv'
<1> USE DEF CatalogInv
<1>a. r \in Requests /\ r \notin Writers /\ r \notin Updates /\ r \notin Creates
      /\ Target[r] \in MovieIds
  BY Asked, CatalogAssumption DEF Writers
<1>b. \A q \in Writers : q \in Requests /\ q # r
  BY <1>a, Asked
<1>1. CASE FindDoomed(r)
  <2>1. /\ pc[r] = "start" /\ pc' = [pc EXCEPT ![r] = "deleteMovie"]
        /\ Stored(Target[r]) /\ UNCHANGED <<tables>> /\ places' = places /\ answer' = answer
    BY <1>1 DEF FindDoomed, Goto, response
  <2>2. "deleteMovie" \in Stages \cup Settled /\ "start" \notin Settled
    BY DEF Stages, Settled
  <2>3. \A f \in Files : places'[f] # {} /\ ("movie" \in places[f] => "movie" \in places'[f])
    BY <2>1 DEF NoFileLost
  <2> QED
    BY <1>a, <2>1, <2>2, <2>3, QuietStep
<1>2. CASE DeleteMovie(r)
  <2>1. /\ pc[r] = "deleteMovie" /\ pc'[r] = "deleteDetail"
        /\ \A p \in Requests \ {r} : pc'[p] = pc[p]
        /\ \A u \in Updates : Open(u) => Target[u] # Target[r]
        /\ detail' = detail /\ genreRows' = genreRows /\ directors' = directors
        /\ places' = places /\ answer' = answer
    BY <1>2, <1>a DEF DeleteMovie, Goto, TypeOK, response
  <2>2. /\ ~ Stored(Target[r])'
        /\ \A m \in MovieIds \ {Target[r]} : movie'[m] = movie[m] /\ links'[m] = links[m]
    BY <1>2, <1>a DEF DeleteMovie, TypeOK, Stored
  <2>3. \A m \in MovieIds : Stored(m)' => m # Target[r] /\ Stored(m) /\ movie'[m] = movie[m]
                                          /\ links'[m] = links[m]
    BY <2>2 DEF Stored
  <2>4. \A q \in Writers : /\ pc'[q] = pc[q]
                           /\ Open(q)' => Open(q)
                           /\ LinksHeld(q)' => LinksHeld(q)
    <3>1. \A q \in Writers : pc'[q] = pc[q]
      BY <2>1, <1>b
    <3>2. \A q \in Writers : Open(q)' => Open(q)
      BY <3>1, <2>3, Asked DEF Open
    <3> QED
      BY <3>1, <3>2 DEF LinksHeld
  <2>5. NoFileLost' /\ Answered' /\ Shelved'
    BY <2>1, <2>4 DEF NoFileLost, Answered, Shelved, Writers
  <2>6. Arrived'
    <3>1. \A c \in Creates : pc'[c] = pc[c]
      BY <2>4 DEF Writers
    <3>2. \A c \in Creates : Stored(c)' => pc'[c] = "done"
      BY <3>1, <2>3 DEF Arrived, MovieIds
    <3>3. \A q \in Updates \cup Removes : pc[q] \in Settled \cup {"start"}
                                             => pc'[q] \in Settled \cup {"start"}
      BY <2>1, Asked DEF Settled
    <3> QED
      BY <3>1, <3>2, <3>3 DEF Arrived
  <2>7. Gone'
    <3>1. ASSUME NEW s \in Removes, pc'[s] = "deleteDetail" PROVE ~ Stored(Target[s])'
      BY <3>1, <2>1, <2>2, <2>3, Asked DEF Gone
    <3> QED
      BY <3>1 DEF Gone
  <2>8. Kept'
    BY <2>1, <2>4 DEF Kept
  <2>9. TitlesFree'
    BY <2>3, <2>4 DEF TitlesFree
  <2>10. Apart'
    BY <2>4 DEF Apart
  <2>11. WholeMovie'
    <3>1. ASSUME NEW m \in MovieIds, Stored(m)', NEW n \in MovieIds \ {m}
          PROVE  movie'[n].title # movie'[m].title
      <4>1. CASE n = Target[r]
        BY <4>1, <3>1, <2>2, <2>3, Asked, StoredRow DEF Stored, NoRow
      <4>2. CASE n # Target[r]
        BY <4>2, <3>1, <2>2, <2>3 DEF WholeMovie
      <4> QED
        BY <4>1, <4>2
    <3> QED
      BY <3>1, <2>1, <2>3 DEF WholeMovie
  <2> QED
    BY <2>5, <2>6, <2>7, <2>8, <2>9, <2>10, <2>11
<1>3. CASE DeleteDetail(r)
  <2>1. /\ pc[r] = "deleteDetail" /\ pc'[r] = "done"
        /\ \A p \in Requests \ {r} : pc'[p] = pc[p] /\ answer'[p] = answer[p]
        /\ detail' = detail \ {Target[r]} /\ movie' = movie /\ links' = links
        /\ genreRows' = genreRows /\ directors' = directors /\ places' = places
    BY <1>3, <1>a DEF DeleteDetail, DetailsLeft, Goto, TypeOK
  <2>2. \A m \in MovieIds : Stored(m)' <=> Stored(m)
    BY <2>1 DEF Stored
  <2>3. \A q \in Writers : /\ pc'[q] = pc[q] /\ answer'[q] = answer[q]
                           /\ Open(q)' <=> Open(q)
                           /\ LinksHeld(q)' <=> LinksHeld(q)
    <3>1. \A q \in Writers : pc'[q] = pc[q] /\ answer'[q] = answer[q]
      BY <2>1, <1>b
    <3>2. \A q \in Writers : Open(q)' <=> Open(q)
      BY <3>1, <2>2, Asked DEF Open
    <3> QED
      BY <3>1, <3>2 DEF LinksHeld
  <2>4. NoFileLost' /\ Answered' /\ Shelved'
    BY <2>1, <2>3 DEF NoFileLost, Answered, Shelved, Writers
  <2>5. Arrived'
    <3>1. \A c \in Creates : pc'[c] = pc[c]
      BY <2>3 DEF Writers
    <3>2. \A c \in Creates : Stored(c)' => pc'[c] = "done"
      BY <3>1, <2>2 DEF Arrived, MovieIds
    <3>3. \A q \in Updates \cup Removes : pc[q] \in Settled \cup {"start"}
                                             => pc'[q] \in Settled \cup {"start"}
      BY <2>1, Asked DEF Settled
    <3> QED
      BY <3>1, <3>2, <3>3 DEF Arrived
  <2>6. Gone'
    <3>1. \A s \in Removes : pc'[s] = "deleteDetail" => pc[s] = "deleteDetail"
      BY <2>1, Asked
    <3> QED
      BY <3>1, <2>2, Asked DEF Gone
  <2>7. Kept' /\ TitlesFree' /\ Apart'
    BY <2>1, <2>2, <2>3 DEF Kept, TitlesFree, Apart
  <2>8. ~ Stored(Target[r])
    BY <2>1 DEF Gone
  <2>9. WholeMovie'
    BY <2>1, <2>2, <2>8 DEF WholeMovie
  <2> QED
    BY <2>4, <2>5, <2>6, <2>7, <2>9
<1> QED
  BY <1>1, <1>2, <1>3

\* The admin deletes a genre or a director, if nobody refers to it.
LEMMA AdminStep ==
  ASSUME CatalogInv, TypeOK', NEW x \in Doomed, RemoveGenre(x) \/ RemoveDirector(x)
  PROVE  CatalogInv'
<1> USE DEF CatalogInv
<1>1. /\ movie' = movie /\ detail' = detail /\ places' = places /\ pc' = pc /\ answer' = answer
  BY DEF RemoveGenre, RemoveDirector, response
<1>2. \A m \in MovieIds : Stored(m)' <=> Stored(m)
  BY <1>1 DEF Stored
<1>3. \A q \in Writers : (Open(q)' <=> Open(q)) /\ (LinksHeld(q)' <=> LinksHeld(q))
  <2>1. \A q \in Writers : Open(q)' <=> Open(q)
    BY <1>1, <1>2, Asked DEF Open
  <2> QED
    BY <2>1, <1>1 DEF LinksHeld
<1>4. NoFileLost' /\ Answered' /\ Shelved'
  BY <1>1 DEF NoFileLost, Answered, Shelved
<1>5. Arrived' /\ Gone'
  BY <1>1, <1>2, Asked DEF Arrived, Gone, MovieIds
<1>6. TitlesFree' /\ Apart'
  BY <1>1, <1>2, <1>3 DEF TitlesFree, Apart
<1>7. CASE RemoveGenre(x)
  <2>1. /\ genreRows' = genreRows \ {x} /\ directors' = directors
        /\ \A m \in MovieIds : links'[m] = links[m] \ {x}
        /\ \A q \in Writers : LinksHeld(q) => x \notin Body[q].genres
    BY <1>7 DEF RemoveGenre
  <2>2. Kept'
    BY <1>3, <2>1 DEF Kept
  <2>3. WholeMovie'
    BY <1>1, <1>2, <2>1 DEF WholeMovie
  <2> QED
    BY <1>4, <1>5, <1>6, <2>2, <2>3
<1>8. CASE RemoveDirector(x)
  <2>1. /\ directors' = directors \ {x} /\ genreRows' = genreRows /\ links' = links
        /\ \A m \in MovieIds : movie[m].director # x
        /\ \A q \in Writers : Open(q) => Body[q].director # x
    BY <1>8 DEF RemoveDirector
  <2>2. Kept'
    BY <1>3, <2>1 DEF Kept
  <2>3. WholeMovie'
    BY <1>1, <1>2, <2>1 DEF WholeMovie
  <2> QED
    BY <1>4, <1>5, <1>6, <2>2, <2>3
<1> QED
  BY <1>7, <1>8

\* The process dies in a COMMIT: the open transactions are gone, and nothing they wrote
\* is in the tables.
LEMMA CrashStep ==
  ASSUME CatalogInv, TypeOK', Crash
  PROVE  CatalogInv'
<1> USE DEF CatalogInv
<1>1. /\ UNCHANGED <<tables>> /\ places' = places /\ answer' = answer
      /\ \A q \in Requests : pc'[q] = IF pc[q] \in Settled \cup {"start"} THEN pc[q] ELSE "lost"
  BY DEF Crash, response
<1>2. /\ movie' = movie /\ detail' = detail /\ links' = links
      /\ genreRows' = genreRows /\ directors' = directors
  BY <1>1 DEF tables
<1>3. \A m \in MovieIds : Stored(m)' <=> Stored(m)
  BY <1>2 DEF Stored
<1>4. \A q \in Writers : q \in Requests /\ ~ Open(q)'
  BY <1>1, Asked DEF Open, Settled
<1>5. NoFileLost' /\ Answered' /\ Shelved'
  <2>1. Answered'
    BY <1>1, <1>4 DEF Answered, Settled, Writers
  <2>2. Shelved'
    BY <1>1, <1>4 DEF Shelved, Settled, Writers
  <2> QED
    BY <1>1, <2>1, <2>2 DEF NoFileLost
<1>6. Arrived' /\ Gone'
  <2>1. \A c \in Creates : Stored(c)' => pc'[c] = "done"
    BY <1>1, <1>3, <1>4 DEF Arrived, Settled, MovieIds, Writers
  <2>2. \A q \in Updates \cup Removes : pc'[q] \in Settled \cup {"start"}
    BY <1>1, Asked DEF Settled
  <2>3. Gone'
    BY <2>2 DEF Gone, Settled
  <2> QED
    BY <2>1, <2>2, <2>3 DEF Arrived
<1>7. Kept' /\ TitlesFree' /\ Apart'
  BY <1>4 DEF Kept, TitlesFree, Apart, LinksHeld
<1>8. WholeMovie'
  BY <1>1, <1>2, <1>3 DEF WholeMovie
<1> QED
  BY <1>5, <1>6, <1>7, <1>8

\* A POST's transaction is in: its movie was kept possible while it was open.
LEMMA CreateCommits ==
  ASSUME CatalogInv, TypeOK', NEW c \in Creates, CommitCreate(c)
  PROVE  CatalogInv'
<1> USE DEF CatalogInv
<1>a. /\ c \in Requests /\ c \in Writers /\ c \notin Updates /\ c \notin Removes /\ c \in MovieIds
      /\ c \notin OldMovies
      /\ Body[c].title \in Titles /\ Body[c].director \in Directors /\ Body[c].file \in Files
  BY Asked, CatalogAssumption DEF Writers, MovieIds
<1>1. /\ pc[c] = "commit" /\ pc'[c] = "done" /\ \A p \in Requests \ {c} : pc'[p] = pc[p]
      /\ detail' = detail \cup {c} /\ genreRows' = genreRows /\ directors' = directors
      /\ places' = places /\ answer' = answer
  BY <1>a DEF CommitCreate, Goto, TypeOK, response
<1>2. /\ movie'[c] = RowOf(Body[c]) /\ links'[c] = Body[c].genres
      /\ \A m \in MovieIds \ {c} : movie'[m] = movie[m] /\ links'[m] = links[m]
  BY <1>a DEF CommitCreate, TypeOK
<1>3. movie'[c].title = Body[c].title /\ movie'[c].director = Body[c].director
  BY <1>2 DEF RowOf
<1>4. \A m \in MovieIds : Stored(m)' <=> m = c \/ Stored(m)
  BY <1>2, <1>3, <1>a, Asked DEF Stored, NoRow
<1>5. Open(c) /\ LinksHeld(c) /\ ~ Stored(c)
  BY <1>1, <1>a DEF Open, LinksHeld, Arrived
<1>6. \A q \in Updates \cup Removes : pc[q] \notin Settled \cup {"start"} => Target[q] # c
  BY <1>1 DEF Arrived
<1>7. \A q \in Updates : Open(q)' => pc[q] \notin Settled \cup {"start"}
  BY <1>1, <1>a, Asked DEF Open, Settled
<1>8. ~ Open(c)' /\ \A q \in Writers : Open(q)' => q # c /\ Open(q)
  <2>1. ~ Open(c)'
    BY <1>1 DEF Open
  <2>2. ASSUME NEW q \in Writers, Open(q)' PROVE q # c /\ Open(q)
    <3>1. q # c /\ pc'[q] = pc[q]
      BY <2>1, <2>2, <1>1, Asked
    <3>2. q \in Updates => Target[q] # c
      BY <2>2, <1>6, <1>7
    <3> QED
      BY <3>1, <3>2, <2>2, <1>4, Asked DEF Open
  <2> QED
    BY <2>1, <2>2
<1>9. \A q \in Writers : LinksHeld(q)' => LinksHeld(q)
  BY <1>8, <1>1, Asked DEF LinksHeld
<1>10. NoFileLost' /\ Answered' /\ Shelved'
  BY <1>1, Asked DEF NoFileLost, Answered, Shelved, Writers
<1>11. Arrived'
  <2>1. \A d \in Creates : pc[d] = "done" => pc'[d] = "done"
    BY <1>1, Asked DEF Writers
  <2>2. \A d \in Creates : Stored(d)' => pc'[d] = "done"
    BY <2>1, <1>1, <1>4 DEF Arrived, MovieIds
  <2>3. \A q \in Updates \cup Removes : pc'[q] = pc[q]
    BY <1>1, <1>a, Asked
  <2> QED
    BY <2>1, <2>2, <2>3 DEF Arrived
<1>12. Gone'
  <2>1. \A r \in Removes : pc'[r] = pc[r]
    BY <1>1, <1>a, Asked
  <2>2. "deleteDetail" \notin Settled \cup {"start"}
    BY DEF Settled
  <2> QED
    BY <2>1, <2>2, <1>4, <1>6, Asked DEF Gone
<1>13. Kept'
  BY <1>1, <1>8, <1>9 DEF Kept
<1>14. TitlesFree'
  <2> SUFFICES ASSUME NEW q \in Writers, Open(q)', NEW m \in MovieIds, Stored(m)',
                      q \in Updates => m # Target[q]
               PROVE  movie'[m].title # Body[q].title
    BY DEF TitlesFree
  <2>1. CASE m = c
    BY <2>1, <1>3, <1>5, <1>8, <1>a, Asked DEF Apart
  <2>2. CASE m # c
    BY <2>2, <1>2, <1>4, <1>8 DEF TitlesFree
  <2> QED
    BY <2>1, <2>2
<1>15. Apart'
  BY <1>8 DEF Apart
<1>16. WholeMovie'
  <2> SUFFICES ASSUME NEW m \in MovieIds, Stored(m)'
               PROVE  /\ m \in detail' /\ movie'[m].director \in directors'
                      /\ links'[m] \subseteq genreRows' /\ "movie" \in places'[Body[m].file]
                      /\ \A n \in MovieIds \ {m} : movie'[n].title # movie'[m].title
    BY DEF WholeMovie
  <2>1. \A n \in MovieIds \ {c} : movie'[n].title # Body[c].title
    <3>1. ASSUME NEW n \in MovieIds, n # c PROVE movie'[n].title # Body[c].title
      <4>1. CASE Stored(n)
        BY <3>1, <4>1, <1>2, <1>5, <1>a DEF TitlesFree
      <4>2. CASE ~ Stored(n)
        BY <3>1, <4>2, <1>2, <1>a, StoredRow, Asked
      <4> QED
        BY <4>1, <4>2
    <3> QED
      BY <3>1
  <2>2. CASE m = c
    <3>1. movie'[m].director \in directors' /\ links'[m] \subseteq genreRows'
      BY <2>2, <1>1, <1>2, <1>3, <1>5, <1>a, Asked DEF Kept
    <3>2. "movie" \in places'[Body[m].file]
      BY <2>2, <1>1 DEF Shelved
    <3> QED
      BY <2>1, <2>2, <3>1, <3>2, <1>1, <1>3
  <2>3. CASE m # c
    <3>1. Stored(m) /\ movie'[m] = movie[m] /\ links'[m] = links[m]
      BY <2>3, <1>2, <1>4
    <3>2. \A n \in MovieIds \ {m} : movie'[n].title # movie'[m].title
      BY <2>1, <2>3, <3>1, <1>2, <1>3 DEF WholeMovie
    <3> QED
      BY <3>1, <3>2, <1>1 DEF WholeMovie
  <2> QED
    BY <2>2, <2>3
<1> QED
  BY <1>10, <1>11, <1>12, <1>13, <1>14, <1>15, <1>16

\* A PATCH's transaction is in.
LEMMA UpdateCommits ==
  ASSUME CatalogInv, TypeOK', NEW u \in Updates, CommitUpdate(u)
  PROVE  CatalogInv'
<1> USE DEF CatalogInv
<1> DEFINE t == Target[u]
<1>a. /\ u \in Requests /\ u \in Writers /\ u \notin Creates /\ u \notin Removes /\ t \in MovieIds
      /\ Body[u].title \in Titles \cup {None} /\ Body[u].director \in Directors \cup {None}
  BY Asked, CatalogAssumption DEF Writers
<1>1. /\ pc[u] = "commit" /\ pc'[u] = "done" /\ \A p \in Requests \ {u} : pc'[p] = pc[p]
      /\ detail' = detail /\ genreRows' = genreRows /\ directors' = directors
      /\ places' = places /\ answer' = answer
  BY <1>a DEF CommitUpdate, Goto, TypeOK, response
<1>2. \A m \in MovieIds \ {t} : movie'[m] = movie[m] /\ links'[m] = links[m]
  BY DEF CommitUpdate, TypeOK
<1>3. /\ ~ Stored(t) => movie'[t] = movie[t] /\ links'[t] = links[t]
      /\ Stored(t) => movie'[t] = Patched(u) /\ links'[t] = Relinked(u)
  BY <1>a DEF CommitUpdate, TypeOK
<1>4. Stored(t) => /\ movie'[t].title = IF Body[u].title = None THEN movie[t].title
                                                                ELSE Body[u].title
                   /\ movie'[t].director = IF Body[u].director = None THEN movie[t].director
                                                                      ELSE Body[u].director
  BY <1>3 DEF Patched
<1>5. \A m \in MovieIds : Stored(m)' <=> Stored(m)
  <2>1. Stored(t) => movie'[t].title \in Titles
    BY <1>4, <1>a, StoredRow
  <2>2. Stored(t)' <=> Stored(t)
    BY <2>1, <1>3, Asked DEF Stored, NoRow
  <2> QED
    BY <2>2, <1>2 DEF Stored
<1>6. ~ Open(u)' /\ \A q \in Writers : Open(q)' => q # u /\ Open(q)
  <2>1. ~ Open(u)'
    BY <1>1 DEF Open
  <2>2. ASSUME NEW q \in Writers, Open(q)' PROVE q # u /\ Open(q)
    BY <2>1, <2>2, <1>1, <1>5, Asked DEF Open
  <2> QED
    BY <2>1, <2>2
<1>7. \A q \in Writers : LinksHeld(q)' => LinksHeld(q)
  BY <1>6, <1>1, Asked DEF LinksHeld
<1>8. NoFileLost' /\ Answered' /\ Shelved'
  <2>1. \A q \in Writers : pc'[q] = pc[q] \/ (q = u /\ pc'[q] = "done")
    BY <1>1, Asked
  <2> QED
    BY <2>1, <1>1, <1>a DEF NoFileLost, Answered, Shelved, Writers
<1>9. Arrived'
  <2>1. \A c \in Creates : pc'[c] = pc[c]
    BY <1>1, <1>a, Asked DEF Writers
  <2>2. \A q \in Updates \cup Removes : pc'[q] \notin Settled \cup {"start"}
                                           => pc[q] \notin Settled \cup {"start"}
    BY <1>1, Asked DEF Settled
  <2> QED
    BY <2>1, <2>2, <1>5 DEF Arrived, MovieIds
<1>10. Gone'
  <2>1. \A r \in Removes : pc'[r] = pc[r]
    BY <1>1, <1>a, Asked
  <2> QED
    BY <2>1, <1>5, Asked DEF Gone
<1>11. Kept'
  BY <1>1, <1>6, <1>7 DEF Kept
<1>12. Stored(t) => Open(u) /\ LinksHeld(u)
  BY <1>1, <1>a DEF Open, LinksHeld
<1>13. \A q \in Writers : (Open(q)' /\ q \in Updates /\ Stored(t)) => Target[q] # t
  BY <1>6, <1>12, <1>a DEF Apart
<1>14. TitlesFree'
  <2> SUFFICES ASSUME NEW q \in Writers, Open(q)', NEW m \in MovieIds, Stored(m)',
                      q \in Updates => m # Target[q]
               PROVE  movie'[m].title # Body[q].title
    BY DEF TitlesFree
  <2>1. Stored(m) /\ Open(q) /\ q # u /\ movie[m].title # Body[q].title
    BY <1>5, <1>6 DEF TitlesFree
  <2>2. CASE m = t
    BY <2>1, <2>2, <1>4, <1>12, <1>a DEF Apart
  <2>3. CASE m # t
    BY <2>1, <2>3, <1>2
  <2> QED
    BY <2>2, <2>3
<1>15. Apart'
  BY <1>6 DEF Apart
<1>16. WholeMovie'
  <2>1. CASE ~ Stored(t)
    <3>1. \A m \in MovieIds : movie'[m] = movie[m] /\ links'[m] = links[m]
      BY <2>1, <1>2, <1>3
    <3> QED
      BY <3>1, <1>1, <1>5 DEF WholeMovie
  <2>2. CASE Stored(t)
    <3>1. movie'[t].director \in directors'
      BY <2>2, <1>1, <1>4, <1>12, <1>a DEF WholeMovie, Kept
    <3>2. links'[t] \subseteq genreRows'
      BY <2>2, <1>1, <1>3, <1>12, <1>a DEF WholeMovie, Kept, Relinked
    <3>3. ASSUME NEW n \in MovieIds, n # t PROVE movie'[n].title # movie'[t].title
      <4>1. CASE Body[u].title = None
        BY <4>1, <3>3, <2>2, <1>2, <1>4, <1>a DEF WholeMovie
      <4>2. CASE Body[u].title # None /\ Stored(n)
        BY <4>2, <3>3, <2>2, <1>2, <1>4, <1>12, <1>a DEF TitlesFree
      <4>3. CASE Body[u].title # None /\ ~ Stored(n)
        BY <4>3, <3>3, <2>2, <1>2, <1>4, StoredRow
      <4> QED
        BY <4>1, <4>2, <4>3
    <3>4. ASSUME NEW m \in MovieIds, m # t, Stored(m)
          PROVE  \A n \in MovieIds \ {m} : movie'[n].title # movie'[m].title
      BY <3>3, <3>4, <1>2 DEF WholeMovie
    <3>5. t \in detail' /\ "movie" \in places'[Body[t].file]
      BY <2>2, <1>1, <1>a DEF WholeMovie
    <3>6. \A m \in MovieIds \ {t} : Stored(m) =>
            /\ m \in detail' /\ movie'[m].director \in directors'
            /\ links'[m] \subseteq genreRows' /\ "movie" \in places'[Body[m].file]
      BY <1>1, <1>2 DEF WholeMovie
    <3>7. \A n \in MovieIds \ {t} : movie'[n].title # movie'[t].title
      BY <3>3
    <3> HIDE DEF t
    <3> QED
      BY <3>1, <3>2, <3>4, <3>5, <3>6, <3>7, <1>5 DEF WholeMovie
  <2> QED
    BY <2>1, <2>2
<1> QED
  BY <1>8, <1>9, <1>10, <1>11, <1>14, <1>15, <1>16

\* Every step keeps the invariant.
LEMMA CatalogStep == CatalogInv /\ [Next]_vars => CatalogInv'
<1> SUFFICES ASSUME CatalogInv, [Next]_vars PROVE CatalogInv'
  OBVIOUS
<1>a. TypeOK'
  BY TypeKept DEF CatalogInv
<1>b. ASSUME NEW q \in Requests, Throw(q) PROVE CatalogInv'
  <2>1. pc[q] \notin Settled /\ RollBack(q)
    BY <1>b DEF Throw, Refused, Settled
  <2> QED
    BY <2>1, <1>a, RolledBack
<1>1. ASSUME NEW c \in Creates, Create(c) PROVE CatalogInv'
  <2>1. c \in Writers /\ c \in Requests
    BY Asked DEF Writers
  <2> QED
    BY <1>1, <1>a, <1>b, <2>1, Statement, FileStep, CreateCommits DEF Create
<1>2. ASSUME NEW u \in Updates, Update(u) PROVE CatalogInv'
  <2>1. u \in Writers /\ u \in Requests
    BY Asked DEF Writers
  <2> QED
    BY <1>2, <1>a, <1>b, <2>1, Statement, UpdateCommits DEF Update
<1>3. ASSUME NEW r \in Removes, Remove(r) PROVE CatalogInv'
  <2>1. r \in Requests
    BY Asked
  <2> QED
    BY <1>3, <1>a, <1>b, <2>1, RemoveStep DEF Remove
<1>4. ASSUME NEW q \in Requests, Fail(q) PROVE CatalogInv'
  BY <1>4, <1>a, RolledBack DEF Fail
<1>5. ASSUME NEW x \in Doomed, RemoveGenre(x) \/ RemoveDirector(x) PROVE CatalogInv'
  BY <1>5, <1>a, AdminStep
<1>6. CASE Crash
  BY <1>6, <1>a, CrashStep
<1>7. CASE UNCHANGED vars
  <2>1. /\ UNCHANGED <<movie, detail, links, genreRows, directors, places, pc, answer>>
    BY <1>7 DEF vars, tables, response
  <2>2. /\ \A m \in MovieIds : Stored(m)' <=> Stored(m)
        /\ \A q \in Writers : (Open(q)' <=> Open(q)) /\ (LinksHeld(q)' <=> LinksHeld(q))
    BY <2>1, Asked DEF Stored, Open, LinksHeld
  <2>3. NoFileLost' /\ Answered' /\ Shelved' /\ Arrived' /\ Gone'
    BY <2>1, <2>2, Asked DEF CatalogInv, NoFileLost, Answered, Shelved, Arrived, Gone, MovieIds
  <2> QED
    BY <1>a, <2>1, <2>2, <2>3 DEF CatalogInv, Kept, TitlesFree, Apart, WholeMovie
<1> QED
  BY <1>1, <1>2, <1>3, <1>4, <1>5, <1>6, <1>7 DEF Next, Handling

\* The invariant holds.
LEMMA CatalogHolds == Spec => []CatalogInv
BY CatalogStarts, CatalogStep, PTL DEF Spec, Safe

\* The tables, files, requests and answers keep their shapes for every number of
\* requests.
THEOREM CatalogTypes == Spec => []TypeOK
<1>1. CatalogInv => TypeOK
  BY DEF CatalogInv
<1> QED
  BY <1>1, CatalogHolds, PTL

\* Whatever is created, patched and deleted at once, whatever fails or crashes: a movie
\* in the catalog has its detail, director, genres and file, and its title alone.
THEOREM MoviesAreWhole == Spec => []WholeMovie
<1>1. CatalogInv => WholeMovie
  BY DEF CatalogInv
<1> QED
  BY <1>1, CatalogHolds, PTL

\* No order of renames, copies, deletes and failures loses an uploaded file.
THEOREM FilesAreKept == Spec => []NoFileLost
<1>1. CatalogInv => NoFileLost
  BY DEF CatalogInv
<1> QED
  BY <1>1, CatalogHolds, PTL

\* A writer answered with its movie is committed, about to be, or lost with the process;
\* a POST that failed has no movie.
THEOREM AnswersHold == Spec => []AnswerHolds
<1>1. CatalogInv => AnswerHolds
  BY DEF CatalogInv, Answered, Arrived, AnswerHolds
<1> QED
  BY <1>1, CatalogHolds, PTL

(***************************************************************************)
(* What is answered is what is committed.  Between the two the answer has  *)
(* to stay true of the transaction: nobody else changes its movie (Apart,  *)
(* the DELETE's wait), nothing it has read at the start changes, and a     *)
(* genre that goes is none of those it links.                              *)
(***************************************************************************)

\* A writer about to commit what it answered.
About(q) == pc[q] = "commit" /\ answer[q] = "ok"

ShownIsMine(q) ==
  /\ q \in Updates => Stored(Target[q])
  /\ shown[q].row = Inside(q).row
  /\ shown[q].genres \cap genreRows = Inside(q).genres

Showing == \A q \in Writers : About(q) => ShownIsMine(q)

\* A writer about to commit keeps its rows and its links open.
LEMMA AboutOpen ==
  ASSUME NEW q \in Writers, About(q), ShownIsMine(q)
  PROVE  Open(q) /\ LinksHeld(q)
BY DEF About, ShownIsMine, Open, LinksHeld

\* The genres a transaction reads back exist.
LEMMA GenresExist ==
  ASSUME CatalogInv, NEW q \in Writers, LinksHeld(q)
  PROVE  Inside(q).genres \subseteq genreRows
<1>1. Body[q].genres \subseteq genreRows
  BY DEF CatalogInv, Kept
<1>2. CASE q \in Creates
  BY <1>1, <1>2 DEF Inside
<1>3. CASE q \notin Creates
  <2>1. q \in Updates /\ Target[q] \in MovieIds /\ Stored(Target[q])
    BY <1>3, Asked DEF Writers, LinksHeld, Open
  <2>2. Inside(q).genres = Relinked(q)
    BY <1>3, <2>1 DEF Inside
  <2>3. links[Target[q]] \subseteq genreRows
    BY <2>1 DEF CatalogInv, WholeMovie
  <2> QED
    BY <1>1, <2>2, <2>3 DEF Relinked
<1> QED
  BY <1>2, <1>3

\* A step that leaves a writer's own movie, its answer and what it read alone.
LEMMA ShownStays ==
  ASSUME Showing, NEW q \in Writers, About(q), genreRows' = genreRows,
         shown'[q] = shown[q],
         q \notin Creates => /\ movie'[Target[q]] = movie[Target[q]]
                             /\ links'[Target[q]] = links[Target[q]]
                             /\ seen'[q] = seen[q]
  PROVE  ShownIsMine(q)'
<1>1. ShownIsMine(q)
  BY DEF Showing
<1>2. q \notin Creates => (Stored(Target[q])' <=> Stored(Target[q]))
  BY DEF Stored
<1>3. Inside(q)' = Inside(q)
  <2>1. CASE q \in Creates
    BY <2>1 DEF Inside
  <2>2. CASE q \notin Creates
    <3>1. Patched(q)' = Patched(q) /\ Relinked(q)' = Relinked(q)
      BY <2>2 DEF Patched, Relinked
    <3> QED
      BY <1>2, <2>2, <3>1 DEF Inside
  <2> QED
    BY <2>1, <2>2
<1>4. q \in Updates => q \notin Creates
  BY CatalogAssumption
<1> QED
  BY <1>1, <1>2, <1>3, <1>4 DEF ShownIsMine

\* Every step keeps what the writers about to commit have answered.
LEMMA ShownStep ==
  ASSUME CatalogInv, TypeOK', Showing, [Next]_vars, NEW q \in Writers, About(q)'
  PROVE  ShownIsMine(q)'
<1>a. /\ q \in Requests /\ q \notin Removes /\ (q \in Updates => q \notin Creates)
      /\ q \notin Creates => q \in Updates /\ Target[q] \in MovieIds
  BY Asked, CatalogAssumption DEF Writers
<1>b. pc'[q] = "commit" /\ answer'[q] = "ok"
  BY DEF About
<1>c. TypeOK
  BY DEF CatalogInv
<1>d. ASSUME NEW p \in Requests, NEW to, to # "commit", pc' = [pc EXCEPT ![p] = to],
             movie' = movie, links' = links, genreRows' = genreRows, shown' = shown,
             \A w \in Requests \ {p} : answer'[w] = answer[w],
             \A w \in Updates \ {p} : seen'[w] = seen[w]
      PROVE  ShownIsMine(q)'
  <2>1. p # q /\ pc'[q] = pc[q]
    BY <1>a, <1>b, <1>c, <1>d DEF TypeOK
  <2>2. About(q)
    BY <1>a, <1>b, <1>d, <2>1 DEF About
  <2> QED
    BY <1>a, <1>d, <2>1, <2>2, ShownStays
<1>e. ASSUME NEW p \in Requests, RollBack(p) PROVE ShownIsMine(q)'
  <2>1. /\ pc' = [pc EXCEPT ![p] = "failed"]
        /\ \A w \in Requests \ {p} : answer'[w] = answer[w]
        /\ UNCHANGED <<movie, links, genreRows, seen, shown>>
    BY <1>c, <1>e DEF RollBack, TypeOK, tables
  <2> QED
    BY <2>1, <1>d
<1>f. ASSUME NEW p \in Writers, FindDirector(p) \/ FindGenres(p) \/ Write(p) \/ Link(p)
      PROVE  ShownIsMine(q)'
  <2>1. /\ UNCHANGED <<movie, links, genreRows, seen, shown, answer>>
        /\ \E to \in {"findGenres", "write", "link", "move", "reread"} :
             pc' = [pc EXCEPT ![p] = to]
    BY <1>f DEF FindDirector, FindGenres, Write, Link, Goto, tables, response
  <2> QED
    BY <2>1, <1>d, Asked
<1>g. ASSUME NEW p \in Writers, Reread(p) PROVE ShownIsMine(q)'
  <2>1. /\ pc[p] = "reread" /\ \A w \in Requests \ {p} : pc'[w] = pc[w] /\ answer'[w] = answer[w]
        /\ shown'[p] = Inside(p) /\ \A w \in Writers \ {p} : shown'[w] = shown[w]
        /\ answer'[p] = IF p \in Updates /\ ~ Stored(Target[p]) THEN "null" ELSE "ok"
        /\ UNCHANGED <<movie, links, genreRows, directors, seen>>
    BY <1>c, <1>g, Asked DEF Reread, Goto, tables, TypeOK
  <2>2. CASE p = q
    <3>1. q \in Updates => Stored(Target[q])
      BY <1>b, <2>1, <2>2
    <3>2. LinksHeld(q)
      BY <2>1, <2>2, <3>1 DEF LinksHeld, Open
    <3>3. Inside(q)' = Inside(q) /\ (Stored(Target[q])' <=> Stored(Target[q]))
      BY <2>1 DEF Inside, Stored, Patched, Relinked
    <3>4. Inside(q).genres \subseteq genreRows
      BY <3>2, GenresExist
    <3> QED
      BY <2>1, <2>2, <3>1, <3>3, <3>4 DEF ShownIsMine
  <2>3. CASE p # q
    <3>1. About(q)
      BY <1>a, <1>b, <2>1, <2>3 DEF About
    <3> QED
      BY <2>1, <2>3, <3>1, ShownStays
  <2> QED
    BY <2>2, <2>3
<1>1. ASSUME NEW c \in Creates, Create(c) PROVE ShownIsMine(q)'
  <2>a. c \in Writers /\ c \in Requests
    BY Asked DEF Writers
  <2>1. CASE Move(c) \/ Erase(c)
    <3>1. /\ UNCHANGED <<movie, links, genreRows, seen, shown, answer>>
          /\ \E to \in {"erase", "reread"} : pc' = [pc EXCEPT ![c] = to]
      BY <2>1 DEF Move, Erase, Goto, tables, response
    <3> QED
      BY <3>1, <2>a, <1>d
  <2>2. CASE CommitCreate(c)
    <3>1. /\ pc[c] = "commit" /\ pc'[c] = "done" /\ \A w \in Requests \ {c} : pc'[w] = pc[w]
          /\ \A m \in MovieIds \ {c} : movie'[m] = movie[m] /\ links'[m] = links[m]
          /\ UNCHANGED <<genreRows, seen, shown, answer>>
      BY <1>c, <2>a, <2>2 DEF CommitCreate, Goto, TypeOK, response
    <3>2. About(q)
      BY <1>a, <1>b, <3>1 DEF About
    <3>3. q \notin Creates => Target[q] # c
      BY <1>a, <3>1, <3>2 DEF CatalogInv, Arrived, About, Settled
    <3> QED
      BY <1>a, <3>1, <3>2, <3>3, ShownStays
  <2> QED
    BY <1>1, <1>e, <1>f, <1>g, <2>a, <2>1, <2>2 DEF Create, Throw
<1>2. ASSUME NEW u \in Updates, Update(u) PROVE ShownIsMine(q)'
  <2>a. u \in Writers /\ u \in Requests /\ Target[u] \in MovieIds
    BY Asked DEF Writers
  <2>1. CASE FindMovie(u)
    <3>1. /\ UNCHANGED <<movie, links, genreRows, shown, answer>>
          /\ pc' = [pc EXCEPT ![u] = "findDirector"]
          /\ \A w \in Updates \ {u} : seen'[w] = seen[w]
      BY <1>c, <2>1 DEF FindMovie, Goto, tables, response, TypeOK
    <3> QED
      BY <3>1, <2>a, <1>d
  <2>2. CASE CommitUpdate(u)
    <3>1. /\ pc[u] = "commit" /\ pc'[u] = "done" /\ \A w \in Requests \ {u} : pc'[w] = pc[w]
          /\ \A m \in MovieIds \ {Target[u]} : movie'[m] = movie[m] /\ links'[m] = links[m]
          /\ ~ Stored(Target[u]) => movie' = movie /\ links' = links
          /\ UNCHANGED <<genreRows, seen, shown, answer>>
      BY <1>c, <2>a, <2>2 DEF CommitUpdate, Goto, TypeOK, response
    <3>2. q # u /\ About(q)
      BY <1>a, <1>b, <3>1 DEF About
    <3>3. q \notin Creates => Target[q] # Target[u] \/ ~ Stored(Target[u])
      <4>1. Open(q)
        BY <3>2, AboutOpen DEF Showing
      <4>2. Stored(Target[u]) => Open(u)
        BY <3>1, <2>a DEF Open
      <4> QED
        BY <1>a, <2>a, <3>2, <4>1, <4>2 DEF CatalogInv, Apart
    <3> QED
      BY <1>a, <3>1, <3>2, <3>3, ShownStays
  <2> QED
    BY <1>2, <1>e, <1>f, <1>g, <2>a, <2>1, <2>2 DEF Update, Throw
<1>3. ASSUME NEW r \in Removes, Remove(r) PROVE ShownIsMine(q)'
  <2>a. r \in Requests /\ r # q
    BY <1>a, Asked
  <2>1. CASE FindDoomed(r) \/ DeleteDetail(r)
    <3>1. /\ UNCHANGED <<movie, links, genreRows, seen, shown>>
          /\ \E to \in {"deleteMovie", "done"} : pc' = [pc EXCEPT ![r] = to]
          /\ \A w \in Requests \ {r} : answer'[w] = answer[w]
      BY <1>c, <2>1 DEF FindDoomed, DeleteDetail, Goto, tables, response, TypeOK
    <3> QED
      BY <3>1, <2>a, <1>d
  <2>2. CASE DeleteMovie(r)
    <3>1. /\ \A w \in Requests \ {r} : pc'[w] = pc[w]
          /\ \A u \in Updates : Open(u) => Target[u] # Target[r]
          /\ \A m \in MovieIds \ {Target[r]} : movie'[m] = movie[m] /\ links'[m] = links[m]
          /\ UNCHANGED <<genreRows, seen, shown, answer>>
      BY <1>c, <2>2 DEF DeleteMovie, Goto, TypeOK, response
    <3>2. About(q)
      BY <1>a, <1>b, <2>a, <3>1 DEF About
    <3>3. q \notin Creates => Target[q] # Target[r]
      BY <1>a, <3>1, <3>2, AboutOpen DEF Showing
    <3> QED
      BY <1>a, <3>1, <3>2, <3>3, ShownStays
  <2> QED
    BY <1>3, <1>e, <2>a, <2>1, <2>2 DEF Remove, Throw
<1>4. ASSUME NEW p \in Requests, Fail(p) PROVE ShownIsMine(q)'
  BY <1>4, <1>e DEF Fail
<1>5. ASSUME NEW x \in Doomed, RemoveDirector(x) PROVE ShownIsMine(q)'
  <2>1. UNCHANGED <<movie, links, genreRows, pc, seen, shown, answer>>
    BY <1>5 DEF RemoveDirector, response
  <2> QED
    BY <2>1, ShownStays DEF About
<1>6. ASSUME NEW x \in Doomed, RemoveGenre(x) PROVE ShownIsMine(q)'
  <2>1. /\ genreRows' = genreRows \ {x} /\ \A m \in MovieIds : links'[m] = links[m] \ {x}
        /\ \A w \in Writers : LinksHeld(w) => x \notin Body[w].genres
        /\ UNCHANGED <<movie, pc, seen, shown, answer>>
    BY <1>6 DEF RemoveGenre, response
  <2>2. ShownIsMine(q) /\ x \notin Body[q].genres /\ About(q)
    <3>1. About(q)
      BY <2>1 DEF About
    <3> QED
      BY <2>1, <3>1, AboutOpen DEF Showing
  <2>3. Stored(Target[q])' <=> Stored(Target[q])
    BY <2>1 DEF Stored
  <2>4. Inside(q)'.row = Inside(q).row /\ Inside(q)'.genres = Inside(q).genres \ {x}
    <3>1. CASE q \in Creates
      BY <2>2, <3>1 DEF Inside
    <3>2. CASE q \notin Creates
      <4>1. Patched(q)' = Patched(q)
        BY <2>1 DEF Patched
      <4>2. Relinked(q)' = Relinked(q) \ {x}
        BY <1>a, <2>1, <2>2, <3>2 DEF Relinked
      <4>3. Stored(Target[q])
        BY <1>a, <2>2, <3>2 DEF ShownIsMine
      <4> QED
        BY <2>3, <3>2, <4>1, <4>2, <4>3 DEF Inside
    <3> QED
      BY <3>1, <3>2
  <2>5. shown'[q].genres \cap genreRows' = Inside(q)'.genres
    BY <2>1, <2>2, <2>4 DEF ShownIsMine
  <2> QED
    BY <2>1, <2>2, <2>3, <2>4, <2>5 DEF ShownIsMine
<1>7. CASE Crash
  BY <1>7, <1>a, <1>b, <1>c DEF Crash, Settled, TypeOK, About, Showing
<1>8. CASE UNCHANGED vars
  <2>1. UNCHANGED <<movie, links, genreRows, pc, seen, shown, answer>>
    BY <1>8 DEF vars, tables, response
  <2> QED
    BY <2>1, ShownStays DEF About
<1> QED
  BY <1>1, <1>2, <1>3, <1>4, <1>5, <1>6, <1>7, <1>8 DEF Next, Handling

\* What is answered stays true of the open transaction until it commits.
LEMMA ShowingHolds == Spec => []Showing
<1>1. Init => Showing
  <2> SUFFICES ASSUME Init, NEW q \in Writers PROVE pc[q] # "commit"
    BY DEF Showing, About
  <2> QED
    BY Asked DEF Init
<1>2. CatalogInv /\ CatalogInv' /\ Showing /\ [Next]_vars => Showing'
  BY ShownStep DEF Showing, CatalogInv
<1> QED
  BY <1>1, <1>2, CatalogHolds, PTL DEF Spec, Safe

\* Only its own COMMIT takes a writer from there to the end.
LEMMA OwnCommit ==
  ASSUME TypeOK, Next, NEW q \in Writers, pc[q] = "commit", pc'[q] = "done"
  PROVE  (q \in Creates /\ CommitCreate(q)) \/ (q \in Updates /\ CommitUpdate(q))
<1>a. q \in Requests /\ q \notin Removes /\ pc \in [Requests -> Stages \cup Settled]
  BY Asked, CatalogAssumption DEF Writers, TypeOK
<1>1. ASSUME NEW p \in Requests, p # q,
             \E from, to : Goto(p, from, to) \/ pc' = [pc EXCEPT ![p] = to]
      PROVE  FALSE
  BY <1>1, <1>a DEF Goto
<1>2. ~ \E p \in Requests : RollBack(p)
  BY <1>a DEF RollBack
<1>3. ASSUME NEW c \in Creates, Create(c) PROVE c = q /\ CommitCreate(q)
  <2>a. c \in Requests
    BY Asked DEF Writers
  <2>1. c = q
    <3>1. CASE CommitCreate(c) \/ FindGenres(c) \/ Write(c) \/ Reread(c) \/ Erase(c)
      BY <2>a, <1>1, <3>1 DEF CommitCreate, FindGenres, Write, Reread, Erase
    <3>2. CASE FindDirector(c) \/ Link(c)
      BY <2>a, <1>1, <3>2 DEF FindDirector, Link
    <3>3. CASE Move(c)
      BY <2>a, <1>1, <3>3 DEF Move
    <3> QED
      BY <1>2, <1>3, <2>a, <3>1, <3>2, <3>3 DEF Create, Throw
  <2> QED
    BY <1>2, <1>3, <1>a, <2>1 DEF Create, FindDirector, FindGenres, Write, Link, Move, Erase,
       Reread, Throw, Goto
<1>4. ASSUME NEW u \in Updates, Update(u) PROVE u = q /\ CommitUpdate(q)
  <2>1. u = q
    BY <1>1, <1>2, <1>4, Asked DEF Update, FindMovie, FindDirector, FindGenres, Write, Link,
       Reread, CommitUpdate, Throw
  <2> QED
    BY <1>2, <1>4, <1>a, <2>1 DEF Update, FindMovie, FindDirector, FindGenres, Write, Link,
       Reread, Throw, Goto
<1>5. ~ \E r \in Removes : Remove(r)
  BY <1>a, <1>1, <1>2, Asked DEF Remove, FindDoomed, DeleteMovie, DeleteDetail, Throw
<1>6. ~ \E p \in Requests : Fail(p)
  BY <1>2 DEF Fail
<1>7. ~ Crash /\ ~ \E x \in Doomed : RemoveGenre(x) \/ RemoveDirector(x)
  BY <1>a DEF Crash, Settled, RemoveGenre, RemoveDirector
<1> QED
  BY <1>3, <1>4, <1>5, <1>6, <1>7 DEF Next, Handling

\* The movie a POST or PATCH answered with is the movie its COMMIT leaves, whatever
\* POSTs, PATCHes, DELETEs and failures take place between the two; a genre deleted there
\* is gone from the catalog too.
THEOREM CommitsAsShown == Spec => CommitsWhatItShowed
<1> DEFINE AsShown == \A q \in Writers :
      (pc[q] = "commit" /\ pc'[q] = "done" /\ answer[q] = "ok") =>
        /\ movie'[Mine(q)] = shown[q].row
        /\ links'[Mine(q)] = shown[q].genres \cap genreRows
<1>1. CatalogInv /\ Showing /\ [Next]_vars => [AsShown]_vars
  <2> SUFFICES ASSUME CatalogInv, Showing, Next, NEW q \in Writers,
                      pc[q] = "commit", pc'[q] = "done", answer[q] = "ok"
               PROVE  /\ movie'[Mine(q)] = shown[q].row
                      /\ links'[Mine(q)] = shown[q].genres \cap genreRows
    OBVIOUS
  <2>a. TypeOK /\ ShownIsMine(q)
    BY DEF CatalogInv, Showing, About
  <2>1. CASE q \in Creates /\ CommitCreate(q)
    <3>1. q \in MovieIds
      BY <2>1 DEF MovieIds
    <3>2. movie'[q] = RowOf(Body[q]) /\ links'[q] = Body[q].genres
      BY <2>1, <2>a, <3>1 DEF CommitCreate, TypeOK
    <3> QED
      BY <2>1, <2>a, <3>2 DEF ShownIsMine, Inside, Mine
  <2>2. CASE q \in Updates /\ CommitUpdate(q)
    <3>1. q \notin Creates /\ Target[q] \in MovieIds /\ Stored(Target[q])
      BY <2>2, <2>a, Asked, CatalogAssumption DEF ShownIsMine
    <3>2. movie'[Target[q]] = Patched(q) /\ links'[Target[q]] = Relinked(q)
      BY <2>2, <2>a, <3>1 DEF CommitUpdate, TypeOK
    <3> QED
      BY <2>2, <2>a, <3>1, <3>2 DEF ShownIsMine, Inside, Mine
  <2> QED
    BY <2>a, <2>1, <2>2, OwnCommit
<1> QED
  BY <1>1, CatalogHolds, ShowingHolds, PTL DEF Spec, Safe, CommitsWhatItShowed
=============================================================================
