------------------------------ MODULE Records ------------------------------
(***************************************************************************)
(* Users, genres and directors: UserService, GenreService, DirectorService *)
(* and the three tables of the migration.                                  *)
(*                                                                         *)
(* A handler is a few statements, each its own transaction, with waits     *)
(* between them (a hash of bcrypt among these): every statement is an      *)
(* action, and requests interleave at each.  What a handler does after its *)
(* first look depends on the row as it is then.                            *)
(***************************************************************************)
EXTENDS Integers

CONSTANTS
  Requests,   \* requests, each made once
  MaxRows,    \* rows the three tables ever have (bound)
  Seeded,     \* those that are there at the start
  Keys,       \* e-mails, names
  Infos,      \* password and role, or date of birth and nationality
  Absent      \* a column that a PATCH does not give

ASSUME RowsAssumption ==
  /\ MaxRows \in Nat /\ Seeded \in 0 .. MaxRows
  /\ Absent \notin Keys \cup Infos

VARIABLES
  row,      \* the rows, by id; one counter numbers those of all three tables
  last,     \* the last id given out
  request   \* the requests

vars == <<row, last, request>>

Tables == {"user", "genre", "director"}
Ids    == 1 .. MaxRows
\* A genre is nothing but its name.
Rows   == [table : Tables, key : Keys, info : Infos \cup {Absent}]
\* No such row: an id that was never given out, or whose row is gone.
NoRow  == [table |-> "none", key |-> Absent, info |-> Absent]

Ops     == {"none", "create", "show", "update", "remove"}
Answers == {"none", "ok", "nothing", "missing", "exists", "failed"}

\* seen: the row as the handler's first statement found it.
Asks   == [op : Ops, table : Tables, id : 0 .. MaxRows, key : Keys \cup {Absent},
           info : Infos \cup {Absent}, at : {"idle", "find", "write", "back", "done"},
           seen : Rows \cup {NoRow}, answer : Answers]

TypeOK ==
  /\ last \in 0 .. MaxRows
  /\ row \in [Ids -> Rows \cup {NoRow}]
  /\ request \in [Requests -> Asks]

Waiting == [op |-> "none", table |-> "user", id |-> 0, key |-> Absent, info |-> Absent,
            at |-> "idle", seen |-> NoRow, answer |-> "none"]

\* The table has any rows it may hold.
Init ==
  /\ last = Seeded
  /\ row \in [Ids -> Rows \cup {NoRow}]
  /\ \A i \in Ids : row[i] # NoRow <=> i <= Seeded
  /\ \A i \in 1 .. Seeded : row[i].info = Absent <=> row[i].table = "genre"
  /\ \A i, j \in 1 .. Seeded :
       row[i].table = row[j].table /\ row[i].table # "director" /\ row[i].key = row[j].key
         => i = j
  /\ request = [r \in Requests |-> Waiting]

(***************************************************************************)
(* The tables.                                                             *)
(***************************************************************************)

\* unique: true of the entities, UNIQUE of the migration; directors may share a name.
\* Mutant: the genre has lost its constraint.
UniqueWithoutGenre == {"user"}
Unique             == {"user", "genre"}

Present(table, i) == row[i].table = table
Holders(table, k) == {i \in Ids : Present(table, i) /\ row[i].key = k}
Clash(table, i, k) == table \in Unique /\ Holders(table, k) \ {i} # {}

(***************************************************************************)
(* The handlers.                                                           *)
(***************************************************************************)

Go(r, at)     == request' = [request EXCEPT ![r].at = at]
Answer(r, as) ==
  request' = [request EXCEPT ![r].at = "done", ![r].seen = NoRow, ![r].answer = as]

\* What each controller takes, once valid; a PATCH gives some columns.
Body(op, table, ids, keys, infos) ==
  [op : {op}, table : {table}, id : ids, key : keys, info : infos]
Bodies(table, infos) ==
  Body("create", table, {0}, Keys, infos)
    \cup Body("show", table, Ids, {Absent}, {Absent})
    \cup Body("update", table, Ids, Keys \cup {Absent}, infos \cup {Absent})
    \cup Body("remove", table, Ids, {Absent}, {Absent})
UserRequests     == Bodies("user", Infos)
GenreRequests    == Bodies("genre", {Absent})
DirectorRequests == Bodies("director", Infos)

Start(r) ==
  /\ request[r].at = "idle"
  /\ \E b \in UserRequests \cup GenreRequests \cup DirectorRequests :
       request' = [request EXCEPT ![r] =
         [op |-> b.op, table |-> b.table, id |-> b.id, key |-> b.key, info |-> b.info,
          at |-> "find", seen |-> NoRow, answer |-> "none"]]
  /\ UNCHANGED <<row, last>>

\* A user and a genre that are there are not made again; a director may be.
Looks(table) == table # "director"
LookBefore(r) ==
  LET a == request[r] IN
  /\ a.at = "find" /\ a.op = "create"
  /\ IF Looks(a.table) /\ Holders(a.table, a.key) # {}
     THEN Answer(r, "exists") ELSE Go(r, "write")
  /\ UNCHANGED <<row, last>>

\* What is not there is answered with 404, a director with null.
NotShown(table) == IF table = "director" THEN "nothing" ELSE "missing"
Show(r) ==
  LET a == request[r] IN
  /\ a.at = "find" /\ a.op = "show"
  /\ Answer(r, IF Present(a.table, a.id) THEN "ok" ELSE NotShown(a.table))
  /\ UNCHANGED <<row, last>>

\* The first statement of a PATCH and of a DELETE.
FindRow(r) ==
  LET a == request[r] IN
  /\ a.at = "find" /\ a.op \in {"update", "remove"}
  /\ IF Present(a.table, a.id)
     THEN request' = [request EXCEPT ![r].at = "write", ![r].seen = row[a.id]]
     ELSE Answer(r, "missing")
  /\ UNCHANGED <<row, last>>

\* INSERT.  Of two that both found nothing the later fails on the key, which
\* QueryFailedFilter answers with 400.  Only a user is read again.
Insert(r) ==
  LET a == request[r] IN
  /\ a.at = "write" /\ a.op = "create"
  /\ IF Clash(a.table, 0, a.key)
     THEN Answer(r, "failed") /\ UNCHANGED <<row, last>>
     ELSE /\ last < MaxRows
          /\ last' = last + 1
          /\ row' = [row EXCEPT ![last'] =
               [table |-> a.table, key |-> a.key, info |-> a.info]]
          /\ IF a.table = "user" THEN Go(r, "back") ELSE Answer(r, "ok")

\* The row with the columns of the PATCH.
\* Mutant: with the rest as it was when the handler looked.
Given(old, new) == IF new = Absent THEN old ELSE new
PatchedSeen(i, a) ==
  [a.seen EXCEPT !.key = Given(@, a.key), !.info = Given(@, a.info)]
Patched(i, a) ==
  [row[i] EXCEPT !.key = Given(@, a.key), !.info = Given(@, a.info)]

\* A key that is taken; and a genre's PATCH without its name, which leaves TypeORM with
\* nothing to set (the other tables have updatedAt and version).
UpdateFails(a) ==
  IF a.key = Absent THEN a.table = "genre"
  ELSE row[a.id] # NoRow /\ Clash(a.table, a.id, a.key)

\* UPDATE ... WHERE id, with the columns given; no row, nothing done.
\* Mutant: save() of the entity found before, which inserts what is gone.
UpdateBySave(r) ==
  LET a == request[r] IN
  /\ a.at = "write" /\ a.op = "update"
  /\ IF a.key # Absent /\ Clash(a.table, a.id, a.key)
     THEN Answer(r, "failed") /\ UNCHANGED row
     ELSE Go(r, "back") /\ row' = [row EXCEPT ![a.id] = PatchedSeen(a.id, a)]
  /\ UNCHANGED last
Update(r) ==
  LET a == request[r] IN
  /\ a.at = "write" /\ a.op = "update"
  /\ IF UpdateFails(a)
     THEN Answer(r, "failed") /\ UNCHANGED row
     ELSE /\ Go(r, "back")
          /\ row' = IF row[a.id] = NoRow THEN row
                    ELSE [row EXCEPT ![a.id] = Patched(a.id, a)]
  /\ UNCHANGED last

\* The user of that e-mail, or the row of that id, which may be gone by now.
ReadBack(r) ==
  LET a == request[r] IN
  /\ a.at = "back"
  /\ Answer(r, IF \/ a.op = "create" /\ Holders(a.table, a.key) # {}
                  \/ a.op = "update" /\ Present(a.table, a.id)
               THEN "ok" ELSE "nothing")
  /\ UNCHANGED <<row, last>>

\* DELETE, refused while a movie has the user or the director (NO ACTION); links to
\* genres go with their genre.  The answer is the id, whether a row went or not.
Delete(r) ==
  LET a == request[r] IN
  /\ a.at = "write" /\ a.op = "remove"
  /\ \/ /\ row' = [row EXCEPT ![a.id] = NoRow]
        /\ Answer(r, "ok")
     \/ /\ a.table # "genre" /\ row[a.id] # NoRow
        /\ Answer(r, "failed") /\ UNCHANGED row
  /\ UNCHANGED last

Next == \E r \in Requests :
  \/ Start(r) \/ LookBefore(r) \/ Show(r) \/ FindRow(r)
  \/ Insert(r) \/ Update(r) \/ ReadBack(r) \/ Delete(r)

Spec == Init /\ [][Next]_vars

(***************************************************************************)
(* Properties.                                                             *)
(***************************************************************************)

\* No e-mail and no genre is there twice, however looks, inserts and renames of
\* several requests interleave: the look before the insert alone would not do.
UniqueKeys ==
  \A i, j \in Ids :
    /\ i # j /\ row[i].table = row[j].table
    /\ row[i].table \in {"user", "genre"}
    => row[i].key # row[j].key

\* A removed row stays removed: an update that found it before does not bring it back.
RemovedStaysRemoved ==
  [][\A i \in Ids : i <= last /\ row[i] = NoRow => row'[i] = NoRow]_vars

\* Two updates of different columns both stay: a step that changes a column of a row
\* in the table is that of a request which gave the column this value.
OnlyGivenChange ==
  [][\A i \in Ids : row[i] # NoRow /\ row'[i] # NoRow =>
       /\ row'[i].key # row[i].key =>
            \E r \in Requests : request[r].id = i /\ request[r].key = row'[i].key
                                /\ request[r].at = "write" /\ request'[r].at # "write"
       /\ row'[i].info # row[i].info =>
            \E r \in Requests : request[r].id = i /\ request[r].info = row'[i].info
                                /\ request[r].at = "write" /\ request'[r].at # "write"]_vars
=============================================================================
