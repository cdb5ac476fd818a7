--------------------------- MODULE Records_proofs ---------------------------
(***************************************************************************)
(* Theorems about Records, for any requests and rows: types, unique keys,  *)
(* and what an update may do to a row that others change or remove.        *)
(***************************************************************************)
EXTENDS Records, TLAPS

\* A creation names a key, every other request a row.
Named(a) ==
  a.at # "idle" => IF a.op = "create" THEN a.key \in Keys ELSE a.id \in Ids

\* An update has seen a row of its table; ids are not given out again, so that it is
\* of this table still, or gone.
Aims(a) ==
  a.at = "write" /\ a.op = "update" =>
    a.id <= last /\ (row[a.id] = NoRow \/ row[a.id].table = a.table)

Fresh      == \A i \in Ids : i > last => row[i] = NoRow
RecordsInv ==
  /\ TypeOK /\ Fresh
  /\ \A r \in Requests : Named(request[r]) /\ Aims(request[r])

LEMMA NoRowFacts ==
  /\ NoRow.table = "none" /\ NoRow \notin Rows
  /\ \A x \in Rows : x.table \in Tables /\ x.key \in Keys /\ x.info \in Infos \cup {Absent}
  /\ "none" \notin Tables
BY DEF NoRow, Rows, Tables

LEMMA RequestFields ==
  ASSUME TypeOK, NEW r \in Requests
  PROVE  /\ request[r] \in Asks /\ request[r].table \in Tables
         /\ request[r].id \in 0 .. MaxRows
         /\ request[r].key \in Keys \cup {Absent} /\ request[r].info \in Infos \cup {Absent}
         /\ request[r].seen \in Rows \cup {NoRow}
BY DEF TypeOK, Asks

(***************************************************************************)
(* What a statement leaves of a request.                                   *)
(***************************************************************************)

\* The request of r has gone on; its body is as it was.
Onward(r) ==
  /\ request' \in [Requests -> Asks]
  /\ \A q \in Requests \ {r} : request'[q] = request[q]
  /\ request[r].at # "idle" /\ Named(request'[r])
  /\ request'[r].at \in {"write", "back", "done"}
  /\ request'[r].id = request[r].id /\ request'[r].table = request[r].table
  /\ request'[r].op = request[r].op

LEMMA AnswerOnward ==
  ASSUME RecordsInv, NEW r \in Requests, NEW as \in Answers, Answer(r, as),
         request[r].at # "idle"
  PROVE  Onward(r) /\ request'[r].at = "done"
<1> DEFINE a == request[r]
           b == [a EXCEPT !.at = "done", !.seen = NoRow, !.answer = as]
<1>1. a \in Asks /\ request \in [Requests -> Asks] /\ Named(a)
  BY RequestFields DEF RecordsInv, TypeOK
<1>2. request' = [request EXCEPT ![r] = b]
  BY <1>1 DEF Answer
<1>3. /\ b \in Asks /\ b.at = "done" /\ b.op = a.op /\ b.id = a.id /\ b.key = a.key
      /\ b.table = a.table
  BY <1>1 DEF Asks, Answers
<1> HIDE DEF b
<1>4. Named(b)
  BY <1>1, <1>3 DEF Named
<1> QED BY <1>1, <1>2, <1>3, <1>4 DEF Onward

LEMMA GoOnward ==
  ASSUME RecordsInv, NEW r \in Requests, NEW at \in {"write", "back"},
         NEW seen \in Rows \cup {NoRow},
         \/ Go(r, at)
         \/ request' = [request EXCEPT ![r].at = at, ![r].seen = seen],
         request[r].at # "idle"
  PROVE  Onward(r) /\ request'[r].at = at
<1> DEFINE a == request[r]
           b == [a EXCEPT !.at = at]
           c == [a EXCEPT !.at = at, !.seen = seen]
<1>1. a \in Asks /\ request \in [Requests -> Asks] /\ Named(a)
  BY RequestFields DEF RecordsInv, TypeOK
<1>2. request' = [request EXCEPT ![r] = b] \/ request' = [request EXCEPT ![r] = c]
  BY <1>1 DEF Go
<1>3. /\ b \in Asks /\ b.at = at /\ b.op = a.op /\ b.id = a.id /\ b.key = a.key
      /\ b.table = a.table
  BY <1>1 DEF Asks
<1>4. /\ c \in Asks /\ c.at = at /\ c.op = a.op /\ c.id = a.id /\ c.key = a.key
      /\ c.table = a.table
  BY <1>1 DEF Asks
<1> HIDE DEF b, c
<1>5. Named(b) /\ Named(c)
  BY <1>1, <1>3, <1>4 DEF Named
<1> QED BY <1>1, <1>2, <1>3, <1>4, <1>5 DEF Onward

\* What every statement does to the rows: one may be added, patched or removed.
Added(r) ==
  /\ request[r].op = "create" /\ last < MaxRows /\ last' = last + 1
  /\ ~Clash(request[r].table, 0, request[r].key)
  /\ row' = [row EXCEPT ![last + 1] =
       [table |-> request[r].table, key |-> request[r].key, info |-> request[r].info]]
PatchedBy(r) ==
  /\ request[r].op = "update" /\ request[r].at = "write"
  /\ row[request[r].id] # NoRow /\ last' = last
  /\ ~UpdateFails(request[r])
  /\ row' = [row EXCEPT ![request[r].id] = Patched(request[r].id, request[r])]
Removed(r) ==
  /\ request[r].op = "remove" /\ last' = last
  /\ row' = [row EXCEPT ![request[r].id] = NoRow]
Moves(r) == \/ Added(r) \/ PatchedBy(r) \/ Removed(r)
            \/ row' = row /\ last' = last

\* A step of the handler of r.
Handled(r) ==
  /\ Onward(r) /\ Moves(r)
  /\ PatchedBy(r) => request'[r].at = "back"
  /\ request'[r].at = "write" /\ request[r].op = "update" =>
       Present(request[r].table, request[r].id) /\ row' = row /\ last' = last

LEMMA StatementsHandle ==
  ASSUME RecordsInv, NEW r \in Requests,
         \/ LookBefore(r) \/ Show(r) \/ FindRow(r) \/ Insert(r)
         \/ Update(r) \/ ReadBack(r) \/ Delete(r)
  PROVE  Handled(r)
<1> DEFINE a == request[r]
<1> USE DEF Answers
<1>0. row[a.id] \in Rows \cup {NoRow} \/ a.id \notin Ids
  BY DEF RecordsInv, TypeOK
<1>1. CASE LookBefore(r)
  BY <1>1, AnswerOnward, GoOnward, NoRow \in Rows \cup {NoRow} DEF LookBefore, Handled, Moves, PatchedBy
<1>2. CASE Show(r)
  BY <1>2, AnswerOnward DEF Show, NotShown, Handled, Moves, PatchedBy
<1>3. CASE FindRow(r)
  <2>1. CASE Present(a.table, a.id)
    <3>1. a.id \in Ids
      BY <1>3 DEF FindRow, RecordsInv, Named
    <3> QED BY <1>0, <1>3, <2>1, <3>1, GoOnward DEF FindRow, Handled, Moves, PatchedBy
  <2>2. CASE ~Present(a.table, a.id)
    BY <1>3, <2>2, AnswerOnward DEF FindRow, Handled, Moves, PatchedBy
  <2> QED BY <2>1, <2>2
<1>4. CASE Insert(r)
  <2>1. CASE Clash(a.table, 0, a.key)
    BY <1>4, <2>1, AnswerOnward DEF Insert, Handled, Moves, PatchedBy
  <2>2. CASE ~Clash(a.table, 0, a.key)
    <3>1. Added(r) /\ a.at = "write" /\ (Go(r, "back") \/ Answer(r, "ok"))
      BY <1>4, <2>2 DEF Insert, Added
    <3>2. Onward(r) /\ request'[r].at # "write"
      BY <3>1, AnswerOnward, GoOnward, NoRow \in Rows \cup {NoRow}
    <3> QED BY <3>1, <3>2 DEF Added, PatchedBy, Handled, Moves
  <2> QED BY <2>1, <2>2
<1>5. CASE Update(r)
  <2>1. CASE row' = row /\ (Go(r, "back") \/ Answer(r, "failed"))
    <3>1. Onward(r) /\ request'[r].at # "write" /\ last' = last
      BY <1>5, <2>1, AnswerOnward, GoOnward, NoRow \in Rows \cup {NoRow} DEF Update
    <3>2. PatchedBy(r) => request'[r].at = "back"
      <4>1. ~UpdateFails(a) => Go(r, "back")
        BY <1>5 DEF Update
      <4> QED BY <1>5, <4>1, GoOnward, NoRow \in Rows \cup {NoRow} DEF Update, PatchedBy
    <3> QED BY <2>1, <3>1, <3>2 DEF Handled, Moves
  <2>2. CASE PatchedBy(r) /\ Go(r, "back")
    <3>1. Onward(r) /\ request'[r].at = "back"
      BY <1>5, <2>2, GoOnward, NoRow \in Rows \cup {NoRow} DEF Update
    <3> QED BY <2>2, <3>1 DEF Handled, Moves
  <2>3. CASE UpdateFails(a)
    BY <1>5, <2>1, <2>3 DEF Update
  <2>4. CASE ~UpdateFails(a) /\ row[a.id] = NoRow
    BY <1>5, <2>1, <2>4 DEF Update
  <2>5. CASE ~UpdateFails(a) /\ row[a.id] # NoRow
    BY <1>5, <2>2, <2>5 DEF Update, PatchedBy
  <2> QED BY <2>3, <2>4, <2>5
<1>6. CASE ReadBack(r)
  BY <1>6, AnswerOnward DEF ReadBack, Handled, Moves, PatchedBy
<1>7. CASE Delete(r)
  BY <1>7, AnswerOnward DEF Delete, Handled, Moves, PatchedBy, Removed
<1> QED BY <1>1, <1>2, <1>3, <1>4, <1>5, <1>6, <1>7

(***************************************************************************)
(* The invariant.                                                          *)
(***************************************************************************)

LEMMA PatchedRow ==
  ASSUME RecordsInv, NEW r \in Requests, PatchedBy(r), Onward(r)
  PROVE  /\ request[r].id \in Ids /\ request[r].id <= last
         /\ row[request[r].id] \in Rows /\ row[request[r].id].table = request[r].table
         /\ LET p == Patched(request[r].id, request[r])
            IN  /\ p \in Rows /\ p.table = request[r].table
                /\ p.key = IF request[r].key = Absent THEN row[request[r].id].key
                           ELSE request[r].key
                /\ p.info = IF request[r].info = Absent THEN row[request[r].id].info
                            ELSE request[r].info
<1> DEFINE a == request[r]
           i == a.id
<1>1. i \in Ids /\ row[i] \in Rows /\ i <= last /\ row[i].table = a.table
  BY DEF PatchedBy, Onward, RecordsInv, Named, Aims, TypeOK
<1>2. a.key \in Keys \cup {Absent} /\ a.info \in Infos \cup {Absent}
  BY RequestFields DEF RecordsInv
<1>3. Given(row[i].key, a.key) \in Keys
  BY <1>1, <1>2, NoRowFacts DEF Given
<1>4. Given(row[i].info, a.info) \in Infos \cup {Absent}
  BY <1>1, <1>2, NoRowFacts DEF Given
<1> QED BY <1>1, <1>3, <1>4 DEF Patched, Rows, Given

LEMMA RowsKept ==
  ASSUME RecordsInv, NEW r \in Requests, Onward(r), Moves(r)
  PROVE  /\ last' \in 0 .. MaxRows /\ row' \in [Ids -> Rows \cup {NoRow}] /\ Fresh'
         /\ \A i \in Ids : i <= last /\ row'[i] # NoRow =>
              row[i] # NoRow /\ row'[i].table = row[i].table
         /\ last \in 0 .. MaxRows /\ last <= last'
<1> DEFINE a == request[r]
<1>1. /\ last \in 0 .. MaxRows /\ MaxRows \in Nat /\ row \in [Ids -> Rows \cup {NoRow}]
      /\ a \in Asks /\ Fresh
  BY RowsAssumption, RequestFields DEF RecordsInv, TypeOK
<1>2. CASE Added(r)
  <2> DEFINE n == [table |-> a.table, key |-> a.key, info |-> a.info]
  <2>1. last + 1 \in Ids /\ n \in Rows
    BY <1>1, <1>2, RequestFields DEF Added, Ids, Rows, RecordsInv, Named, Onward
  <2>2. row' = [row EXCEPT ![last + 1] = n] /\ last' = last + 1
    BY <1>2 DEF Added
  <2> HIDE DEF n
  <2> QED BY <1>1, <2>1, <2>2 DEF Ids, Fresh
<1>3. CASE PatchedBy(r)
  <2> DEFINE p == Patched(a.id, a)
  <2>1. /\ a.id \in Ids /\ a.id <= last /\ p \in Rows /\ p.table = row[a.id].table
        /\ row[a.id] # NoRow
    BY <1>3, PatchedRow, NoRowFacts
  <2>2. row' = [row EXCEPT ![a.id] = p] /\ last' = last
    BY <1>3 DEF PatchedBy
  <2> HIDE DEF p
  <2> QED BY <1>1, <2>1, <2>2 DEF Ids, Fresh
<1>4. CASE Removed(r)
  <2>1. row' = [row EXCEPT ![a.id] = NoRow] /\ last' = last
    BY <1>4 DEF Removed
  <2>2. \A i \in Ids : row'[i] = IF i = a.id THEN NoRow ELSE row[i]
    BY <1>1, <2>1
  <2>3. row' \in [Ids -> Rows \cup {NoRow}]
    BY <1>1, <2>1
  <2> QED BY <1>1, <2>1, <2>2, <2>3 DEF Ids, Fresh
<1>5. CASE row' = row /\ last' = last
  BY <1>1, <1>5 DEF Ids, Fresh
<1> QED BY <1>2, <1>3, <1>4, <1>5 DEF Moves

LEMMA HandledKeeps ==
  ASSUME RecordsInv, NEW r \in Requests, Handled(r)
  PROVE  RecordsInv'
<1>1. Onward(r) /\ Moves(r)
  BY DEF Handled
<1>2. /\ last \in Nat /\ last' \in Nat /\ last <= last'
      /\ row \in [Ids -> Rows \cup {NoRow}] /\ row' \in [Ids -> Rows \cup {NoRow}]
  BY <1>1, RowsKept, RowsAssumption DEF RecordsInv, TypeOK
<1>3. TypeOK' /\ Fresh'
  BY <1>1, RowsKept DEF TypeOK, Onward
<1>4. ASSUME NEW q \in Requests PROVE (Named(request[q]) /\ Aims(request[q]))'
  <2>1. CASE q # r
    <3>1. request'[q] = request[q] /\ Named(request[q]) /\ Aims(request[q])
      BY <1>1, <2>1 DEF Onward, RecordsInv
    <3>2. request[q].id \in Nat
      BY RequestFields, RowsAssumption DEF RecordsInv
    <3>3. request[q].at = "write" /\ request[q].op = "update" => request[q].id \in Ids
      BY <3>1 DEF Named
    <3> QED BY <1>1, <1>2, <3>1, <3>2, <3>3, RowsKept DEF Named, Aims
  <2>2. CASE q = r
    <3>1. Named(request'[r])
      BY <1>1 DEF Onward
    <3>2. CASE request'[r].at = "write" /\ request'[r].op = "update"
      <4> DEFINE a == request[r]
      <4>1. /\ a.op = "update" /\ request'[r].id = a.id /\ request'[r].table = a.table
            /\ Present(a.table, a.id) /\ row' = row /\ last' = last
        BY <1>1, <3>2 DEF Onward, Handled
      <4>2. a.id \in Ids /\ a.table \in Tables
        BY <1>1, <4>1, RequestFields DEF Onward, RecordsInv, Named
      <4>3. row[a.id] # NoRow
        BY <4>1, <4>2, NoRowFacts DEF Present
      <4>4. a.id <= last
        BY <1>2, <4>2, <4>3 DEF RecordsInv, Fresh, Ids
      <4> QED BY <2>2, <3>1, <4>1, <4>4 DEF Aims, Present, Named
    <3> QED BY <2>2, <3>1, <3>2 DEF Aims, Named
  <2> QED BY <2>1, <2>2
<1> QED BY <1>3, <1>4 DEF RecordsInv

LEMMA StartKeeps ==
  ASSUME RecordsInv, NEW r \in Requests, Start(r)
  PROVE  RecordsInv'
<1>1. PICK b \in UserRequests \cup GenreRequests \cup DirectorRequests :
        request' = [request EXCEPT ![r] =
          [op |-> b.op, table |-> b.table, id |-> b.id, key |-> b.key, info |-> b.info,
           at |-> "find", seen |-> NoRow, answer |-> "none"]]
  BY DEF Start
<1> DEFINE a == [op |-> b.op, table |-> b.table, id |-> b.id, key |-> b.key, info |-> b.info,
                 at |-> "find", seen |-> NoRow, answer |-> "none"]
<1>2. /\ b.op \in Ops /\ b.table \in Tables /\ b.id \in 0 .. MaxRows
      /\ b.key \in Keys \cup {Absent} /\ b.info \in Infos \cup {Absent}
      /\ IF b.op = "create" THEN b.key \in Keys ELSE b.id \in Ids
  BY RowsAssumption DEF UserRequests, GenreRequests, DirectorRequests, Bodies, Body, Ops,
     Tables, Ids
<1>3. a \in Asks /\ Named(a) /\ a.at = "find"
  BY <1>2 DEF Asks, Answers, Named
<1>4. request' = [request EXCEPT ![r] = a] /\ row' = row /\ last' = last
  BY <1>1 DEF Start
<1> HIDE DEF a
<1>5. request' \in [Requests -> Asks]
  BY <1>3, <1>4 DEF RecordsInv, TypeOK
<1>6. \A q \in Requests : request'[q] = IF q = r THEN a ELSE request[q]
  BY <1>4 DEF RecordsInv, TypeOK
<1>7. \A q \in Requests : (Named(request[q]) /\ Aims(request[q]))'
  BY <1>3, <1>4, <1>6 DEF RecordsInv, Named, Aims
<1> QED BY <1>4, <1>5, <1>7 DEF RecordsInv, TypeOK, Fresh

LEMMA NextHandles ==
  ASSUME RecordsInv, Next
  PROVE  \E r \in Requests : Handled(r) \/ (Start(r) /\ row' = row /\ last' = last)
BY StatementsHandle DEF Next, Start

LEMMA RecordsInit == Init => RecordsInv
<1> SUFFICES ASSUME Init PROVE RecordsInv
  OBVIOUS
<1>1. Waiting \in Asks /\ Waiting.at = "idle"
  BY RowsAssumption DEF Waiting, Asks, Ops, Tables, Answers
<1>2. request \in [Requests -> Asks] /\ \A r \in Requests : request[r].at = "idle"
  BY <1>1 DEF Init
<1>3. TypeOK /\ Fresh
  BY <1>2, RowsAssumption DEF Init, TypeOK, Fresh, Ids
<1> QED BY <1>2, <1>3 DEF RecordsInv, Named, Aims

LEMMA RecordsStep == RecordsInv /\ [Next]_vars => RecordsInv'
<1> SUFFICES ASSUME RecordsInv, [Next]_vars PROVE RecordsInv'
  OBVIOUS
<1>1. CASE Next
  BY <1>1, NextHandles, HandledKeeps, StartKeeps
<1>2. CASE UNCHANGED vars
  BY <1>2 DEF vars, RecordsInv, TypeOK, Fresh, Named, Aims
<1> QED BY <1>1, <1>2

LEMMA RecordsHolds == Spec => []RecordsInv
BY RecordsInit, RecordsStep, PTL DEF Spec

\* The rows and the requests keep their types.
THEOREM RecordsTypeCorrect == Spec => []TypeOK
<1>1. RecordsInv => TypeOK
  BY DEF RecordsInv
<1> QED BY <1>1, RecordsHolds, PTL

(***************************************************************************)
(* Keys.                                                                   *)
(***************************************************************************)

\* A row that is written shares its key with no other of its table.
LEMMA NoClash ==
  ASSUME NEW table \in {"user", "genre"}, NEW i, NEW k, ~Clash(table, i, k),
         NEW j \in Ids, j # i, row[j].table = table
  PROVE  row[j].key # k
BY DEF Clash, Unique, Holders, Present

LEMMA MovesKeepKeys ==
  ASSUME RecordsInv, UniqueKeys, NEW r \in Requests, Onward(r), Moves(r)
  PROVE  UniqueKeys'
<1> DEFINE a == request[r]
<1>0. /\ last \in Nat /\ row \in [Ids -> Rows \cup {NoRow}]
      /\ \A i \in Ids : row[i] = NoRow => row[i].table \notin {"user", "genre"}
  BY NoRowFacts, RowsAssumption DEF RecordsInv, TypeOK
<1> SUFFICES ASSUME NEW i \in Ids, NEW j \in Ids, i # j, row'[i].table = row'[j].table,
                    row'[i].table \in {"user", "genre"}
             PROVE  row'[i].key # row'[j].key
  BY DEF UniqueKeys
<1>1. ASSUME NEW n \in Ids, NEW new, row' = [row EXCEPT ![n] = new],
             \A m \in Ids : m # n /\ row[m].table = new.table
                              /\ new.table \in {"user", "genre"} => row[m].key # new.key
      PROVE  row'[i].key # row'[j].key
  <2>1. \A m \in Ids : row'[m] = IF m = n THEN new ELSE row[m]
    BY <1>0, <1>1
  <2>2. CASE i # n /\ j # n
    BY <2>1, <2>2 DEF UniqueKeys
  <2>3. CASE i = n
    BY <1>1, <2>1, <2>3
  <2>4. CASE j = n
    BY <1>1, <2>1, <2>4
  <2> QED BY <2>2, <2>3, <2>4
<1>2. CASE Added(r)
  <2> DEFINE new == [table |-> a.table, key |-> a.key, info |-> a.info]
  <2>1. last + 1 \in Ids /\ row' = [row EXCEPT ![last + 1] = new]
    BY <1>0, <1>2, RowsAssumption DEF Added, Ids
  <2>2. \A m \in Ids : row[m].table = new.table /\ new.table \in {"user", "genre"}
                         => row[m].key # new.key
    BY <1>2, NoClash, 0 \notin Ids DEF Added, Ids
  <2> HIDE DEF new
  <2> QED BY <1>1, <2>1, <2>2
<1>3. CASE PatchedBy(r)
  <2> DEFINE p == Patched(a.id, a)
  <2>1. /\ a.id \in Ids /\ row[a.id].table = a.table /\ p.table = a.table
        /\ p.key = IF a.key = Absent THEN row[a.id].key ELSE a.key
    BY <1>3, PatchedRow
  <2>2. row' = [row EXCEPT ![a.id] = p]
    BY <1>3 DEF PatchedBy
  <2>3. \A m \in Ids : m # a.id /\ row[m].table = p.table /\ p.table \in {"user", "genre"}
                         => row[m].key # p.key
    <3>1. CASE a.key = Absent
      BY <2>1, <3>1 DEF UniqueKeys
    <3>2. CASE a.key # Absent
      BY <1>3, <2>1, <3>2, NoClash DEF PatchedBy, UpdateFails
    <3> QED BY <3>1, <3>2
  <2> HIDE DEF p
  <2> QED BY <1>1, <2>1, <2>2, <2>3
<1>4. CASE Removed(r)
  <2>1. \A m \in Ids : row'[m] \in {NoRow, row[m]}
    BY <1>0, <1>4 DEF Removed
  <2>2. row'[i] = row[i] /\ row'[j] = row[j]
    BY <1>0, <2>1, NoRowFacts
  <2> QED BY <2>2 DEF UniqueKeys
<1>5. CASE row' = row
  BY <1>5 DEF UniqueKeys
<1> QED BY <1>2, <1>3, <1>4, <1>5 DEF Moves

LEMMA KeysInit == Init => UniqueKeys
<1> SUFFICES ASSUME Init, NEW i \in Ids, NEW j \in Ids, i # j, row[i].table = row[j].table,
                    row[i].table \in {"user", "genre"}
             PROVE  row[i].key # row[j].key
  BY DEF UniqueKeys
<1>1. row[i] # NoRow /\ row[j] # NoRow
  BY NoRowFacts
<1>2. i \in 1 .. Seeded /\ j \in 1 .. Seeded
  BY <1>1, RowsAssumption DEF Init, Ids
<1> QED BY <1>2 DEF Init

LEMMA KeysStep == RecordsInv /\ UniqueKeys /\ [Next]_vars => UniqueKeys'
<1> SUFFICES ASSUME RecordsInv, UniqueKeys, [Next]_vars PROVE UniqueKeys'
  OBVIOUS
<1>1. CASE Next
  <2>1. PICK r \in Requests : Handled(r) \/ row' = row
    BY <1>1, NextHandles
  <2>2. CASE Handled(r)
    BY <2>2, MovesKeepKeys DEF Handled
  <2>3. CASE row' = row
    BY <2>3 DEF UniqueKeys
  <2> QED BY <2>1, <2>2, <2>3
<1>2. CASE UNCHANGED vars
  BY <1>2 DEF vars, UniqueKeys
<1> QED BY <1>1, <1>2

\* E-mails and genre names stay unique however many requests interleave: of those
\* that look, insert and rename at once, the constraint lets one through.
THEOREM KeysAreUnique == Spec => []UniqueKeys
BY RecordsInit, KeysInit, RecordsStep, KeysStep, RecordsHolds, PTL DEF Spec

(***************************************************************************)
(* Updates.                                                                *)
(***************************************************************************)

LEMMA RemovedStep ==
  RecordsInv /\ [Next]_vars =>
    \A i \in Ids : i <= last /\ row[i] = NoRow => row'[i] = NoRow
<1> SUFFICES ASSUME RecordsInv, [Next]_vars
             PROVE  \A i \in Ids : i <= last /\ row[i] = NoRow => row'[i] = NoRow
  OBVIOUS
<1>1. CASE Next
  <2>1. PICK r \in Requests : Handled(r) \/ row' = row
    BY <1>1, NextHandles
  <2>2. CASE Handled(r)
    BY <2>2, RowsKept DEF Handled
  <2> QED BY <2>1, <2>2
<1>2. CASE UNCHANGED vars
  BY <1>2 DEF vars
<1> QED BY <1>1, <1>2

\* No update brings a removed row back, whatever it had read of it.
THEOREM RemovedIsForGood == Spec => RemovedStaysRemoved
<1>1. RecordsInv /\ [Next]_vars =>
        [\A i \in Ids : i <= last /\ row[i] = NoRow => row'[i] = NoRow]_vars
  BY RemovedStep
<1> QED BY <1>1, RecordsHolds, PTL DEF Spec, RemovedStaysRemoved

\* A step that changes a column is the UPDATE of a request that gave it.
ColumnGiven(i) ==
  row[i] # NoRow /\ row'[i] # NoRow =>
    /\ row'[i].key # row[i].key =>
         \E r \in Requests : request[r].id = i /\ request[r].key = row'[i].key
                             /\ request[r].at = "write" /\ request'[r].at # "write"
    /\ row'[i].info # row[i].info =>
         \E r \in Requests : request[r].id = i /\ request[r].info = row'[i].info
                             /\ request[r].at = "write" /\ request'[r].at # "write"

LEMMA GivenStep ==
  RecordsInv /\ [Next]_vars => \A i \in Ids : ColumnGiven(i)
<1> SUFFICES ASSUME RecordsInv, [Next]_vars, NEW i \in Ids PROVE ColumnGiven(i)
  OBVIOUS
<1>0. row \in [Ids -> Rows \cup {NoRow}] /\ last \in Nat
  BY RowsAssumption DEF RecordsInv, TypeOK
<1>1. ASSUME NEW r \in Requests, Handled(r) PROVE ColumnGiven(i)
  <2> DEFINE a == request[r]
  <2>1. CASE Added(r)
    <3>1. row[last + 1] = NoRow \/ last + 1 \notin Ids
      BY <1>0 DEF RecordsInv, Fresh
    <3> QED BY <1>0, <2>1, <3>1 DEF Added, ColumnGiven
  <2>2. CASE PatchedBy(r)
    <3> DEFINE p == Patched(a.id, a)
    <3>1. /\ a.id \in Ids
          /\ p.key = IF a.key = Absent THEN row[a.id].key ELSE a.key
          /\ p.info = IF a.info = Absent THEN row[a.id].info ELSE a.info
      BY <1>1, <2>2, PatchedRow DEF Handled
    <3>2. row' = [row EXCEPT ![a.id] = p] /\ a.at = "write" /\ request'[r].at = "back"
      BY <1>1, <2>2 DEF PatchedBy, Handled
    <3> HIDE DEF p
    <3> QED BY <1>0, <3>1, <3>2 DEF ColumnGiven
  <2>3. CASE Removed(r)
    BY <1>0, <2>3 DEF Removed, ColumnGiven
  <2>4. CASE row' = row
    BY <2>4 DEF ColumnGiven
  <2> QED BY <1>1, <2>1, <2>2, <2>3, <2>4 DEF Handled, Moves
<1>2. CASE row' = row
  BY <1>2 DEF ColumnGiven
<1> QED BY <1>1, <1>2, NextHandles DEF vars

\* Updates that overlap keep what the other has written in columns they do not give.
THEOREM OthersColumnsStay == Spec => OnlyGivenChange
<1>1. RecordsInv /\ [Next]_vars => [\A i \in Ids : ColumnGiven(i)]_vars
  BY GivenStep
<1> QED BY <1>1, RecordsHolds, PTL DEF Spec, OnlyGivenChange, ColumnGiven
=============================================================================
