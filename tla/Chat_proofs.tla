---------------------------- MODULE Chat_proofs ----------------------------
(***************************************************************************)
(* Theorems about Chat, for any sockets, messages, faults and pool: types, *)
(* the registry of connected clients, who follows which room, that a       *)
(* transaction leaves all of its rows or none, and who hears a message.    *)
(***************************************************************************)
EXTENDS Chat, TLAPS

\* Rooms keep to their customer and admins, and a message in the making has been
\* heard by no one: what Confined needs to be inductive.
Follows ==
  /\ \A r \in RoomIds : \A u \in members[r] : u \in Admins \/ u = CustomerOf(r)
  /\ \A m \in Messages : admin[m] \in Admins
  /\ \A u \in Users : clients[u] # NoSocket => OwnerOf[clients[u]] = u
  /\ \A m \in Messages : pc[m] \notin {"commit", "done", "lost"} => heard[m] = {}

\* What a message's transaction has written where its handler stands.
RoomReady(m) == rooms[roomOf[m]] = "stored" \/ (roomOf[m] = m /\ rooms[m] = "pending")
Written(m) ==
  /\ pc[m] \in {"unsent", "sent", "findUser", "findRoom", "findAdmin", "saveRoom",
                "failed", "lost"} => chat[m] = "none" /\ rooms[m] = "none"
  /\ pc[m] \in {"saveChat", "commit"} =>
       /\ roomOf[m] \in RoomIds /\ RoomReady(m)
       /\ rooms[m] # "stored" /\ (rooms[m] = "pending" => roomOf[m] = m)
  /\ pc[m] = "saveChat" => chat[m] = "none"
  /\ pc[m] = "commit"   => chat[m] = "pending"
  /\ pc[m] = "done" => /\ chat[m] = "stored" /\ roomOf[m] \in RoomIds
                       /\ rooms[roomOf[m]] = "stored" /\ rooms[m] # "pending"
TxRows == /\ \A r \in OldRooms : rooms[r] # "pending"
          /\ \A m \in Messages : Written(m)

(***************************************************************************)
(* Type correctness.                                                       *)
(***************************************************************************)

LEMMA IdFacts ==
  /\ Messages \subseteq RoomIds /\ OldRooms \subseteq RoomIds
  /\ \A m \in Messages : m \notin OldRooms /\ Author(m) \in Users /\ CustomerOf(m) = Author(m)
  /\ \A s \in Sockets : OwnerOf[s] \in Users
BY ChatAssumption DEF RoomIds, CustomerOf, Author

LEMMA TypeInit == Init => TypeOK
<1> SUFFICES ASSUME Init PROVE TypeOK
  OBVIOUS
<1>1. PICK old \in {{}, OldRooms}, d \in Admins :
        /\ rooms   = [r \in RoomIds |-> IF r \in old THEN "stored" ELSE "none"]
        /\ members = [r \in RoomIds |-> IF r \in old THEN {OldCustomer[r], d} ELSE {}]
        /\ admin   = [m \in Messages |-> d]
  BY DEF Init
<1>2. d \in Users
  BY <1>1, ChatAssumption
<1>3. members \in [RoomIds -> SUBSET Users]
  <2>1. \A r \in OldRooms : OldCustomer[r] \in Users
    BY ChatAssumption
  <2> QED BY <1>1, <1>2, <2>1
<1>4. rooms \in [RoomIds -> RowState] /\ admin \in [Messages -> Users]
  BY <1>1, <1>2 DEF RowState
<1>5. users \in SUBSET Users /\ chat \in [Messages -> RowState]
  BY DEF Init, RowState
<1>6. /\ conn    \in [Sockets -> {"new", "querying", "joining", "open", "closed"}]
      /\ clients \in [Users -> Sockets \cup {NoSocket}]
      /\ found   \in [Sockets -> SUBSET RoomIds]
      /\ joined  \in [Sockets -> SUBSET RoomIds]
  BY DEF Init
<1>7. /\ pc      \in [Messages -> {"unsent", "sent"} \cup InTx \cup Settled]
      /\ asked   \in [Messages -> RoomIds \cup {NoRoom}]
      /\ roomOf  \in [Messages -> RoomIds \cup {NoRoom}]
      /\ heard   \in [Messages -> SUBSET Sockets]
  BY DEF Init
<1> QED BY <1>3, <1>4, <1>5, <1>6, <1>7 DEF TypeOK

\* One lemma for the sockets' own actions, one for the handler's, one for the rest.
LEMMA TypeSockets ==
  ASSUME TypeOK, NEW s \in Sockets, Connect(s) \/ Join(s) \/ Close(s) PROVE TypeOK'
<1> USE IdFacts DEF TypeOK, db, handler
<1>1. CASE Connect(s)
  BY <1>1 DEF Connect, AfterConnect
<1>2. CASE QueryRooms(s)
  <2>1. RoomsOf(OwnerOf[s]) \in SUBSET RoomIds
    BY DEF RoomsOf
  <2> QED BY <1>2, <2>1 DEF QueryRooms
<1>3. CASE JoinRooms(s)
  BY <1>3 DEF JoinRooms
<1>4. CASE Close(s)
  BY <1>4 DEF Close, AfterClose
<1> QED BY <1>1, <1>2, <1>3, <1>4 DEF Join

LEMMA TypeHandler ==
  ASSUME TypeOK, NEW m \in Messages, Send(m) \/ Handle(m) \/ Fail(m) PROVE TypeOK'
<1> USE IdFacts DEF TypeOK, db, sockets, handler, Goto
<1>1. CASE Send(m)
  <2>1. PICK r \in {q \in RoomIds : rooms[q] = "stored"} \cup joined[SocketOf[m]] \cup {NoRoom} :
          asked' = [asked EXCEPT ![m] = r]
    BY <1>1 DEF Send
  <2>2. r \in RoomIds \cup {NoRoom}
    BY <2>1, ChatAssumption
  <2> QED BY <1>1, <2>1, <2>2 DEF Send
<1>2. CASE Begin(m)
  BY <1>2 DEF Begin, InTx
<1>3. CASE FindUser(m)
  BY <1>3 DEF FindUser, InTx
<1>4. CASE FindRoom(m)
  <2>1. PICK r \in RoomChoices(m) : roomOf' = [roomOf EXCEPT ![m] = r]
    BY <1>4 DEF FindRoom
  <2>2. r \in RoomIds \cup {NoRoom}
    BY <2>1 DEF RoomChoices, RoomsOf
  <2> QED BY <1>4, <2>1, <2>2 DEF FindRoom, InTx
<1>5. CASE NoRoomYet(m)
  BY <1>5 DEF NoRoomYet, InTx
<1>6. CASE FindAdmin(m)
  <2>1. PICK d \in Admins \cap users : admin' = [admin EXCEPT ![m] = d]
    BY <1>6 DEF FindAdmin
  <2> QED BY <1>6, <2>1 DEF FindAdmin, InTx
<1>7. CASE SaveRoom(m)
  <2>1. joined' \in [Sockets -> SUBSET RoomIds]
    BY <1>7 DEF SaveRoom
  <2>2. rooms' \in [RoomIds -> RowState] /\ members' \in [RoomIds -> SUBSET Users]
    BY <1>7 DEF SaveRoom, RoomRow, RowState
  <2> QED BY <1>7, <2>1, <2>2 DEF SaveRoom, InTx
<1>8. CASE SaveChat(m)
  <2>1. {s \in Sockets : roomOf[m] \in joined[s]} \in SUBSET Sockets
    OBVIOUS
  <2>2. chat' \in [Messages -> RowState]
    BY <1>8 DEF SaveChat, ChatRow, RowState
  <2> QED BY <1>8, <2>1, <2>2 DEF SaveChat, InTx
<1>9. CASE Commit(m)
  <2>1. chat' \in [Messages -> RowState] /\ rooms' \in [RoomIds -> RowState]
    BY <1>9 DEF Commit, RowState
  <2> QED BY <1>9, <2>1 DEF Commit, Settled
<1>10. CASE RollBack(m)
  <2>1. rooms' \in [RoomIds -> RowState] /\ members' \in [RoomIds -> SUBSET Users]
    BY <1>10 DEF RollBack, RowState
  <2> QED BY <1>10, <2>1 DEF RollBack, Settled
<1> QED
  BY <1>1, <1>2, <1>3, <1>4, <1>5, <1>6, <1>7, <1>8, <1>9, <1>10 DEF Handle, Throw, Fail

LEMMA TypeRest ==
  ASSUME TypeOK, (\E u \in Users : RemoveUser(u)) \/ Crash PROVE TypeOK'
<1> USE DEF TypeOK, sockets, handler
<1>1. ASSUME NEW u \in Users, RemoveUser(u) PROVE TypeOK'
  BY <1>1 DEF RemoveUser
<1>2. CASE Crash
  <2>1. chat' \in [Messages -> RowState] /\ rooms' \in [RoomIds -> RowState]
    BY <1>2 DEF Crash, RowState
  <2>2. conn' \in [Sockets -> {"new", "querying", "joining", "open", "closed"}]
    BY <1>2 DEF Crash
  <2>3. members' \in [RoomIds -> SUBSET Users]
    BY <1>2 DEF Crash
  <2>4. pc' \in [Messages -> {"unsent", "sent"} \cup InTx \cup Settled]
    BY <1>2 DEF Crash, Settled
  <2> QED BY <1>2, <2>1, <2>2, <2>3, <2>4 DEF Crash
<1> QED BY <1>1, <1>2

LEMMA TypeStep == TypeOK /\ [Next]_vars => TypeOK'
<1> SUFFICES ASSUME TypeOK, [Next]_vars PROVE TypeOK'
  OBVIOUS
<1>1. CASE UNCHANGED vars
  BY <1>1 DEF TypeOK, vars, db, sockets, handler
<1>2. CASE Next
  BY <1>2, TypeSockets, TypeHandler, TypeRest DEF Next
<1> QED BY <1>1, <1>2

\* The variables of Chat keep their types.
THEOREM ChatTypeCorrect == Spec => []TypeOK
BY TypeInit, TypeStep, PTL DEF Spec, Safe

(***************************************************************************)
(* The registry of connected clients.                                      *)
(***************************************************************************)

LEMMA RegistryStep == TypeOK /\ RegistryLive /\ [Next]_vars => RegistryLive'
<1> SUFFICES ASSUME TypeOK, RegistryLive, [Next]_vars PROVE RegistryLive'
  OBVIOUS
<1> USE IdFacts
<1>1. ASSUME NEW s \in Sockets, Connect(s) PROVE RegistryLive'
  <2>1. CASE conn' = [conn EXCEPT ![s] = "querying"] /\ clients' = AfterConnect(s)
    BY <2>1, ChatAssumption DEF AfterConnect, RegistryLive, TypeOK, Live
  <2>2. CASE conn' = [conn EXCEPT ![s] = "closed"] /\ clients' = clients
    <3>1. conn[s] = "new"
      BY <1>1 DEF Connect
    <3> QED BY <2>2, <3>1 DEF RegistryLive, TypeOK, Live
  <2> QED BY <1>1, <2>1, <2>2 DEF Connect
<1>2. ASSUME NEW s \in Sockets, Join(s) PROVE RegistryLive'
  BY <1>2 DEF Join, QueryRooms, JoinRooms, RegistryLive, TypeOK, Live
<1>3. ASSUME NEW s \in Sockets, Close(s) PROVE RegistryLive'
  BY <1>3 DEF Close, AfterClose, RegistryLive, TypeOK, Live
<1>4. ASSUME NEW m \in Messages, Send(m) \/ Handle(m) \/ Fail(m) PROVE RegistryLive'
  <2>1. UNCHANGED <<conn, clients>>
    BY <1>4 DEF Send, Handle, Fail, Throw, RollBack, Begin, FindUser, FindRoom, NoRoomYet,
                FindAdmin, SaveRoom, SaveChat, Commit, sockets
  <2> QED BY <2>1 DEF RegistryLive, Live
<1>5. ASSUME NEW u \in Users, RemoveUser(u) PROVE RegistryLive'
  BY <1>5 DEF RemoveUser, sockets, RegistryLive, Live
<1>6. CASE Crash
  BY <1>6 DEF Crash, RegistryLive
<1>7. CASE UNCHANGED vars
  BY <1>7 DEF vars, sockets, RegistryLive, Live
<1> QED BY <1>1, <1>2, <1>3, <1>4, <1>5, <1>6, <1>7 DEF Next

\* connectedClients only ever names a connected socket of the right user, for any
\* number of sockets per user and any order of their connections and disconnections.
THEOREM RegistryIsLive == Spec => []RegistryLive
<1>1. Init => RegistryLive
  BY DEF Init, RegistryLive
<1> QED BY <1>1, TypeInit, TypeStep, RegistryStep, PTL DEF Spec, Safe

(***************************************************************************)
(* Who follows which room.                                                 *)
(***************************************************************************)

ConfinedInv == Follows /\ Confined

LEMMA FollowsInit == Init => ConfinedInv
<1> SUFFICES ASSUME Init PROVE ConfinedInv
  OBVIOUS
<1>1. PICK old \in {{}, OldRooms}, d \in Admins :
        /\ members = [r \in RoomIds |-> IF r \in old THEN {OldCustomer[r], d} ELSE {}]
        /\ admin   = [m \in Messages |-> d]
  BY DEF Init
<1>2. \A r \in RoomIds : \A u \in members[r] : u \in Admins \/ u = CustomerOf(r)
  BY <1>1 DEF CustomerOf
<1> QED BY <1>1, <1>2 DEF ConfinedInv, Follows, Confined, Init

\* A user's rooms are rooms the user's sockets may follow.
LEMMA RoomsOfFollow ==
  ASSUME Follows, NEW s, NEW r \in RoomsOf(OwnerOf[s]) PROVE MayFollow(s, r)
BY DEF Follows, RoomsOf, MayFollow

LEMMA FollowsSockets ==
  ASSUME TypeOK, ConfinedInv, NEW s \in Sockets, Connect(s) \/ Join(s) \/ Close(s)
  PROVE  ConfinedInv'
<1> USE IdFacts DEF ConfinedInv, Follows, Confined, MayFollow, CustomerOf, Author, db, handler
<1>1. CASE Connect(s)
  <2>1. \A u \in Users : clients'[u] # NoSocket => OwnerOf[clients'[u]] = u
    BY <1>1 DEF Connect, AfterConnect, TypeOK
  <2> QED BY <1>1, <2>1 DEF Connect
<1>2. CASE QueryRooms(s)
  <2>1. \A q \in Sockets : found'[q] = found[q] \/ (q = s /\ found'[q] = RoomsOf(OwnerOf[s]))
    BY <1>2 DEF QueryRooms, TypeOK
  <2>2. \A r \in RoomsOf(OwnerOf[s]) : MayFollow(s, r)
    BY RoomsOfFollow
  <2> QED BY <1>2, <2>1, <2>2 DEF QueryRooms
<1>3. CASE JoinRooms(s)
  <2>1. \A q \in Sockets : joined'[q] \cup found'[q] \subseteq joined[q] \cup found[q]
    BY <1>3 DEF JoinRooms, TypeOK
  <2> QED BY <1>3, <2>1 DEF JoinRooms
<1>4. CASE Close(s)
  <2>1. \A q \in Sockets : joined'[q] \cup found'[q] \subseteq joined[q] \cup found[q]
    BY <1>4 DEF Close, TypeOK
  <2>2. \A u \in Users : clients'[u] # NoSocket => OwnerOf[clients'[u]] = u
    BY <1>4 DEF Close, AfterClose, TypeOK
  <2> QED BY <1>4, <2>1, <2>2 DEF Close
<1> QED BY <1>1, <1>2, <1>3, <1>4 DEF Join

\* The handler's steps that touch neither memberships nor the socket.io rooms.
LEMMA FollowsQuiet ==
  ASSUME TypeOK, ConfinedInv, NEW m \in Messages,
         UNCHANGED <<members, clients, joined, found, heard>>,
         roomOf' = roomOf \/ (heard[m] = {} /\ \A n \in Messages \ {m} : roomOf'[n] = roomOf[n]),
         admin' = admin \/ \E d \in Admins : admin' = [admin EXCEPT ![m] = d],
         \A n \in Messages : pc'[n] \notin {"commit", "done", "lost"} =>
                                pc[n] \notin {"commit", "done", "lost"}
  PROVE  ConfinedInv'
<1>1. \A n \in Messages : admin'[n] \in Admins
  BY DEF ConfinedInv, Follows, TypeOK
<1>2. \A n \in Messages : \A s \in heard'[n] : MayFollow(s, roomOf'[n])
  BY DEF ConfinedInv, Confined
<1> QED BY <1>1, <1>2 DEF ConfinedInv, Follows, Confined, MayFollow

LEMMA FollowsHandler ==
  ASSUME TypeOK, ConfinedInv, NEW m \in Messages, Send(m) \/ Handle(m) \/ Fail(m)
  PROVE  ConfinedInv'
<1> DEFINE Over == {"commit", "done", "lost"}
<1>0. pc \in [Messages -> {"unsent", "sent"} \cup InTx \cup Settled]
  BY DEF TypeOK
<1>1. CASE Send(m)
  <2>1. \A n \in Messages : pc'[n] \notin Over => pc[n] \notin Over
    BY <1>0, <1>1 DEF Send, Goto
  <2> QED BY <1>1, <2>1, FollowsQuiet DEF Send, db, sockets
<1>2. CASE Begin(m) \/ FindUser(m) \/ NoRoomYet(m)
  <2>1. \A n \in Messages : pc'[n] \notin Over => pc[n] \notin Over
    BY <1>0, <1>2 DEF Begin, FindUser, NoRoomYet, Goto
  <2> QED BY <1>2, <2>1, FollowsQuiet DEF Begin, FindUser, NoRoomYet, db, sockets, handler
<1>3. CASE FindRoom(m)
  <2>1. \A n \in Messages : pc'[n] \notin Over => pc[n] \notin Over
    BY <1>0, <1>3 DEF FindRoom, Goto
  <2>2. heard[m] = {}
    BY <1>3 DEF FindRoom, Goto, ConfinedInv, Follows
  <2>3. \A n \in Messages \ {m} : roomOf'[n] = roomOf[n]
    BY <1>3 DEF FindRoom, TypeOK
  <2> QED BY <1>3, <2>1, <2>2, <2>3, FollowsQuiet DEF FindRoom, db, sockets
<1>4. CASE FindAdmin(m)
  <2>1. \A n \in Messages : pc'[n] \notin Over => pc[n] \notin Over
    BY <1>0, <1>4 DEF FindAdmin, Goto
  <2> QED BY <1>4, <2>1, FollowsQuiet DEF FindAdmin, db, sockets
<1>5. CASE SaveRoom(m)
  <2>1. heard' = heard /\ heard[m] = {} /\ admin' = admin /\ clients' = clients /\ found' = found
    BY <1>5 DEF SaveRoom, Goto, ConfinedInv, Follows
  <2>2. \A r \in RoomIds : \A u \in members'[r] : u \in Admins \/ u = CustomerOf(r)
    <3>1. members' = [members EXCEPT ![m] = {Author(m), admin[m]}]
      BY <1>5 DEF SaveRoom
    <3>2. admin[m] \in Admins /\ CustomerOf(m) = Author(m)
      BY IdFacts DEF ConfinedInv, Follows
    <3> QED BY <3>1, <3>2 DEF ConfinedInv, Follows, TypeOK
  <2>3. \A n \in Messages : \A s \in heard'[n] : MayFollow(s, roomOf'[n])
    <3>1. \A n \in Messages \ {m} : roomOf'[n] = roomOf[n]
      BY <1>5 DEF SaveRoom, TypeOK
    <3> QED BY <2>1, <3>1 DEF ConfinedInv, Confined
  <2>4. \A s \in Sockets : \A r \in joined'[s] \cup found'[s] : MayFollow(s, r)
    <3>1. \A s \in Sockets : joined'[s] = IF s \in Told(m) THEN joined[s] \cup {m} ELSE joined[s]
      BY <1>5 DEF SaveRoom
    <3>2. \A s \in Told(m) : MayFollow(s, m)
      <4>1. Author(m) \in Users /\ admin[m] \in Users /\ CustomerOf(m) = Author(m)
        BY IdFacts DEF TypeOK
      <4>2. admin[m] \in Admins
        BY DEF ConfinedInv, Follows
      <4> QED BY <4>1, <4>2 DEF Told, ConfinedInv, Follows, MayFollow
    <3> QED BY <2>1, <3>1, <3>2 DEF ConfinedInv, Confined
  <2>5. \A n \in Messages : pc'[n] \notin Over => heard'[n] = {}
    <3>1. \A n \in Messages : pc'[n] \notin Over => pc[n] \notin Over
      BY <1>0, <1>5 DEF SaveRoom, Goto
    <3> QED BY <2>1, <3>1 DEF ConfinedInv, Follows
  <2> QED BY <2>1, <2>2, <2>3, <2>4, <2>5 DEF ConfinedInv, Follows, Confined, MayFollow
<1>6. CASE SaveChat(m)
  <2>1. UNCHANGED <<members, admin, clients, joined, found, roomOf>>
    BY <1>6 DEF SaveChat, sockets
  <2>2. heard' = [heard EXCEPT ![m] = {s \in Sockets : roomOf[m] \in joined[s]}]
    BY <1>6 DEF SaveChat
  <2>3. \A n \in Messages : \A s \in heard'[n] : MayFollow(s, roomOf'[n])
    BY <2>1, <2>2 DEF ConfinedInv, Confined, TypeOK
  <2>4. \A n \in Messages : pc'[n] \notin Over => heard'[n] = {}
    <3>1. pc' = [pc EXCEPT ![m] = "commit"]
      BY <1>6 DEF SaveChat, Goto
    <3> QED BY <1>0, <2>2, <3>1 DEF ConfinedInv, Follows, TypeOK
  <2> QED BY <2>1, <2>3, <2>4 DEF ConfinedInv, Follows, Confined, MayFollow
<1>7. CASE Commit(m)
  <2>1. \A n \in Messages : pc'[n] \notin Over => pc[n] \notin Over
    BY <1>0, <1>7 DEF Commit, Goto
  <2> QED BY <1>7, <2>1, FollowsQuiet DEF Commit, sockets, handler
<1>8. CASE Throw(m) \/ Fail(m)
  <2>1. pc[m] \notin Over /\ RollBack(m)
    BY <1>8 DEF Throw, Fail, Refused, InTx
  <2>2. \A n \in Messages : pc'[n] \notin Over => heard'[n] = {}
    BY <1>0, <2>1 DEF RollBack, handler, ConfinedInv, Follows
  <2>3. \A r \in RoomIds : members'[r] \subseteq members[r]
    BY <2>1 DEF RollBack, TypeOK
  <2> QED BY <2>1, <2>2, <2>3
          DEF RollBack, sockets, handler, ConfinedInv, Follows, Confined, MayFollow
<1> QED
  BY <1>1, <1>2, <1>3, <1>4, <1>5, <1>6, <1>7, <1>8 DEF Handle

LEMMA FollowsRest ==
  ASSUME TypeOK, ConfinedInv, (\E u \in Users : RemoveUser(u)) \/ Crash PROVE ConfinedInv'
<1>1. ASSUME NEW u \in Users, RemoveUser(u) PROVE ConfinedInv'
  <2>1. \A r \in RoomIds : members'[r] \subseteq members[r]
    BY <1>1 DEF RemoveUser
  <2> QED BY <1>1, <2>1
          DEF RemoveUser, sockets, handler, ConfinedInv, Follows, Confined, MayFollow
<1>2. CASE Crash
  <2>1. \A r \in RoomIds : members'[r] \subseteq members[r]
    BY <1>2 DEF Crash
  <2>2. \A n \in Messages : pc'[n] \notin {"commit", "done", "lost"} =>
                               pc[n] \notin {"commit", "done", "lost"}
    BY <1>2 DEF Crash, InTx
  <2>3. \A s \in Sockets : joined'[s] \cup found'[s] = {}
    BY <1>2 DEF Crash
  <2>4. \A u \in Users : clients'[u] = NoSocket
    BY <1>2 DEF Crash
  <2>5. UNCHANGED handler
    BY <1>2 DEF Crash
  <2> QED BY <2>1, <2>2, <2>3, <2>4, <2>5
          DEF handler, ConfinedInv, Follows, Confined, MayFollow
<1> QED BY <1>1, <1>2

LEMMA FollowsStep == TypeOK /\ ConfinedInv /\ [Next]_vars => ConfinedInv'
<1> SUFFICES ASSUME TypeOK, ConfinedInv, [Next]_vars PROVE ConfinedInv'
  OBVIOUS
<1>1. CASE UNCHANGED vars
  BY <1>1 DEF vars, db, sockets, handler, ConfinedInv, Follows, Confined, MayFollow
<1>2. CASE Next
  BY <1>2, FollowsSockets, FollowsHandler, FollowsRest DEF Next
<1> QED BY <1>1, <1>2

\* No customer's socket is ever in, or hears a message of, another customer's room,
\* whatever the order of connections, first messages, refusals and restarts.
THEOREM ChatConfined == Spec => []Confined
<1>1. ConfinedInv => Confined
  BY DEF ConfinedInv
<1> QED BY <1>1, TypeInit, TypeStep, FollowsInit, FollowsStep, PTL DEF Spec, Safe

(***************************************************************************)
(* A transaction leaves all of its rows or none.                           *)
(***************************************************************************)

LEMMA TxRowsInit == Init => TxRows
<1> SUFFICES ASSUME Init PROVE TxRows
  OBVIOUS
<1>1. PICK old \in {{}, OldRooms} :
        rooms = [r \in RoomIds |-> IF r \in old THEN "stored" ELSE "none"]
  BY DEF Init
<1>2. \A m \in Messages : m \in RoomIds /\ m \notin old
  BY <1>1, IdFacts
<1> QED BY <1>1, <1>2, IdFacts DEF Init, TxRows, Written

\* A step of one message leaves alone what the others have written: they point at
\* stored rooms or at their own, and a stored room stays.
LEMMA WrittenFrame ==
  ASSUME TypeOK, TxRows, NEW n \in Messages,
         pc'[n] = pc[n], chat'[n] = chat[n], roomOf'[n] = roomOf[n], rooms'[n] = rooms[n],
         \A r \in RoomIds : rooms[r] = "stored" => rooms'[r] = "stored"
  PROVE  Written(n)'
<1>1. Written(n)
  BY DEF TxRows
<1> QED BY <1>1 DEF Written, RoomReady

LEMMA TxRowsStep1 ==
  ASSUME TypeOK, TxRows, NEW m \in Messages, Written(m)',
         \A n \in Messages \ {m} : /\ pc'[n] = pc[n] /\ chat'[n] = chat[n]
                                  /\ roomOf'[n] = roomOf[n] /\ rooms'[n] = rooms[n],
         \A r \in OldRooms : rooms'[r] = rooms[r],
         rooms[m] = "stored" => rooms'[m] = "stored"
  PROVE  TxRows'
<1>1. \A r \in RoomIds : rooms[r] = "stored" => rooms'[r] = "stored"
  BY DEF RoomIds
<1>2. \A n \in Messages \ {m} : Written(n)'
  BY <1>1, WrittenFrame
<1> QED BY <1>2 DEF TxRows

LEMMA TxRowsHandler ==
  ASSUME TypeOK, TxRows, NEW m \in Messages, Send(m) \/ Handle(m) \/ Fail(m)
  PROVE  TxRows'
<1> USE IdFacts
<1>0. Written(m) /\ m \in RoomIds /\ m \notin OldRooms
  BY DEF TxRows
<1>1. CASE \/ Send(m) \/ Begin(m) \/ FindUser(m) \/ NoRoomYet(m) \/ FindAdmin(m)
  <2>1. UNCHANGED <<rooms, chat, roomOf>>
    BY <1>1 DEF Send, Begin, FindUser, NoRoomYet, FindAdmin, db, handler
  <2>2. PICK from \in {"unsent", "sent", "findUser", "findRoom", "findAdmin"},
             to \in {"sent", "findUser", "findRoom", "findAdmin", "saveRoom"} : Goto(m, from, to)
    BY <1>1 DEF Send, Begin, FindUser, NoRoomYet, FindAdmin
  <2>3. Written(m)'
    BY <1>0, <2>1, <2>2 DEF Written, Goto, TypeOK
  <2> QED BY <2>1, <2>2, <2>3, TxRowsStep1 DEF Goto, TypeOK
<1>2. CASE FindRoom(m)
  <2>1. PICK r \in RoomChoices(m) : roomOf' = [roomOf EXCEPT ![m] = r]
    BY <1>2 DEF FindRoom
  <2>2. r \in RoomIds /\ rooms[r] = "stored"
    <3>1. CASE Author(m) \in Admins
      BY <2>1, <3>1, <1>2 DEF RoomChoices, TypeOK
    <3>2. CASE Author(m) \notin Admins
      BY <2>1, <3>2 DEF RoomChoices, RoomsOf
    <3> QED BY <3>1, <3>2
  <2>3. UNCHANGED <<rooms, chat>> /\ Goto(m, "findRoom", "saveChat")
    BY <1>2 DEF FindRoom, db
  <2>4. Written(m)'
    BY <1>0, <2>1, <2>2, <2>3 DEF Written, RoomReady, Goto, TypeOK
  <2> QED BY <2>1, <2>3, <2>4, TxRowsStep1 DEF Goto, TypeOK
<1>3. CASE SaveRoom(m)
  <2>1. /\ rooms' = [rooms EXCEPT ![m] = "pending"] /\ roomOf' = [roomOf EXCEPT ![m] = m]
        /\ chat' = chat /\ Goto(m, "saveRoom", "saveChat")
    BY <1>3 DEF SaveRoom, RoomRow
  <2>2. Written(m)'
    BY <1>0, <2>1 DEF Written, RoomReady, Goto, TypeOK
  <2>3. rooms[m] = "none"
    BY <1>0, <2>1 DEF Written, Goto
  <2> QED BY <1>0, <2>1, <2>2, <2>3, TxRowsStep1 DEF Goto, TypeOK
<1>4. CASE SaveChat(m)
  <2>1. /\ UNCHANGED <<rooms, roomOf>> /\ chat' = [chat EXCEPT ![m] = "pending"]
        /\ Goto(m, "saveChat", "commit")
    BY <1>4 DEF SaveChat, ChatRow
  <2>2. Written(m)'
    BY <1>0, <2>1 DEF Written, RoomReady, Goto, TypeOK
  <2> QED BY <2>1, <2>2, TxRowsStep1 DEF Goto, TypeOK
<1>5. CASE Commit(m)
  <2>1. /\ rooms' = [rooms EXCEPT ![roomOf[m]] = "stored"] /\ chat' = [chat EXCEPT ![m] = "stored"]
        /\ roomOf' = roomOf /\ Goto(m, "commit", "done")
    BY <1>5 DEF Commit, handler
  <2>2. roomOf[m] \in RoomIds /\ RoomReady(m) /\ rooms[m] # "stored"
        /\ (rooms[m] = "pending" => roomOf[m] = m)
    BY <1>0, <2>1 DEF Written, Goto
  <2>3. Written(m)'
    BY <1>0, <2>1, <2>2 DEF Written, RoomReady, Goto, TypeOK
  <2>4. \A r \in RoomIds \ {m} : rooms'[r] = rooms[r]
    BY <2>1, <2>2 DEF RoomReady, TypeOK
  <2> QED BY <1>0, <2>1, <2>2, <2>3, <2>4, TxRowsStep1 DEF Goto, TypeOK
<1>6. CASE Throw(m) \/ Fail(m)
  <2>1. /\ pc[m] \in {"findUser", "findRoom", "findAdmin", "saveRoom", "saveChat"}
        /\ RollBack(m)
    BY <1>6 DEF Throw, Fail, Refused, InTx
  <2>2. chat[m] = "none" /\ rooms[m] # "stored"
    BY <1>0, <2>1 DEF Written
  <2>3. /\ pc' = [pc EXCEPT ![m] = "failed"] /\ UNCHANGED <<chat, roomOf>>
        /\ rooms' = [rooms EXCEPT ![m] = IF @ = "pending" THEN "none" ELSE @]
    BY <2>1 DEF RollBack, handler
  <2>4. rooms'[m] = "none"
    BY <1>0, <2>2, <2>3 DEF TypeOK, RowState
  <2>5. Written(m)'
    BY <2>2, <2>3, <2>4 DEF Written, TypeOK
  <2> QED BY <1>0, <2>2, <2>3, <2>5, TxRowsStep1 DEF TypeOK
<1> QED BY <1>1, <1>2, <1>3, <1>4, <1>5, <1>6 DEF Handle

LEMMA TxRowsCrash == ASSUME TypeOK, TxRows, Crash PROVE TxRows'
<1>1. /\ roomOf' = roomOf
      /\ pc'    = [m \in Messages |-> IF pc[m] \in {"sent"} \cup InTx THEN "lost" ELSE pc[m]]
      /\ chat'  = [m \in Messages |-> IF chat[m] = "pending" THEN "none" ELSE chat[m]]
      /\ rooms' = [r \in RoomIds |-> IF rooms[r] = "pending" THEN "none" ELSE rooms[r]]
  BY DEF Crash, handler
<1>2. ASSUME NEW m \in Messages PROVE Written(m)'
  <2>1. Written(m) /\ m \in RoomIds /\ rooms[m] \in RowState /\ chat[m] \in RowState
    BY IdFacts DEF TxRows, TypeOK
  <2>2. CASE pc[m] \in {"sent"} \cup InTx
    <3>1. rooms[m] # "stored" /\ chat[m] # "stored"
      BY <2>1, <2>2 DEF Written, InTx
    <3>2. pc'[m] = "lost" /\ rooms'[m] = "none" /\ chat'[m] = "none"
      BY <1>1, <2>1, <2>2, <3>1 DEF RowState
    <3> QED BY <3>2 DEF Written
  <2>3. CASE pc[m] \in {"unsent"} \cup Settled
    <3>1. pc'[m] = pc[m]
      BY <1>1, <2>3 DEF InTx, Settled
    <3>2. pc[m] # "done" => rooms'[m] = "none" /\ chat'[m] = "none"
      BY <1>1, <2>1, <2>3 DEF Written, Settled
    <3>3. pc[m] = "done" => /\ chat'[m] = "stored" /\ roomOf'[m] \in RoomIds
                            /\ rooms'[roomOf'[m]] = "stored" /\ rooms'[m] # "pending"
      BY <1>1, <2>1 DEF Written
    <3> QED BY <2>3, <3>1, <3>2, <3>3 DEF Written, Settled
  <2> QED BY <2>2, <2>3 DEF TypeOK
<1> QED BY <1>1, <1>2, IdFacts DEF TxRows

LEMMA TxRowsStep == TypeOK /\ TxRows /\ [Next]_vars => TxRows'
<1> SUFFICES ASSUME TypeOK, TxRows, [Next]_vars PROVE TxRows'
  OBVIOUS
<1>1. CASE UNCHANGED <<rooms, chat, pc, roomOf>>
  BY <1>1 DEF TxRows, Written, RoomReady
<1>2. ASSUME NEW s \in Sockets, Connect(s) \/ Join(s) \/ Close(s) PROVE TxRows'
  BY <1>1, <1>2 DEF Connect, Join, QueryRooms, JoinRooms, Close, db, handler
<1>3. ASSUME NEW u \in Users, RemoveUser(u) PROVE TxRows'
  BY <1>1, <1>3 DEF RemoveUser, handler
<1>4. CASE UNCHANGED vars
  BY <1>1, <1>4 DEF vars, db, handler
<1> QED BY <1>2, <1>3, <1>4, TxRowsHandler, TxRowsCrash DEF Next

\* A stored message has a stored room, a stored room has the message that opened it,
\* and a message refused, failed or lost has left neither row behind.
THEOREM TransactionIsAtomic == Spec => []AllOrNothing
<1>1. TypeOK /\ TxRows => AllOrNothing
  <2> SUFFICES ASSUME TypeOK, TxRows, NEW m \in Messages
               PROVE  /\ chat[m] = "stored" => rooms[roomOf[m]] = "stored"
                      /\ rooms[m] = "stored" => chat[m] = "stored"
                      /\ pc[m] \in Settled \ {"done"} => chat[m] = "none" /\ rooms[m] = "none"
    BY DEF AllOrNothing
  <2>1. Written(m) /\ pc[m] \in {"unsent", "sent"} \cup InTx \cup Settled
    BY DEF TxRows, TypeOK
  <2> QED BY <2>1 DEF Written, InTx, Settled
<1> QED BY <1>1, TypeInit, TypeStep, TxRowsInit, TxRowsStep, PTL DEF Spec, Safe

\* What was heard is in the database or about to be, unless the process itself died.
THEOREM HeardIsStored == Spec => []HeardIsReal
<1>1. TypeOK /\ ConfinedInv /\ TxRows => HeardIsReal
  <2> SUFFICES ASSUME TypeOK, ConfinedInv, TxRows, NEW m \in Messages, heard[m] # {}, pc[m] # "lost"
               PROVE  pc[m] \in {"commit", "done"} /\ rooms[roomOf[m]] \in {"pending", "stored"}
    BY DEF HeardIsReal
  <2>1. pc[m] \in {"commit", "done"}
    BY DEF ConfinedInv, Follows
  <2>2. Written(m)
    BY DEF TxRows
  <2> QED BY <2>1, <2>2 DEF Written, RoomReady
<1> QED BY <1>1, TypeInit, TypeStep, FollowsInit, FollowsStep, TxRowsInit, TxRowsStep,
           PTL DEF Spec, Safe

(***************************************************************************)
(* Who may write: what keeps the author of an open transaction entitled to *)
(* its room until the COMMIT, and the tables in step with Inquiries.       *)
(***************************************************************************)

\* A pending message holds its author's deletion up, a pending room that of its party.
AuthorsStay == \A m \in Messages : chat[m] = "pending" => Author(m) \in users
PartyStays  == \A m \in Messages : rooms[m] = "pending" =>
  /\ members[m] = {Author(m), admin[m]}
  /\ Author(m) \in users \ Admins /\ admin[m] \in Admins \cap users
Customers   == \A m \in Messages : pc[m] \in {"findAdmin", "saveRoom"} => Author(m) \notin Admins

\* The room a customer writes in is one of the customer's, as long as there is one.
WritesInOwn == \A m \in Messages :
  (pc[m] \in {"saveChat", "commit"} /\ Author(m) \in users \ Admins)
    => Author(m) \in members[roomOf[m]]

EntitledInv == AuthorsStay /\ PartyStays /\ Customers /\ WritesInOwn

LEMMA EntitledInit == Init => EntitledInv
<1> SUFFICES ASSUME Init PROVE EntitledInv
  OBVIOUS
<1>1. \A m \in Messages : pc[m] = "unsent" /\ chat[m] = "none" /\ rooms[m] = "none"
  BY IdFacts DEF Init
<1> QED BY <1>1 DEF EntitledInv, AuthorsStay, PartyStays, Customers, WritesInOwn

\* A handler's step that leaves the rows.
LEMMA EntitledQuiet ==
  ASSUME EntitledInv, UNCHANGED <<users, rooms, members, chat>>, NEW m \in Messages,
         \A n \in Messages \ {m} : pc'[n] = pc[n] /\ roomOf'[n] = roomOf[n] /\ admin'[n] = admin[n],
         rooms[m] = "pending" => admin'[m] = admin[m],
         pc'[m] \in {"findAdmin", "saveRoom"} => Author(m) \notin Admins,
         (pc'[m] \in {"saveChat", "commit"} /\ Author(m) \in users \ Admins)
           => Author(m) \in members[roomOf'[m]]
  PROVE  EntitledInv'
<1>1. AuthorsStay'
  BY DEF EntitledInv, AuthorsStay
<1>2. PartyStays'
  BY DEF EntitledInv, PartyStays
<1>3. Customers'
  BY DEF EntitledInv, Customers
<1>4. WritesInOwn'
  BY DEF EntitledInv, WritesInOwn
<1> QED BY <1>1, <1>2, <1>3, <1>4 DEF EntitledInv

LEMMA EntitledHandler ==
  ASSUME TypeOK, Follows, TxRows, EntitledInv, NEW m \in Messages, Send(m) \/ Handle(m) \/ Fail(m)
  PROVE  EntitledInv'
<1> USE IdFacts
<1>0. m \in RoomIds /\ m \notin OldRooms /\ Written(m) /\ admin[m] \in Admins
  BY DEF TxRows, Follows
<1>1. CASE Send(m) \/ Begin(m) \/ FindUser(m)
  <2>1. UNCHANGED <<users, rooms, members, chat, roomOf, admin>>
    BY <1>1 DEF Send, Begin, FindUser, db, handler
  <2>2. PICK to \in {"sent", "findUser", "findRoom"} : pc' = [pc EXCEPT ![m] = to]
    BY <1>1 DEF Send, Begin, FindUser, Goto
  <2>3. pc'[m] \in {"sent", "findUser", "findRoom"} /\ \A n \in Messages \ {m} : pc'[n] = pc[n]
    BY <2>2 DEF TypeOK
  <2> QED BY <2>1, <2>3, EntitledQuiet
<1>2. CASE FindRoom(m)
  <2>1. PICK r \in RoomChoices(m) : roomOf' = [roomOf EXCEPT ![m] = r]
    BY <1>2 DEF FindRoom
  <2>2. Author(m) \notin Admins => Author(m) \in members[r]
    BY <2>1 DEF RoomChoices, RoomsOf
  <2>3. /\ UNCHANGED <<users, rooms, members, chat, admin>>
        /\ pc'[m] = "saveChat" /\ roomOf'[m] = r
        /\ \A n \in Messages \ {m} : pc'[n] = pc[n] /\ roomOf'[n] = roomOf[n]
    BY <1>2, <2>1 DEF FindRoom, Goto, db, TypeOK
  <2> QED BY <2>2, <2>3, EntitledQuiet
<1>3. CASE NoRoomYet(m)
  <2>1. /\ UNCHANGED <<users, rooms, members, chat, roomOf, admin>> /\ Author(m) \notin Admins
        /\ pc'[m] = "findAdmin" /\ \A n \in Messages \ {m} : pc'[n] = pc[n]
    BY <1>3 DEF NoRoomYet, Goto, db, handler, TypeOK
  <2> QED BY <2>1, EntitledQuiet
<1>4. CASE FindAdmin(m)
  <2>1. /\ UNCHANGED <<users, rooms, members, chat, roomOf>> /\ pc[m] = "findAdmin"
        /\ pc'[m] = "saveRoom" /\ \A n \in Messages \ {m} : pc'[n] = pc[n] /\ admin'[n] = admin[n]
    BY <1>4 DEF FindAdmin, Goto, db, TypeOK
  <2>2. Author(m) \notin Admins /\ rooms[m] # "pending"
    BY <1>0, <2>1 DEF EntitledInv, Customers, Written
  <2> QED BY <2>1, <2>2, EntitledQuiet
<1>5. CASE SaveRoom(m)
  <2>1. /\ UNCHANGED <<users, chat, admin>> /\ {Author(m), admin[m]} \subseteq users
        /\ pc[m] = "saveRoom" /\ pc'[m] = "saveChat"
        /\ \A n \in Messages \ {m} : pc'[n] = pc[n] /\ roomOf'[n] = roomOf[n]
        /\ roomOf'[m] = m /\ rooms'[m] = "pending" /\ members'[m] = {Author(m), admin[m]}
        /\ \A r \in RoomIds \ {m} : rooms'[r] = rooms[r] /\ members'[r] = members[r]
    BY <1>5, <1>0 DEF SaveRoom, RoomRow, Goto, TypeOK
  <2>2. AuthorsStay' /\ Customers'
    BY <2>1 DEF EntitledInv, AuthorsStay, Customers
  <2>3. PartyStays'
    BY <1>0, <2>1 DEF EntitledInv, PartyStays, Customers
  <2>4. WritesInOwn'
    <3>1. ASSUME NEW n \in Messages, pc'[n] \in {"saveChat", "commit"}, Author(n) \in users \ Admins
          PROVE  Author(n) \in members'[roomOf'[n]]
      <4>1. CASE n = m
        BY <4>1, <2>1
      <4>2. CASE n # m
        <5>1. pc[n] \in {"saveChat", "commit"} /\ roomOf'[n] = roomOf[n]
          BY <4>2, <3>1, <2>1
        <5>2. roomOf[n] \in RoomIds /\ roomOf[n] # m
          BY <5>1, <4>2, <1>0, <2>1 DEF TxRows, Written, RoomReady
        <5> QED BY <5>1, <5>2, <2>1, <3>1 DEF EntitledInv, WritesInOwn
      <4> QED BY <4>1, <4>2
    <3> QED BY <3>1, <2>1 DEF WritesInOwn
  <2> QED BY <2>2, <2>3, <2>4 DEF EntitledInv
<1>6. CASE SaveChat(m)
  <2>1. /\ UNCHANGED <<users, rooms, members, roomOf, admin>> /\ Author(m) \in users
        /\ pc[m] = "saveChat" /\ pc'[m] = "commit" /\ \A n \in Messages \ {m} : pc'[n] = pc[n]
        /\ \A n \in Messages \ {m} : chat'[n] = chat[n]
    BY <1>6 DEF SaveChat, Goto, sockets, TypeOK
  <2>2. AuthorsStay'
    BY <2>1 DEF EntitledInv, AuthorsStay
  <2>3. PartyStays' /\ Customers'
    BY <2>1 DEF EntitledInv, PartyStays, Customers
  <2>4. WritesInOwn'
    BY <2>1 DEF EntitledInv, WritesInOwn
  <2> QED BY <2>2, <2>3, <2>4 DEF EntitledInv
<1>7. CASE Commit(m)
  <2>1. /\ UNCHANGED <<users, members, roomOf, admin>>
        /\ pc'[m] = "done" /\ \A n \in Messages \ {m} : pc'[n] = pc[n]
        /\ \A n \in Messages : chat'[n] = "pending" => chat[n] = "pending"
        /\ \A n \in Messages : rooms'[n] = "pending" => rooms[n] = "pending"
    BY <1>7 DEF Commit, Goto, sockets, handler, TypeOK
  <2>2. AuthorsStay'
    BY <2>1 DEF EntitledInv, AuthorsStay
  <2>3. PartyStays'
    BY <2>1 DEF EntitledInv, PartyStays
  <2>4. Customers' /\ WritesInOwn'
    BY <2>1 DEF EntitledInv, Customers, WritesInOwn
  <2> QED BY <2>2, <2>3, <2>4 DEF EntitledInv
<1>8. CASE RollBack(m) /\ pc[m] \in InTx \ {"commit"}
  <2>1. /\ UNCHANGED <<users, chat, roomOf, admin>>
        /\ pc'[m] = "failed" /\ \A n \in Messages \ {m} : pc'[n] = pc[n]
        /\ rooms'[m] = (IF rooms[m] = "pending" THEN "none" ELSE rooms[m])
        /\ members'[m] = (IF rooms[m] = "pending" THEN {} ELSE members[m])
        /\ \A r \in RoomIds \ {m} : rooms'[r] = rooms[r] /\ members'[r] = members[r]
    BY <1>8, <1>0 DEF RollBack, sockets, handler, TypeOK
  <2>2. AuthorsStay' /\ Customers'
    BY <2>1 DEF EntitledInv, AuthorsStay, Customers
  <2>3. PartyStays'
    <3>1. ASSUME NEW n \in Messages, rooms'[n] = "pending"
          PROVE  n # m /\ rooms[n] = "pending" /\ members'[n] = members[n]
      BY <3>1, <2>1
    <3> QED BY <3>1, <2>1 DEF EntitledInv, PartyStays
  <2>4. WritesInOwn'
    <3>1. ASSUME NEW n \in Messages, pc'[n] \in {"saveChat", "commit"}, Author(n) \in users \ Admins
          PROVE  Author(n) \in members'[roomOf[n]]
      <4>1. n # m /\ pc[n] \in {"saveChat", "commit"}
        BY <3>1, <2>1
      <4>2. roomOf[n] \in RoomIds /\ (rooms[roomOf[n]] = "stored" \/ roomOf[n] = n)
        BY <4>1 DEF TxRows, Written, RoomReady
      <4>3. members'[roomOf[n]] = members[roomOf[n]]
        BY <4>1, <4>2, <2>1
      <4> QED BY <4>1, <4>3, <3>1 DEF EntitledInv, WritesInOwn
    <3> QED BY <3>1, <2>1 DEF WritesInOwn
  <2> QED BY <2>2, <2>3, <2>4 DEF EntitledInv
<1>9. CASE Throw(m) \/ Fail(m)
  BY <1>8, <1>9 DEF Throw, Fail, Refused, InTx
<1> QED BY <1>1, <1>2, <1>3, <1>4, <1>5, <1>6, <1>7, <1>9 DEF Handle

LEMMA EntitledRest ==
  ASSUME TypeOK, TxRows, EntitledInv, (\E u \in Users : RemoveUser(u)) \/ Crash PROVE EntitledInv'
<1>1. ASSUME NEW u \in Users, RemoveUser(u) PROVE EntitledInv'
  <2>1. /\ UNCHANGED <<rooms, chat, pc, roomOf, admin>> /\ ~ Wrote(u)
        /\ users' = users \ {u} /\ \A r \in RoomIds : members'[r] = members[r] \ {u}
        /\ \A r \in RoomIds : rooms[r] = "pending" => u \notin members[r]
    BY <1>1 DEF RemoveUser, handler
  <2>2. AuthorsStay'
    BY <2>1 DEF EntitledInv, AuthorsStay, Wrote
  <2>3. PartyStays'
    <3>1. ASSUME NEW m \in Messages, rooms[m] = "pending"
          PROVE  /\ members'[m] = {Author(m), admin[m]}
                 /\ Author(m) \in users' \ Admins /\ admin[m] \in Admins \cap users'
      <4>1. /\ members[m] = {Author(m), admin[m]} /\ u \notin members[m] /\ m \in RoomIds
            /\ Author(m) \in users \ Admins /\ admin[m] \in Admins \cap users
        BY <2>1, <3>1, IdFacts DEF EntitledInv, PartyStays
      <4> QED BY <2>1, <4>1
    <3> QED BY <2>1, <3>1 DEF PartyStays
  <2>4. \A m \in Messages : pc[m] \in {"saveChat", "commit"} => roomOf[m] \in RoomIds
    BY DEF TxRows, Written
  <2>5. WritesInOwn' /\ Customers'
    BY <2>1, <2>4 DEF EntitledInv, WritesInOwn, Customers
  <2> QED BY <2>2, <2>3, <2>5 DEF EntitledInv
<1>2. CASE Crash
  <2>1. \A m \in Messages : /\ chat'[m] # "pending" /\ rooms'[m] # "pending"
                            /\ pc'[m] \notin InTx
    BY <1>2, IdFacts DEF Crash, InTx
  <2> QED BY <2>1 DEF EntitledInv, AuthorsStay, PartyStays, Customers, WritesInOwn, InTx
<1> QED BY <1>1, <1>2

LEMMA EntitledStep ==
  TypeOK /\ ConfinedInv /\ TxRows /\ EntitledInv /\ [Next]_vars => EntitledInv'
<1> SUFFICES ASSUME TypeOK, ConfinedInv, TxRows, EntitledInv, [Next]_vars PROVE EntitledInv'
  OBVIOUS
<1>1. CASE UNCHANGED <<db, pc, handler>>
  BY <1>1 DEF db, handler, EntitledInv, AuthorsStay, PartyStays, Customers, WritesInOwn
<1>2. ASSUME NEW s \in Sockets, Connect(s) \/ Join(s) \/ Close(s) PROVE UNCHANGED <<db, pc, handler>>
  BY <1>2 DEF Connect, Join, QueryRooms, JoinRooms, Close
<1>3. CASE UNCHANGED vars
  BY <1>1, <1>3 DEF vars
<1> QED BY <1>1, <1>2, <1>3, EntitledHandler, EntitledRest DEF Next, ConfinedInv

\* What is pending is not there yet: a step that moves no stored row is none of Inquiries.
LEMMA StoredStays ==
  ASSUME users' = users,
         \A r \in RoomIds : /\ rooms'[r] = "stored" <=> rooms[r] = "stored"
                            /\ rooms[r] = "stored" => members'[r] = members[r],
         \A m \in Messages : /\ chat'[m] = "stored" <=> chat[m] = "stored"
                             /\ chat[m] = "stored" => roomOf'[m] = roomOf[m]
  PROVE  UNCHANGED Inquiry!vars
<1>1. Opened' = Opened
  BY DEF Opened
<1>2. Party' = Party
  BY <1>1 DEF Party, Opened
<1>3. Posted' = Posted
  BY DEF Posted
<1> QED BY <1>1, <1>2, <1>3 DEF Inquiry!vars

\* Only the COMMIT moves a message and a room to the stored ones.
LEMMA HandlerPosts ==
  ASSUME TypeOK, TxRows, NEW m \in Messages, Send(m) \/ Handle(m) \/ Fail(m), ~ Commit(m)
  PROVE  UNCHANGED Inquiry!vars
<1> USE IdFacts
<1>0. m \in RoomIds /\ Written(m)
  BY DEF TxRows
<1>1. CASE Send(m) \/ Begin(m) \/ FindUser(m) \/ NoRoomYet(m) \/ FindAdmin(m)
  BY <1>1, StoredStays DEF Send, Begin, FindUser, NoRoomYet, FindAdmin, db, handler
<1>2. CASE FindRoom(m)
  <2>1. /\ UNCHANGED db /\ chat[m] = "none"
        /\ \A n \in Messages \ {m} : roomOf'[n] = roomOf[n]
    BY <1>0, <1>2 DEF FindRoom, Goto, Written, TypeOK
  <2> QED BY <2>1, StoredStays DEF db
<1>3. CASE SaveRoom(m)
  <2>1. /\ UNCHANGED <<users, chat>> /\ chat[m] = "none" /\ rooms[m] = "none" /\ rooms'[m] = "pending"
        /\ \A n \in Messages \ {m} : roomOf'[n] = roomOf[n]
        /\ \A r \in RoomIds \ {m} : rooms'[r] = rooms[r] /\ members'[r] = members[r]
    BY <1>0, <1>3 DEF SaveRoom, RoomRow, Goto, Written, TypeOK
  <2> QED BY <2>1, StoredStays
<1>4. CASE SaveChat(m)
  <2>1. /\ UNCHANGED <<users, rooms, members, roomOf>> /\ chat[m] = "none" /\ chat'[m] = "pending"
        /\ \A n \in Messages \ {m} : chat'[n] = chat[n]
    BY <1>0, <1>4 DEF SaveChat, ChatRow, Goto, Written, TypeOK
  <2> QED BY <2>1, StoredStays
<1>5. CASE RollBack(m)
  <2>1. /\ UNCHANGED <<users, chat, roomOf>>
        /\ rooms'[m] = (IF rooms[m] = "pending" THEN "none" ELSE rooms[m])
        /\ members'[m] = (IF rooms[m] = "pending" THEN {} ELSE members[m])
        /\ \A r \in RoomIds \ {m} : rooms'[r] = rooms[r] /\ members'[r] = members[r]
    BY <1>5, <1>0 DEF RollBack, handler, TypeOK
  <2> QED BY <2>1, StoredStays
<1> QED BY <1>1, <1>2, <1>3, <1>4, <1>5 DEF Handle, Throw, Fail

LEMMA CommitPosts ==
  ASSUME TypeOK, TxRows, Follows, EntitledInv, NEW m \in Messages, Commit(m)
  PROVE  Inquiry!Next
<1> USE IdFacts
<1> DEFINE r == roomOf[m]
<1>1. /\ UNCHANGED <<users, members, roomOf>>
      /\ pc[m] = "commit"
      /\ chat' = [chat EXCEPT ![m] = "stored"] /\ rooms' = [rooms EXCEPT ![r] = "stored"]
  BY DEF Commit, Goto, handler
<1>2. m \in RoomIds /\ r \in RoomIds /\ RoomReady(m) /\ chat[m] = "pending"
      /\ rooms[m] # "stored" /\ (rooms[m] = "pending" => r = m)
  BY <1>1 DEF TxRows, Written
<1>3. Author(m) \in users /\ AuthorOf[m] = Author(m)
  BY <1>2 DEF EntitledInv, AuthorsStay, AuthorOf
<1>4. Posted[m] = NoRoom /\ Posted' = [Posted EXCEPT ![m] = r]
  <2>1. \A n \in Messages : chat'[n] = IF n = m THEN "stored" ELSE chat[n]
    BY <1>1 DEF TypeOK
  <2>2. \A n \in Messages : Posted'[n] = IF n = m THEN r ELSE Posted[n]
    BY <1>1, <2>1 DEF Posted
  <2> QED BY <1>2, <2>2 DEF Posted
<1>5. \A q \in RoomIds : rooms'[q] = IF q = r THEN "stored" ELSE rooms[q]
  BY <1>1, <1>2 DEF TypeOK
<1>6. CASE rooms[r] = "stored"
  <2>1. Opened' = Opened /\ r \in Opened
    BY <1>2, <1>5, <1>6 DEF Opened
  <2>2. Party' = Party /\ Party[r] = members[r]
    BY <1>1, <1>2, <2>1 DEF Party
  <2>3. Author(m) \in Admins \cup members[r]
    BY <1>1, <1>3 DEF EntitledInv, WritesInOwn
  <2>4. Inquiry!Write(m, r)
    BY <1>1, <1>3, <1>4, <2>1, <2>2, <2>3 DEF Inquiry!Write, Inquiry!Entitled
  <2> QED BY <1>2, <2>4 DEF Inquiry!Next, Inquiry!RoomIds, RoomIds
<1>7. CASE r = m /\ rooms[m] = "pending"
  <2>1. Opened' = Opened \cup {m} /\ m \notin Opened
    BY <1>2, <1>5, <1>7 DEF Opened
  <2>2. /\ members[m] = {Author(m), admin[m]}
        /\ Author(m) \in users \ Admins /\ admin[m] \in Admins \cap users
    BY <1>7 DEF EntitledInv, PartyStays
  <2>3. Party' = [Party EXCEPT ![m] = {Author(m), admin[m]}]
    <3>1. \A q \in RoomIds : Party'[q] = IF q = m THEN {Author(m), admin[m]} ELSE Party[q]
      BY <1>1, <1>2, <2>1, <2>2 DEF Party
    <3> QED BY <1>2, <3>1 DEF Party
  <2>4. Inquiry!Open(m, admin[m])
    BY <1>1, <1>3, <1>4, <1>7, <2>1, <2>2, <2>3 DEF Inquiry!Open
  <2> QED BY <2>2, <2>4 DEF Inquiry!Next
<1> QED BY <1>2, <1>6, <1>7 DEF RoomReady

LEMMA RestPosts ==
  ASSUME TypeOK, (\E u \in Users : RemoveUser(u)) \/ Crash PROVE [Inquiry!Next]_(Inquiry!vars)
<1>1. ASSUME NEW u \in Users, RemoveUser(u) PROVE Inquiry!Next
  <2>1. /\ UNCHANGED <<rooms, chat, roomOf>> /\ ~ Wrote(u) /\ u \in users
        /\ users' = users \ {u} /\ members' = [r \in RoomIds |-> members[r] \ {u}]
    BY <1>1 DEF RemoveUser, handler
  <2>2. Opened' = Opened /\ Posted' = Posted
    BY <2>1 DEF Opened, Posted
  <2>3. Party' = [r \in RoomIds |-> Party[r] \ {u}]
    BY <2>1, <2>2 DEF Party
  <2>4. \A m \in Messages : Posted[m] # NoRoom => AuthorOf[m] # u
    BY <2>1 DEF Posted, AuthorOf, Wrote
  <2>5. Inquiry!Leave(u)
    BY <2>1, <2>2, <2>3, <2>4 DEF Inquiry!Leave, Inquiry!RoomIds, RoomIds
  <2> QED BY <2>5 DEF Inquiry!Next
<1>2. CASE Crash
  BY <1>2, StoredStays DEF Crash, handler
<1> QED BY <1>1, <1>2

LEMMA InquiriesStep ==
  TypeOK /\ ConfinedInv /\ TxRows /\ EntitledInv /\ [Next]_vars => [Inquiry!Next]_(Inquiry!vars)
<1> SUFFICES ASSUME TypeOK, ConfinedInv, TxRows, EntitledInv, [Next]_vars
             PROVE  [Inquiry!Next]_(Inquiry!vars)
  OBVIOUS
<1>1. CASE UNCHANGED <<db, handler>>
  BY <1>1, StoredStays DEF db, handler
<1>2. ASSUME NEW s \in Sockets, Connect(s) \/ Join(s) \/ Close(s) PROVE UNCHANGED <<db, handler>>
  BY <1>2 DEF Connect, Join, QueryRooms, JoinRooms, Close
<1>3. CASE UNCHANGED vars
  BY <1>1, <1>3 DEF vars
<1>4. ASSUME NEW m \in Messages, Send(m) \/ Handle(m) \/ Fail(m)
      PROVE  [Inquiry!Next]_(Inquiry!vars)
  BY <1>4, HandlerPosts, CommitPosts DEF ConfinedInv
<1> QED BY <1>1, <1>2, <1>3, <1>4, RestPosts DEF Next

LEMMA InquiriesInit == Init => Inquiry!Init
<1> SUFFICES ASSUME Init PROVE Inquiry!Init
  OBVIOUS
<1>1. TypeOK /\ users = Users /\ \A m \in Messages : chat[m] = "none" /\ rooms[m] = "none"
  BY TypeInit, IdFacts DEF Init
<1>2. Opened \in SUBSET OldRooms
  BY <1>1 DEF Opened, RoomIds
<1>3. Party \in [RoomIds -> SUBSET Users] /\ \A r \in RoomIds \ Opened : Party[r] = {}
  BY <1>1 DEF Party, TypeOK
<1>4. Posted = [m \in Messages |-> NoRoom]
  BY <1>1 DEF Posted
<1> QED BY <1>1, <1>2, <1>3, <1>4 DEF Inquiry!Init, Inquiry!RoomIds, RoomIds

\* The statements of any number of overlapping messages, with refusals, failures,
\* deletions and stops between them, add up to messages posted in one step each by
\* authors who are there and entitled to the room: the handler implements Inquiries.
THEOREM MessagesArePosted == Spec => ImplementsInquiries
<1> QED BY InquiriesInit, InquiriesStep, TypeInit, TypeStep, FollowsInit, FollowsStep,
           TxRowsInit, TxRowsStep, EntitledInit, EntitledStep,
           PTL DEF Spec, Safe, ImplementsInquiries, Inquiry!Spec

(***************************************************************************)
(* Who hears a message: a customer whose socket has joined its rooms.      *)
(***************************************************************************)

\* A customer has one connection; admins may have any number.
OneConnection == \A s, t \in Sockets :
  (OwnerOf[s] = OwnerOf[t] /\ OwnerOf[s] \notin Admins) => s = t

\* A customer's live socket is the registered one, and whoever has sent was connected.
Registered == \A s \in Sockets : (Live(s) /\ OwnerOf[s] \notin Admins) => clients[OwnerOf[s]] = s
WasConnected == \A m \in Messages : pc[m] # "unsent" => conn[SocketOf[m]] # "new"

\* A live socket of a customer is in the customer's new room before its COMMIT, and in
\* the stored ones, or about to join them, from the moment it has asked for them.
InRooms == \A s \in Sockets, r \in RoomIds :
  (OwnerOf[s] \notin Admins /\ OwnerOf[s] \in members[r] /\ Live(s)) =>
    /\ rooms[r] = "pending" => r \in joined[s]
    /\ rooms[r] = "stored" /\ conn[s] = "joining" => r \in joined[s] \cup found[s]
    /\ rooms[r] = "stored" /\ conn[s] = "open" => r \in joined[s]

SenderInv == Registered /\ WasConnected /\ InRooms

\* A socket's own steps.
LEMMA SenderSockets ==
  ASSUME OneConnection, TypeOK, Follows, TxRows, SenderInv,
         NEW s \in Sockets, Connect(s) \/ Join(s) \/ Close(s)
  PROVE  SenderInv'
<1> USE DEF SenderInv
<1>0. /\ UNCHANGED <<rooms, members, pc>>
      /\ OwnerOf[s] \in Users /\ \A q \in Sockets \ {s} : conn'[q] = conn[q]
  BY IdFacts DEF Connect, Join, QueryRooms, JoinRooms, Close, db, handler, TypeOK
<1>a. \A m \in Messages : SocketOf[m] \in Sockets
  BY ChatAssumption
<1>b. \A q \in Sockets \ {s} : Live(q)' <=> Live(q)
  BY <1>0 DEF Live
<1>1. CASE Connect(s)
  <2>1. conn[s] = "new" /\ joined' = joined /\ found' = found /\ conn'[s] \in {"querying", "closed"}
    BY <1>1 DEF Connect, TypeOK
  <2>2. WasConnected'
    BY <1>0, <1>a, <2>1 DEF WasConnected
  <2>3. Registered'
    <3>1. /\ conn'[s] = "querying" => clients'[OwnerOf[s]] = s
          /\ \A u \in Users \ {OwnerOf[s]} : clients'[u] = clients[u]
      BY <1>0, <1>1, <2>1 DEF Connect, AfterConnect, TypeOK
    <3>2. ASSUME NEW q \in Sockets, Live(q)', OwnerOf[q] \notin Admins
          PROVE  clients'[OwnerOf[q]] = q
      BY <3>1, <3>2, <2>1, <1>b, IdFacts DEF Registered, Live, OneConnection
    <3> QED BY <3>2 DEF Registered
  <2>4. ASSUME NEW r \in RoomIds, OwnerOf[s] \notin Admins, OwnerOf[s] \in members[r],
               rooms[r] = "pending"
        PROVE  FALSE
    <3>1. r \in Messages /\ OwnerOf[s] = Author(r)
      BY <2>4, IdFacts DEF RoomIds, TxRows, Follows
    <3>2. Written(r) /\ pc[r] \in {"unsent", "sent"} \cup InTx \cup Settled
      BY <3>1 DEF TxRows, TypeOK
    <3>3. pc[r] # "unsent"
      BY <2>4, <3>2 DEF Written
    <3>4. SocketOf[r] = s
      BY <3>1, <2>4, <1>a DEF Author, OneConnection
    <3> QED BY <3>1, <3>3, <3>4, <2>1 DEF WasConnected
  <2>5. InRooms'
    BY <1>0, <1>b, <2>1, <2>4 DEF InRooms
  <2> QED BY <2>2, <2>3, <2>5
<1>2. CASE QueryRooms(s)
  <2>1. /\ conn[s] = "querying" /\ conn'[s] = "joining" /\ joined' = joined /\ clients' = clients
        /\ found'[s] = RoomsOf(OwnerOf[s]) /\ \A q \in Sockets \ {s} : found'[q] = found[q]
    BY <1>2 DEF QueryRooms, TypeOK
  <2>2. WasConnected' /\ Registered'
    BY <1>0, <1>a, <1>b, <2>1 DEF WasConnected, Registered, Live
  <2>3. InRooms'
    BY <1>0, <1>b, <2>1 DEF InRooms, Live, RoomsOf
  <2> QED BY <2>2, <2>3
<1>3. CASE JoinRooms(s)
  <2>1. /\ conn[s] = "joining" /\ conn'[s] = "open" /\ clients' = clients
        /\ joined'[s] = joined[s] \cup found[s]
        /\ \A q \in Sockets \ {s} : found'[q] = found[q] /\ joined'[q] = joined[q]
    BY <1>3 DEF JoinRooms, TypeOK
  <2>2. WasConnected' /\ Registered'
    BY <1>0, <1>a, <1>b, <2>1 DEF WasConnected, Registered, Live
  <2>3. InRooms'
    BY <1>0, <1>b, <2>1 DEF InRooms, Live
  <2> QED BY <2>2, <2>3
<1>4. CASE Close(s)
  <2>1. /\ Live(s) /\ conn'[s] = "closed"
        /\ \A u \in Users \ {OwnerOf[s]} : clients'[u] = clients[u]
        /\ \A q \in Sockets \ {s} : found'[q] = found[q] /\ joined'[q] = joined[q]
    BY <1>4 DEF Close, AfterClose, TypeOK
  <2>2. WasConnected'
    BY <1>0, <1>a, <2>1 DEF WasConnected
  <2>3. Registered'
    <3>1. ASSUME NEW q \in Sockets, Live(q)', OwnerOf[q] \notin Admins
          PROVE  clients'[OwnerOf[q]] = q
      <4>1. q # s
        BY <3>1, <2>1 DEF Live
      <4>2. OwnerOf[q] # OwnerOf[s]
        BY <4>1, <3>1 DEF OneConnection
      <4> QED BY <3>1, <4>1, <4>2, <2>1, <1>b, IdFacts DEF Registered
    <3> QED BY <3>1 DEF Registered
  <2>4. InRooms'
    BY <1>0, <1>b, <2>1 DEF InRooms, Live
  <2> QED BY <2>2, <2>3, <2>4
<1> QED BY <1>1, <1>2, <1>3, <1>4 DEF Join

\* A handler's step that leaves the rooms and who is in them.
LEMMA SenderQuiet ==
  ASSUME TypeOK, SenderInv, UNCHANGED <<rooms, members, conn, clients, found, joined>>,
         NEW m \in Messages, \A n \in Messages \ {m} : pc'[n] = pc[n],
         pc[m] # "unsent" \/ Live(SocketOf[m])
  PROVE  SenderInv'
<1>1. Registered' /\ InRooms'
  BY DEF SenderInv, Registered, InRooms, Live
<1>2. WasConnected'
  BY DEF SenderInv, WasConnected, Live
<1> QED BY <1>1, <1>2 DEF SenderInv

LEMMA SenderHandler ==
  ASSUME OneConnection, TypeOK, Follows, TxRows, SenderInv,
         NEW m \in Messages, Send(m) \/ Handle(m) \/ Fail(m)
  PROVE  SenderInv'
<1> USE IdFacts
<1>0. m \in RoomIds /\ m \notin OldRooms /\ Written(m) /\ SocketOf[m] \in Sockets
  BY ChatAssumption DEF TxRows
<1>1. CASE \/ Send(m) \/ Begin(m) \/ FindUser(m) \/ FindRoom(m) \/ NoRoomYet(m)
           \/ FindAdmin(m) \/ SaveChat(m)
  <2>1. UNCHANGED <<rooms, members, conn, clients, found, joined>>
    BY <1>1 DEF Send, Begin, FindUser, FindRoom, NoRoomYet, FindAdmin, SaveChat, db, sockets
  <2>2. /\ \A n \in Messages \ {m} : pc'[n] = pc[n]
        /\ pc[m] # "unsent" \/ Live(SocketOf[m])
    BY <1>1 DEF Send, Begin, FindUser, FindRoom, NoRoomYet, FindAdmin, SaveChat, Goto, TypeOK
  <2> QED BY <2>1, <2>2, SenderQuiet
<1>2. CASE SaveRoom(m)
  <2>1. /\ UNCHANGED <<conn, clients, found>>
        /\ pc[m] = "saveRoom" /\ \A n \in Messages \ {m} : pc'[n] = pc[n]
        /\ rooms'[m] = "pending" /\ members'[m] = {Author(m), admin[m]}
        /\ \A r \in RoomIds \ {m} : rooms'[r] = rooms[r] /\ members'[r] = members[r]
        /\ \A s \in Sockets : joined'[s] = IF s \in Told(m) THEN joined[s] \cup {m} ELSE joined[s]
    BY <1>2, <1>0 DEF SaveRoom, RoomRow, Goto, TypeOK
  <2>2. Registered' /\ WasConnected'
    BY <2>1 DEF SenderInv, Registered, WasConnected, Live
  <2>3. ASSUME NEW s \in Sockets, Live(s), OwnerOf[s] \notin Admins, OwnerOf[s] \in members'[m]
        PROVE  m \in joined'[s]
    <3>1. OwnerOf[s] = Author(m)
      BY <2>1, <2>3 DEF Follows
    <3>2. clients[Author(m)] = s /\ s # NoSocket
      BY <2>3, <3>1, ChatAssumption DEF SenderInv, Registered
    <3> QED BY <2>1, <3>2 DEF Told
  <2>4. InRooms'
    <3>1. ASSUME NEW s \in Sockets, NEW r \in RoomIds,
                 OwnerOf[s] \notin Admins, OwnerOf[s] \in members'[r], Live(s)
          PROVE  /\ rooms'[r] = "pending" => r \in joined'[s]
                 /\ rooms'[r] = "stored" /\ conn[s] = "joining" => r \in joined'[s] \cup found[s]
                 /\ rooms'[r] = "stored" /\ conn[s] = "open" => r \in joined'[s]
      <4>1. CASE r = m
        BY <4>1, <3>1, <2>1, <2>3
      <4>2. CASE r # m
        <5>1. /\ rooms[r] = "pending" => r \in joined[s]
              /\ rooms[r] = "stored" /\ conn[s] = "joining" => r \in joined[s] \cup found[s]
              /\ rooms[r] = "stored" /\ conn[s] = "open" => r \in joined[s]
          BY <4>2, <3>1, <2>1 DEF SenderInv, InRooms
        <5>2. rooms'[r] = rooms[r] /\ joined[s] \subseteq joined'[s]
          BY <4>2, <2>1
        <5> QED BY <5>1, <5>2
      <4> QED BY <4>1, <4>2
    <3>2. \A s \in Sockets : Live(s)' <=> Live(s)
      BY <2>1 DEF Live
    <3> QED BY <3>1, <3>2, <2>1 DEF InRooms
  <2> QED BY <2>2, <2>4 DEF SenderInv
<1>3. CASE Commit(m)
  <2>1. /\ UNCHANGED <<members, conn, clients, found, joined>>
        /\ pc[m] = "commit" /\ pc'[m] = "done" /\ \A n \in Messages \ {m} : pc'[n] = pc[n]
        /\ rooms' = [rooms EXCEPT ![roomOf[m]] = "stored"]
    BY <1>3 DEF Commit, Goto, sockets, handler, TypeOK
  <2>2. roomOf[m] \in RoomIds /\ rooms[roomOf[m]] \in {"pending", "stored"}
    BY <2>1, <1>0 DEF Written, RoomReady
  <2>3. \A r \in RoomIds : rooms'[r] = IF r = roomOf[m] THEN "stored" ELSE rooms[r]
    BY <2>1, <2>2 DEF TypeOK
  <2>4. Registered' /\ WasConnected'
    BY <2>1 DEF SenderInv, Registered, WasConnected, Live
  <2>5. InRooms'
    <3>1. ASSUME NEW s \in Sockets, NEW r \in RoomIds,
                 OwnerOf[s] \notin Admins, OwnerOf[s] \in members[r], Live(s)
          PROVE  /\ rooms'[r] = "pending" => r \in joined[s]
                 /\ rooms'[r] = "stored" /\ conn[s] = "joining" => r \in joined[s] \cup found[s]
                 /\ rooms'[r] = "stored" /\ conn[s] = "open" => r \in joined[s]
      <4>1. /\ rooms[r] = "pending" => r \in joined[s]
            /\ rooms[r] = "stored" /\ conn[s] = "joining" => r \in joined[s] \cup found[s]
            /\ rooms[r] = "stored" /\ conn[s] = "open" => r \in joined[s]
        BY <3>1 DEF SenderInv, InRooms
      <4>2. CASE r = roomOf[m]
        BY <4>1, <4>2, <2>2, <2>3
      <4>3. CASE r # roomOf[m]
        BY <4>1, <4>3, <2>3
      <4> QED BY <4>2, <4>3
    <3>2. \A s \in Sockets : Live(s)' <=> Live(s)
      BY <2>1 DEF Live
    <3> QED BY <3>1, <3>2, <2>1 DEF InRooms
  <2> QED BY <2>4, <2>5 DEF SenderInv
<1>4. CASE RollBack(m) /\ pc[m] \in InTx \ {"commit"}
  <2>1. /\ UNCHANGED <<conn, clients, found, joined>>
        /\ pc'[m] = "failed" /\ \A n \in Messages \ {m} : pc'[n] = pc[n]
        /\ rooms'[m] = (IF rooms[m] = "pending" THEN "none" ELSE rooms[m])
        /\ members'[m] = (IF rooms[m] = "pending" THEN {} ELSE members[m])
        /\ \A r \in RoomIds \ {m} : rooms'[r] = rooms[r] /\ members'[r] = members[r]
    BY <1>4, <1>0 DEF RollBack, sockets, handler, TypeOK
  <2>2. Registered' /\ WasConnected'
    BY <2>1, <1>4 DEF SenderInv, Registered, WasConnected, Live, InTx
  <2>3. InRooms'
    BY <2>1 DEF SenderInv, InRooms, Live
  <2> QED BY <2>2, <2>3 DEF SenderInv
<1>5. CASE Throw(m) \/ Fail(m)
  BY <1>4, <1>5 DEF Throw, Fail, Refused, InTx
<1> QED BY <1>1, <1>2, <1>3, <1>5 DEF Handle

LEMMA SenderRest ==
  ASSUME TypeOK, TxRows, SenderInv, (\E u \in Users : RemoveUser(u)) \/ Crash PROVE SenderInv'
<1>1. ASSUME NEW u \in Users, RemoveUser(u) PROVE SenderInv'
  <2>1. /\ UNCHANGED <<rooms, conn, clients, found, joined, pc>>
        /\ \A r \in RoomIds : members'[r] = members[r] \ {u}
    BY <1>1 DEF RemoveUser, sockets
  <2>2. Registered' /\ WasConnected'
    BY <2>1 DEF SenderInv, Registered, WasConnected, Live
  <2>3. InRooms'
    BY <2>1 DEF SenderInv, InRooms, Live
  <2> QED BY <2>2, <2>3 DEF SenderInv
<1>2. CASE Crash
  <2>1. /\ \A s \in Sockets : ~ Live(s)' /\ (conn[s] # "new" => conn'[s] # "new")
        /\ \A n \in Messages : pc'[n] # "unsent" => pc[n] # "unsent"
    BY <1>2 DEF Crash, Live, InTx
  <2>2. \A n \in Messages : SocketOf[n] \in Sockets
    BY ChatAssumption
  <2>3. WasConnected'
    BY <2>1, <2>2 DEF SenderInv, WasConnected
  <2>4. Registered' /\ InRooms'
    BY <2>1 DEF Registered, InRooms
  <2> QED BY <2>3, <2>4 DEF SenderInv
<1> QED BY <1>1, <1>2

LEMMA SenderStep ==
  OneConnection /\ TypeOK /\ ConfinedInv /\ TxRows /\ SenderInv /\ [Next]_vars => SenderInv'
<1> SUFFICES ASSUME OneConnection, TypeOK, ConfinedInv, TxRows, SenderInv, [Next]_vars
             PROVE  SenderInv'
  OBVIOUS
<1>1. CASE UNCHANGED vars
  BY <1>1 DEF vars, db, sockets, handler, SenderInv, Registered, WasConnected, InRooms,
              Live
<1>2. CASE Next
  BY <1>2, SenderSockets, SenderHandler, SenderRest DEF Next, ConfinedInv
<1> QED BY <1>1, <1>2

LEMMA SenderInit == Init => SenderInv
<1> SUFFICES ASSUME Init PROVE SenderInv
  OBVIOUS
<1>1. \A s \in Sockets : ~ Live(s)
  BY DEF Init, Live
<1>2. \A m \in Messages : pc[m] = "unsent"
  BY DEF Init
<1> QED BY <1>1, <1>2 DEF SenderInv, Registered, WasConnected, InRooms

\* Only the INSERT of a message takes it from before the broadcast to the COMMIT.
LEMMA BroadcastIsSaveChat ==
  ASSUME TypeOK, Next, NEW m \in Messages, pc[m] = "saveChat", pc'[m] = "commit"
  PROVE  SaveChat(m)
<1>0. pc \in [Messages -> {"unsent", "sent"} \cup InTx \cup Settled]
  BY DEF TypeOK
<1>1. ASSUME NEW s \in Sockets PROVE ~ (Connect(s) \/ Join(s) \/ Close(s))
  BY DEF Connect, Join, QueryRooms, JoinRooms, Close
<1>2. ASSUME NEW n \in Messages, Send(n) \/ Handle(n) \/ Fail(n) PROVE SaveChat(m)
  <2>1. ASSUME RollBack(n) PROVE FALSE
    BY <2>1, <1>0 DEF RollBack
  <2>2. ASSUME NEW from, NEW to, Goto(n, from, to), to # "commit" PROVE FALSE
    BY <2>2, <1>0 DEF Goto
  <2>3. ~ (Send(n) \/ Begin(n) \/ FindUser(n) \/ FindRoom(n) \/ NoRoomYet(n) \/ FindAdmin(n))
    BY <2>2 DEF Send, Begin, FindUser, FindRoom, NoRoomYet, FindAdmin
  <2>4. ~ (SaveRoom(n) \/ Commit(n))
    BY <2>2 DEF SaveRoom, Commit
  <2>5. SaveChat(n)
    BY <1>2, <2>1, <2>3, <2>4 DEF Handle, Throw, Fail
  <2>6. n = m
    BY <2>5, <1>0 DEF SaveChat, Goto
  <2> QED BY <2>5, <2>6
<1>3. ASSUME NEW u \in Users PROVE ~ RemoveUser(u)
  BY DEF RemoveUser
<1>4. ~ Crash
  BY DEF Crash, InTx
<1> QED BY <1>1, <1>2, <1>3, <1>4 DEF Next

\* A customer with one connection hears the message it sends, also the one that opens
\* its room, whenever its socket has joined its rooms: whatever the order of the
\* connection's query, the announcement of the room, the COMMIT and deletions.
THEOREM SenderIsHeard == ASSUME OneConnection PROVE Spec => SenderHears
<1> DEFINE Hears == \A m \in Messages :
      (Author(m) \notin Admins /\ conn[SocketOf[m]] = "open"
         /\ pc[m] = "saveChat" /\ pc'[m] = "commit")
      => SocketOf[m] \in heard'[m]
<1>1. TypeOK /\ TxRows /\ EntitledInv /\ SenderInv /\ [Next]_vars => [Hears]_vars
  <2> SUFFICES ASSUME TypeOK, TxRows, EntitledInv, SenderInv, Next, NEW m \in Messages,
                      Author(m) \notin Admins, conn[SocketOf[m]] = "open",
                      pc[m] = "saveChat", pc'[m] = "commit"
               PROVE  SocketOf[m] \in heard'[m]
    OBVIOUS
  <2>1. SocketOf[m] \in Sockets /\ Author(m) = OwnerOf[SocketOf[m]]
    BY ChatAssumption DEF Author
  <2>2. Author(m) \in users /\ heard'[m] = {s \in Sockets : roomOf[m] \in joined[s]}
    BY BroadcastIsSaveChat DEF SaveChat, TypeOK
  <2>3. Author(m) \in members[roomOf[m]]
    BY <2>2 DEF EntitledInv, WritesInOwn
  <2>4. roomOf[m] \in RoomIds /\ rooms[roomOf[m]] \in {"pending", "stored"}
    BY DEF TxRows, Written, RoomReady
  <2>5. roomOf[m] \in joined[SocketOf[m]]
    BY <2>1, <2>3, <2>4 DEF SenderInv, InRooms, Live
  <2> QED BY <2>1, <2>2, <2>5
<1> QED BY <1>1, TypeInit, TypeStep, FollowsInit, FollowsStep, TxRowsInit, TxRowsStep,
           EntitledInit, EntitledStep, SenderInit, SenderStep, PTL DEF Spec, Safe, SenderHears

=============================================================================
