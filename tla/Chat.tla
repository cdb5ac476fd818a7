-------------------------------- MODULE Chat --------------------------------
(***************************************************************************)
(* The support chat: ChatGateway and ChatService, with the transaction     *)
(* that WsTransactionInterceptor opens around every sendMessage and the    *)
(* connection pool both draw on.                                           *)
(*                                                                         *)
(* Node runs one callback at a time, so an action is one database          *)
(* statement together with the code that runs when it answers; what is in  *)
(* memory (clients, joined) changes at once, what is in the database is    *)
(* seen by others only after Commit.  A message brings at most one room    *)
(* into being, and that room goes by the name of the message.              *)
(***************************************************************************)
EXTENDS Integers, FiniteSets

CONSTANTS
  Users, Admins,           \* user ids, and those whose role is admin
  Sockets, OwnerOf,        \* connections, and the user whose token each brings
  Messages, SocketOf,      \* sendMessage events, and the connection of each
  OldRooms, OldCustomer,   \* rooms of earlier days, and who asked for each
  Leavers,                 \* users DELETE /user/:id may remove
  Fragile,                 \* messages whose statements the database may fail
  PoolSize,                \* connections of the pool
  NoSocket, NoRoom

ASSUME ChatAssumption ==
  /\ IsFiniteSet(Messages) /\ Admins \subseteq Users /\ Leavers \subseteq Users
  /\ OwnerOf \in [Sockets -> Users] /\ NoSocket \notin Sockets
  /\ SocketOf \in [Messages -> Sockets] /\ Fragile \subseteq Messages
  /\ OldCustomer \in [OldRooms -> Users \ Admins]
  /\ OldRooms \cap Messages = {} /\ NoRoom \notin OldRooms \cup Messages
  /\ PoolSize \in Nat \ {0}

RoomIds       == OldRooms \cup Messages
Author(m)     == OwnerOf[SocketOf[m]]
CustomerOf(r) == IF r \in OldRooms THEN OldCustomer[r] ELSE Author(r)

VARIABLES
  users,    \* user rows that exist
  rooms,    \* chat_room rows: none, pending (uncommitted) or stored
  members,  \* chat_room_users_user
  chat,     \* chat rows
  conn,     \* where handleConnection stands for a socket
  clients,  \* connectedClients
  found,    \* rooms joinUserRooms read for a socket
  joined,   \* socket.io rooms of a socket
  pc,       \* next statement of a message's handler
  asked,    \* room field of the message
  roomOf,   \* chatRoom in createMessage
  admin,    \* adminUser in getOrCreateChatRoom
  heard     \* sockets the newMessage event went to

db      == <<users, rooms, members, chat>>
sockets == <<conn, clients, found, joined>>
handler == <<asked, roomOf, admin, heard>>
vars    == <<db, sockets, pc, handler>>

InTx     == {"findUser", "findRoom", "findAdmin", "saveRoom", "saveChat", "commit"}
Settled  == {"done", "failed", "lost"}
RowState == {"none", "pending", "stored"}

TypeOK ==
  /\ users   \in SUBSET Users
  /\ rooms   \in [RoomIds -> RowState]
  /\ members \in [RoomIds -> SUBSET Users]
  /\ chat    \in [Messages -> RowState]
  /\ conn    \in [Sockets -> {"new", "querying", "joining", "open", "closed"}]
  /\ clients \in [Users -> Sockets \cup {NoSocket}]
  /\ found   \in [Sockets -> SUBSET RoomIds]
  /\ joined  \in [Sockets -> SUBSET RoomIds]
  /\ pc      \in [Messages -> {"unsent", "sent"} \cup InTx \cup Settled]
  /\ asked   \in [Messages -> RoomIds \cup {NoRoom}]
  /\ roomOf  \in [Messages -> RoomIds \cup {NoRoom}]
  /\ admin   \in [Messages -> Users]
  /\ heard   \in [Messages -> SUBSET Sockets]

\* No room yet, or those of earlier days, each with its customer and one admin.
Init ==
  /\ users = Users
  /\ \E old \in {{}, OldRooms}, d \in Admins :
       /\ rooms   = [r \in RoomIds |-> IF r \in old THEN "stored" ELSE "none"]
       /\ members = [r \in RoomIds |-> IF r \in old THEN {OldCustomer[r], d} ELSE {}]
       /\ admin   = [m \in Messages |-> d]
  /\ chat    = [m \in Messages |-> "none"]
  /\ conn    = [s \in Sockets |-> "new"]
  /\ clients = [u \in Users |-> NoSocket]
  /\ found   = [s \in Sockets |-> {}]
  /\ joined  = [s \in Sockets |-> {}]
  /\ pc      = [m \in Messages |-> "unsent"]
  /\ asked   = [m \in Messages |-> NoRoom]
  /\ roomOf  = [m \in Messages |-> NoRoom]
  /\ heard   = [m \in Messages |-> {}]

Live(s) == conn[s] \in {"querying", "joining", "open"}

\* A transaction keeps its connection until it ends; Spare: the pool has another.
\* Mutant: the interceptor runs twice and takes two.
HeldTwice == 2 * Cardinality({m \in Messages : pc[m] \in InTx})
Held      == Cardinality({m \in Messages : pc[m] \in InTx})
Spare == Held < PoolSize

\* What a query outside the writing transaction sees of u's rooms.
\* Mutant: the join on the user is left out.
AllRooms(u) == {r \in RoomIds : rooms[r] = "stored"}
RoomsOf(u)  == {r \in RoomIds : rooms[r] = "stored" /\ u \in members[r]}

(***************************************************************************)
(* Connections.  The token is verified and the client registered before    *)
(* another event of the socket can run; joinUserRooms then asks the        *)
(* database and joins when the answer is back.                             *)
(***************************************************************************)

\* registerClient keeps the newest socket of a user.
\* Mutant: the map is keyed by the socket.
AfterConnectById(s) == [u \in Users \cup {s} |-> IF u = s THEN s ELSE clients[u]]
AfterConnect(s)     == [clients EXCEPT ![OwnerOf[s]] = s]

Connect(s) ==
  /\ conn[s] = "new"
  /\ \/ /\ conn'    = [conn EXCEPT ![s] = "querying"]
        /\ clients' = AfterConnect(s)
     \/ /\ conn' = [conn EXCEPT ![s] = "closed"]      \* a bad token: disconnect()
        /\ UNCHANGED clients
  /\ UNCHANGED <<db, found, joined, pc, handler>>

QueryRooms(s) ==
  /\ conn[s] = "querying" /\ Spare
  /\ conn'  = [conn EXCEPT ![s] = "joining"]
  /\ found' = [found EXCEPT ![s] = RoomsOf(OwnerOf[s])]
  /\ UNCHANGED <<db, clients, joined, pc, handler>>

JoinRooms(s) ==
  /\ conn[s] = "joining"
  /\ conn'   = [conn EXCEPT ![s] = "open"]
  /\ joined' = [joined EXCEPT ![s] = @ \cup found[s]]
  /\ found'  = [found EXCEPT ![s] = {}]
  /\ UNCHANGED <<db, clients, pc, handler>>

\* handleDisconnect forgets the user's entry, whichever socket it names.
\* Mutant: only once the socket's rooms are joined.
AfterCloseOpen(s) ==
  IF conn[s] = "open" THEN [clients EXCEPT ![OwnerOf[s]] = NoSocket] ELSE clients
AfterClose(s) == [clients EXCEPT ![OwnerOf[s]] = NoSocket]

Close(s) ==
  /\ Live(s)
  /\ conn'    = [conn EXCEPT ![s] = "closed"]
  /\ joined'  = [joined EXCEPT ![s] = {}]
  /\ found'   = [found EXCEPT ![s] = {}]
  /\ clients' = AfterClose(s)
  /\ UNCHANGED <<db, pc, handler>>

(***************************************************************************)
(* A sendMessage event.                                                    *)
(***************************************************************************)

Goto(m, from, to) ==
  /\ pc[m] = from
  /\ pc' = [pc EXCEPT ![m] = to]

\* An admin names a room, one listed or one just announced, or leaves it out;
\* what a customer names is ignored.
Send(m) ==
  LET s == SocketOf[m]
      choices == IF Author(m) \in Admins
                 THEN {r \in RoomIds : rooms[r] = "stored"} \cup joined[s] \cup {NoRoom}
                 ELSE {NoRoom}
  IN /\ Live(s)
     /\ Goto(m, "unsent", "sent")
     /\ \E r \in choices : asked' = [asked EXCEPT ![m] = r]
     /\ UNCHANGED <<db, sockets, roomOf, admin, heard>>

\* WsTransactionInterceptor: a connection of its own, and BEGIN on it.
Begin(m) ==
  /\ Spare
  /\ Goto(m, "sent", "findUser")
  /\ UNCHANGED <<db, sockets, handler>>

\* createMessage looks the user up through the repository, on a second connection.
FindUser(m) ==
  /\ Spare /\ Author(m) \in users
  /\ Goto(m, "findUser", "findRoom")
  /\ UNCHANGED <<db, sockets, handler>>

\* getOrCreateChatRoom: the rooms its first query may answer with.
\* Mutant: the admin's room is not looked up.
ChoicesAsked(m) == IF Author(m) \in Admins THEN {asked[m]} \ {NoRoom}
                   ELSE RoomsOf(Author(m))
RoomChoices(m) ==
  IF Author(m) \in Admins THEN {r \in {asked[m]} \ {NoRoom} : rooms[r] = "stored"}
                          ELSE RoomsOf(Author(m))

FindRoom(m) ==
  /\ Goto(m, "findRoom", "saveChat")
  /\ \E r \in RoomChoices(m) : roomOf' = [roomOf EXCEPT ![m] = r]
  /\ UNCHANGED <<db, sockets, asked, admin, heard>>

NoRoomYet(m) ==
  /\ Author(m) \notin Admins /\ RoomChoices(m) = {}
  /\ Goto(m, "findRoom", "findAdmin")
  /\ UNCHANGED <<db, sockets, handler>>

FindAdmin(m) ==
  /\ Goto(m, "findAdmin", "saveRoom")
  /\ \E d \in Admins \cap users : admin' = [admin EXCEPT ![m] = d]
  /\ UNCHANGED <<db, sockets, asked, roomOf, heard>>

\* The sockets the new room is announced to and that join it, before the commit.
\* Mutants: the customer is left out; the room is saved outside the transaction.
ToldAdmin(m) == {clients[admin[m]]} \ {NoSocket}
Told(m)      == {clients[Author(m)], clients[admin[m]]} \ {NoSocket}
RoomRowAuto  == "stored"
RoomRow      == "pending"

SaveRoom(m) ==
  /\ {Author(m), admin[m]} \subseteq users
  /\ Goto(m, "saveRoom", "saveChat")
  /\ rooms'   = [rooms EXCEPT ![m] = RoomRow]
  /\ members' = [members EXCEPT ![m] = {Author(m), admin[m]}]
  /\ roomOf'  = [roomOf EXCEPT ![m] = m]
  /\ joined'  = [s \in Sockets |-> IF s \in Told(m) THEN joined[s] \cup {m} ELSE joined[s]]
  /\ UNCHANGED <<users, chat, conn, clients, found, asked, admin, heard>>

\* The INSERT, and handleMessage's newMessage to the room, before the commit.
\* Mutant: the message is saved outside the transaction.
ChatRowAuto == "stored"
ChatRow     == "pending"

SaveChat(m) ==
  /\ Author(m) \in users
  /\ Goto(m, "saveChat", "commit")
  /\ chat'  = [chat EXCEPT ![m] = ChatRow]
  /\ heard' = [heard EXCEPT ![m] = {s \in Sockets : roomOf[m] \in joined[s]}]
  /\ UNCHANGED <<users, rooms, members, sockets, asked, roomOf, admin>>

Commit(m) ==
  /\ Goto(m, "commit", "done")
  /\ chat'  = [chat EXCEPT ![m] = "stored"]
  /\ rooms' = [rooms EXCEPT ![roomOf[m]] = "stored"]
  /\ UNCHANGED <<users, members, sockets, handler>>

\* What createMessage and the database's foreign keys refuse.
Refused(m) ==
  \/ pc[m] = "findUser"  /\ Spare /\ Author(m) \notin users
  \/ pc[m] = "findRoom"  /\ Author(m) \in Admins /\ RoomChoices(m) = {}
  \/ pc[m] = "findAdmin" /\ Admins \cap users = {}
  \/ pc[m] = "saveRoom"  /\ ~ {Author(m), admin[m]} \subseteq users
  \/ pc[m] = "saveChat"  /\ Author(m) \notin users

\* catchError: roll back and release.
RollBack(m) ==
  /\ pc'      = [pc EXCEPT ![m] = "failed"]
  /\ rooms'   = [rooms EXCEPT ![m] = IF @ = "pending" THEN "none" ELSE @]
  /\ members' = [members EXCEPT ![m] = IF rooms[m] = "pending" THEN {} ELSE @]
  /\ UNCHANGED <<users, chat, sockets, handler>>

Throw(m) == Refused(m) /\ RollBack(m)

\* The database fails the statement that is running.
Fail(m) == m \in Fragile /\ pc[m] \in InTx \ {"commit"} /\ RollBack(m)

(***************************************************************************)
(* Around the handlers.                                                    *)
(***************************************************************************)

\* UserService.remove: chat.author keeps whoever wrote from being deleted, the
\* membership rows go with the user, and a pending row holds the DELETE up.
Wrote(u) == \/ \E m \in Messages : chat[m] # "none" /\ Author(m) = u
            \/ \E r \in OldRooms : rooms[r] = "stored" /\ OldCustomer[r] = u

RemoveUser(u) ==
  /\ u \in Leavers \cap users /\ ~ Wrote(u)
  /\ \A r \in RoomIds : rooms[r] = "pending" => u \notin members[r]
  /\ users'   = users \ {u}
  /\ members' = [r \in RoomIds |-> members[r] \ {u}]
  /\ UNCHANGED <<rooms, chat, sockets, pc, handler>>

\* A COMMIT that fails rejects inside the async tap, where nothing awaits it: an
\* unhandled rejection, on which Node exits.  The database rolls back what was open.
Crash ==
  /\ \E m \in Fragile : pc[m] = "commit"
  /\ conn'    = [s \in Sockets |-> IF Live(s) THEN "closed" ELSE conn[s]]
  /\ found'   = [s \in Sockets |-> {}]
  /\ joined'  = [s \in Sockets |-> {}]
  /\ clients' = [u \in Users |-> NoSocket]
  /\ pc'      = [m \in Messages |-> IF pc[m] \in {"sent"} \cup InTx THEN "lost" ELSE pc[m]]
  /\ chat'    = [m \in Messages |-> IF chat[m] = "pending" THEN "none" ELSE chat[m]]
  /\ members' = [r \in RoomIds |-> IF rooms[r] = "pending" THEN {} ELSE members[r]]
  /\ rooms'   = [r \in RoomIds |-> IF rooms[r] = "pending" THEN "none" ELSE rooms[r]]
  /\ UNCHANGED <<users, handler>>

Handle(m) ==
  \/ Begin(m) \/ FindUser(m) \/ FindRoom(m) \/ NoRoomYet(m) \/ FindAdmin(m)
  \/ SaveRoom(m) \/ SaveChat(m) \/ Commit(m) \/ Throw(m)

Join(s) == QueryRooms(s) \/ JoinRooms(s)

Next ==
  \/ \E s \in Sockets : Connect(s) \/ Join(s) \/ Close(s)
  \/ \E m \in Messages : Send(m) \/ Handle(m) \/ Fail(m)
  \/ \E u \in Users : RemoveUser(u)
  \/ Crash

\* The statements of a message answer and their continuations run.  Pages, joins,
\* deletions and the database's faults need not happen.
Fairness == \A m \in Messages : WF_vars(Handle(m))

Safe == Init /\ [][Next]_vars
Spec == Safe /\ Fairness

(***************************************************************************)
(* What the chat promises.                                                 *)
(***************************************************************************)

\* A socket is only ever in, and only ever hears messages of, the rooms of its own
\* user; admins aside, no customer follows another's inquiry (joinUserRooms,
\* getOrCreateChatRoom and the broadcast of handleMessage together).
MayFollow(s, r) == OwnerOf[s] \in Admins \/ OwnerOf[s] = CustomerOf(r)
Confined ==
  /\ \A s \in Sockets : \A r \in joined[s] \cup found[s] : MayFollow(s, r)
  /\ \A m \in Messages : \A s \in heard[m] : MayFollow(s, roomOf[m])

\* The transaction is all or nothing: a message is stored only in a stored room, a
\* room is stored only with the message that opened it, and a message that was
\* refused or lost leaves neither behind.
AllOrNothing == \A m \in Messages :
  /\ chat[m] = "stored" => rooms[roomOf[m]] = "stored"
  /\ rooms[m] = "stored" => chat[m] = "stored"
  /\ pc[m] \in Settled \ {"done"} => chat[m] = "none" /\ rooms[m] = "none"

\* The entry connectedClients keeps for a user is a connected socket of that user,
\* whatever order connections and disconnections come in.
RegistryLive == \A u \in Users : clients[u] # NoSocket =>
  OwnerOf[clients[u]] = u /\ Live(clients[u])

\* Sockets hear only messages that are in the database or about to be: a message
\* that failed was heard by no one, and no one speaks in a room that was announced
\* but rolled back.  Only the process's exit between broadcast and commit undoes it.
HeardIsReal == \A m \in Messages : heard[m] # {} =>
  \/ pc[m] = "lost"
  \/ pc[m] \in {"commit", "done"} /\ rooms[roomOf[m]] \in {"pending", "stored"}

\* With one connection per customer, a customer whose socket has joined its rooms
\* when their message is broadcast hears it: the page shows one's own message only
\* through this event, the first message of a room included.
SenderHears == [][\A m \in Messages :
    (Author(m) \notin Admins /\ conn[SocketOf[m]] = "open"
       /\ pc[m] = "saveChat" /\ pc'[m] = "commit")
    => SocketOf[m] \in heard'[m]]_vars

\* Every message is stored, refused or lost with the process; none is left hanging
\* with its transaction open.
EveryMessageAnswered == \A m \in Messages : pc[m] # "unsent" ~> pc[m] \in Settled

(***************************************************************************)
(* The tables implement Inquiries: the COMMIT is the step that posts a     *)
(* message and opens its room; what is pending is not there yet.           *)
(***************************************************************************)
AuthorOf == [m \in Messages |-> Author(m)]
Opened   == {r \in RoomIds : rooms[r] = "stored"}
Party    == [r \in RoomIds |-> IF r \in Opened THEN members[r] ELSE {}]
Posted   == [m \in Messages |-> IF chat[m] = "stored" THEN roomOf[m] ELSE NoRoom]

Inquiry == INSTANCE Inquiries WITH
  there <- users, opened <- Opened, party <- Party, posted <- Posted

\* The statements of messages that overlap, refusals, deletions in between and the end
\* of the process add up to messages posted in one step each, by authors who were still
\* there and entitled to the room when the COMMIT ran, though it is long since asked.
ImplementsInquiries == Inquiry!Spec
=============================================================================
