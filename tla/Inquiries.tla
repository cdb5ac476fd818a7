----------------------------- MODULE Inquiries -----------------------------
(***************************************************************************)
(* What the support chat promises of its tables: a message is written, and *)
(* the room it opens with it, in one indivisible step, by someone who is   *)
(* there and entitled to the room.  Whoever has written stays; others may  *)
(* leave, and leave their rooms with that.                                 *)
(***************************************************************************)
CONSTANTS Users, Admins, Messages, OldRooms, AuthorOf, NoRoom

VARIABLES
  there,   \* users who have not left
  opened,  \* rooms; one that a message opens goes by the message's name
  party,   \* who is in each room
  posted   \* the room each message is in

vars == <<there, opened, party, posted>>

RoomIds == OldRooms \cup Messages

Init ==
  /\ there  = Users
  /\ opened \in SUBSET OldRooms
  /\ party  \in [RoomIds -> SUBSET Users] /\ \A r \in RoomIds \ opened : party[r] = {}
  /\ posted = [m \in Messages |-> NoRoom]

\* Who may write in room r: its party and the admins.
Entitled(m, r) == AuthorOf[m] \in there /\ AuthorOf[m] \in Admins \cup party[r]

Write(m, r) ==
  /\ posted[m] = NoRoom /\ r \in opened /\ Entitled(m, r)
  /\ posted' = [posted EXCEPT ![m] = r]
  /\ UNCHANGED <<there, opened, party>>

\* A customer's message opens a room with an admin.
Open(m, d) ==
  /\ posted[m] = NoRoom /\ m \notin opened
  /\ AuthorOf[m] \in there \ Admins /\ d \in Admins \cap there
  /\ opened' = opened \cup {m}
  /\ party'  = [party EXCEPT ![m] = {AuthorOf[m], d}]
  /\ posted' = [posted EXCEPT ![m] = m]
  /\ UNCHANGED there

Leave(u) ==
  /\ u \in there /\ \A m \in Messages : posted[m] # NoRoom => AuthorOf[m] # u
  /\ there' = there \ {u}
  /\ party' = [r \in RoomIds |-> party[r] \ {u}]
  /\ UNCHANGED <<opened, posted>>

Next ==
  \/ \E m \in Messages : \/ \E r \in RoomIds : Write(m, r)
                         \/ \E d \in Admins : Open(m, d)
  \/ \E u \in Users : Leave(u)

Spec == Init /\ [][Next]_vars
=============================================================================
