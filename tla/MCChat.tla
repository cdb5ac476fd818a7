------------------------------- MODULE MCChat -------------------------------
(***************************************************************************)
(* Instances of Chat for TLC: alice and bob are customers, dan the admin.  *)
(***************************************************************************)
EXTENDS Chat, TLC

CONSTANTS alice, bob, dan, a, d1, d2, m1, m2, old1, old2

\* alice's connection, and two of dan's, the second a reconnection or another page.
DeskOwners == (a :> alice) @@ (d1 :> dan) @@ (d2 :> dan)

\* alice writes and dan writes; both may have rooms of earlier days.
DeskSenders  == (m1 :> a) @@ (m2 :> d1)
DeskOldRooms == (old1 :> alice) @@ (old2 :> bob)

\* One connection each; alice writes twice.
PairOwners   == (a :> alice) @@ (d1 :> dan)
TwiceSenders == (m1 :> a) @@ (m2 :> a)

NoOldRooms == [r \in {} |-> alice]
=============================================================================
