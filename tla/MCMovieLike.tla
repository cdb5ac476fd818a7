---------------------------- MODULE MCMovieLike ----------------------------
\* Small instances of MovieLike for TLC.
EXTENDS MovieLike, TLC

CONSTANTS alice, bob, p1, p2, p3

\* One page for each of two users.
OwnTabs == (p1 :> alice) @@ (p2 :> bob)

\* Two pages of one user.
TwoTabs == (p1 :> alice) @@ (p2 :> alice)
=============================================================================
