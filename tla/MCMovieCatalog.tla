--------------------------- MODULE MCMovieCatalog ---------------------------
(***************************************************************************)
(* Instances of MovieCatalog for TLC.                                      *)
(***************************************************************************)
EXTENDS MovieCatalog, TLC

CONSTANTS m0, c1, c2, u1, u2, r1, t1, t2, t3, d1, d2, g1, g2, g3, f0, f1

Movie(t, d, gs, f) == [title |-> t, director |-> d, genres |-> gs, file |-> f]

\* Two POSTs with one file, two PATCHes of the old movie with different genres, one of
\* which takes the title of a POST, and the old movie's DELETE.
DeskBody ==
  (m0 :> Movie(t1, d1, {g1}, f0)) @@ (c1 :> Movie(t2, d2, {g2}, f1)) @@
  (c2 :> Movie(t3, d1, {g1}, f1)) @@ (u1 :> Movie(t2, None, {g2}, None)) @@
  (u2 :> Movie(None, d2, {g3}, None))
DeskTarget == (u1 :> m0) @@ (u2 :> m0) @@ (r1 :> m0)

\* The PATCHes alone.
PairBody == (m0 :> DeskBody[m0]) @@ (u1 :> DeskBody[u1]) @@ (u2 :> DeskBody[u2])
PairTarget == (u1 :> m0) @@ (u2 :> m0)
=============================================================================
