\* Two PATCHes of one movie, nothing else: ends in a counterexample to GenresAsAsked.
SPECIFICATION Spec
CONSTANTS
  m0 = m0
  c1 = c1
  c2 = c2
  u1 = u1
  u2 = u2
  r1 = r1
  t1 = t1
  t2 = t2
  t3 = t3
  d1 = d1
  d2 = d2
  g1 = g1
  g2 = g2
  g3 = g3
  f0 = f0
  f1 = f1
  None = None
  Creates = {}
  Updates = {u1, u2}
  Removes = {}
  OldMovies = {m0}
  Genres = {g1, g2, g3}
  Directors = {d1, d2}
  Titles = {t1, t2, t3}
  Files = {f0, f1}
  Body <- PairBody
  Target <- PairTarget
  Doomed = {}
  Fragile = {}
CHECK_DEADLOCK FALSE
INVARIANTS GenresAsAsked
