\* Two pages of one user, a click each: ends in a counterexample to CountsMatchAtRest.
CONSTANTS
  alice = alice
  bob = bob
  p1 = p1
  p2 = p2
  p3 = p3
  Users = {alice}
  Tabs = {p1, p2}
  UserOf <- TwoTabs
  Leavers = {}
  Breakable = {}
  MaxClicks = 1
SPECIFICATION Spec
INVARIANTS
  CountsMatchAtRest
