CONSTANTS
  alice = alice
  bob = bob
  p1 = p1
  p2 = p2
  p3 = p3
  Users = {alice}
  Tabs = {p1, p2}
  UserOf <- TwoTabs
  Leavers = {}
  Breakable = {}
  MaxClicks = 2
SPECIFICATION Spec
INVARIANTS
  NegativeIsBeingCorrected
PROPERTIES
  EveryClickAnswered
