CONSTANTS
  alice = alice
  bob = bob
  p1 = p1
  p2 = p2
  p3 = p3
  Users = {alice, bob}
  Tabs = {p1, p2}
  UserOf <- OwnTabs
  Leavers = {bob}
  Breakable = {p1, p2}
  MaxClicks = 2
SPECIFICATION Spec
PROPERTIES
  RowMovesAsClicked
