CONSTANTS
  alice = alice
  bob = bob
  p1 = p1
  p2 = p2
  p3 = p3
  Users = {alice, bob}
  Tabs = {p1, p2}
  UserOf <- OwnTabs
  Leavers = {bob}
  Breakable = {}
  MaxClicks = 2
SPECIFICATION Spec
INVARIANTS
  TypeOK
  LedgerExact
  NeverUndercounts
  AnswerIsToggle
  ShownMatchesRow
PROPERTIES
  ImplementsLedger
