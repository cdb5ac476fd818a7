CONSTANTS
  ann = ann
  c1 = c1
  c2 = c2
  Boot = Boot
  None = None
  Nobody = Nobody
  Junk = Junk
  Accounts = {ann}
  Admins = {ann}
  Clicks = {c1, c2}
  Forms = {c1}
  Lossy = {c1}
  AccessLife = 3
  RefreshLife = 4
  Margin = 2
  MaxTime = 5
  MaxStarts = 3
  MaxRestarts = 1
SPECIFICATION Spec
CHECK_DEADLOCK FALSE
INVARIANTS
  TypeOK
  SpentIsUnknown
  SignedInHasTokens
PROPERTIES
  EveryFlowEnds
