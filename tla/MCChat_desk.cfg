SPECIFICATION Spec
CONSTANTS
  alice = alice
  bob = bob
  dan = dan
  a = a
  d1 = d1
  d2 = d2
  m1 = m1
  m2 = m2
  old1 = old1
  old2 = old2
  NoSocket = NoSocket
  NoRoom = NoRoom
  Users = {alice, bob, dan}
  Admins = {dan}
  Messages = {m1, m2}
  Sockets = {a, d1, d2}
  OwnerOf <- DeskOwners
  SocketOf <- DeskSenders
  OldRooms = {old1, old2}
  OldCustomer <- DeskOldRooms
  Leavers = {alice, dan}
  Fragile = {m1}
  PoolSize = 3
CHECK_DEADLOCK FALSE
INVARIANTS TypeOK Confined AllOrNothing RegistryLive HeardIsReal
PROPERTIES SenderHears ImplementsInquiries EveryMessageAnswered
