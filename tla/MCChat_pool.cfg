SPECIFICATION Spec
CONSTANTS
  alice = alice
  bob = bob
  dan = dan
  a = a
  d1 = d1
  d2 = d2
  m1 = m1
  m2 = m2
  old1 = old1
  old2 = old2
  NoSocket = NoSocket
  NoRoom = NoRoom
  Users = {alice, bob, dan}
  Admins = {dan}
  Messages = {m1, m2}
  Sockets = {a, d1}
  OwnerOf <- PairOwners
  SocketOf <- TwiceSenders
  OldRooms = {}
  OldCustomer <- NoOldRooms
  Leavers = {}
  Fragile = {}
  PoolSize = 2
CHECK_DEADLOCK FALSE
PROPERTIES EveryMessageAnswered
