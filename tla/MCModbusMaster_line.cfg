\* A master on a serial port and one behind a socket share a channel.
CONSTANTS
  u1 = u1
  u2 = u2
  u3 = u3
  q1 = q1
  q2 = q2
  Users = {u1, u2}
  NoUser = NoUser
  Priority <- EqualPriority
  Order <- HashOrder
  FrameGap = 1
  Mortal = {}
  MaxBurst = 3
  MaxEvents = 1
  Serial = {u1}
  Query = {q1}
  Queries <- OneQuery
  Write = Write
  NoQuery = NoQuery
  MaxWrites = 1
SPECIFICATION MasterFairSpec
INVARIANTS OneQueryOnLine ReconnectArmed
PROPERTIES KeepsChannelContract EventuallyServed
CHECK_DEADLOCK FALSE
