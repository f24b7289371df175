\* One master behind a socket: does it go on polling after a reconnection?
CONSTANTS
  u1 = u1
  u2 = u2
  u3 = u3
  q1 = q1
  q2 = q2
  Users = {u1}
  NoUser = NoUser
  Priority <- EqualPriority
  Order <- HashOrder
  FrameGap = 1
  Mortal = {}
  MaxBurst = 3
  MaxEvents = 1
  Serial = {}
  Query = {q1}
  Queries <- OneQuery
  Write = Write
  NoQuery = NoQuery
  MaxWrites = 0
SPECIFICATION MasterFairSpec
PROPERTIES PollsGoOn
CHECK_DEADLOCK FALSE
