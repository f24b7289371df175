\* One master on a serial port with two queries and writes in between.
CONSTANTS
  u1 = u1
  u2 = u2
  u3 = u3
  q1 = q1
  q2 = q2
  Users = {u1}
  NoUser = NoUser
  Priority <- EqualPriority
  Order <- HashOrder
  FrameGap = 1
  Mortal = {}
  MaxBurst = 3
  MaxEvents = 2
  Serial = {u1}
  Query = {q1, q2}
  Queries <- TwoQueries
  Write = Write
  NoQuery = NoQuery
  MaxWrites = 2
SPECIFICATION MasterFairSpec
INVARIANTS PollingInvariant
PROPERTIES SerialPollsGoOn
CHECK_DEADLOCK FALSE
