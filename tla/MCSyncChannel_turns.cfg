\* Three users of two priorities, one of which may be destroyed at any time.
CONSTANTS
  u1 = u1
  u2 = u2
  u3 = u3
  Users = {u1, u2, u3}
  NoUser = NoUser
  Priority <- MixedPriority
  Order <- HashOrder
  FrameGap = 2
  Mortal = {u1}
  MaxBurst = 1
  MaxEvents = 3
SPECIFICATION Spec
INVARIANTS ChannelInvariant BusyIsJustified
PROPERTIES TakesTurns
CHECK_DEADLOCK FALSE
