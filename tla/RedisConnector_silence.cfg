\* Is a connection given up on which the server has fallen silent?
CONSTANTS
  Limits = {3}
  MaxPending = 3
SPECIFICATION FairSpec
PROPERTIES SilenceNoticed
CHECK_DEADLOCK FALSE
