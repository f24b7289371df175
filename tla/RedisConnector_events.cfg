\* A worker with pings or a stream consumer, one or three time-outs, any failure.  It may
\* stop for good when the server hangs and no timer is left to notice.
CONSTANTS
  Limits = {1, 3}
  MaxPending = 4
SPECIFICATION ReachableSpec
INVARIANTS ConnectorInvariant TimersJustified OneReadPending KeptAlive
PROPERTIES Recovers
CHECK_DEADLOCK FALSE
