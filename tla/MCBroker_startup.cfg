\* From nothing: two workers registered, connected and started while the ones
\* already started send.
CONSTANTS
  Workers = {w1, w2}
  NoWorker = NoWorker
  Producing = {w1, w2}
  Consuming = {w1, w2}
  AllowSelfConnect = FALSE
  Chains <- Filtering
  Callbacks <- TwoCallbacks
  MaxConnects = 2
  MaxSends = 2
SPECIFICATION FairSpec
INVARIANTS StoppedStaysStopped
PROPERTIES EventuallyHandled StartupCompletes
CHECK_DEADLOCK FALSE
