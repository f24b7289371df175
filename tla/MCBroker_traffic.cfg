\* Three started workers, any two pipes between them, two messages.
CONSTANTS
  Workers = {w1, w2, w3}
  NoWorker = NoWorker
  Producing = {w1, w2, w3}
  Consuming = {w1, w2, w3}
  AllowSelfConnect = FALSE
  Chains <- Filtering
  Callbacks <- OneCallback
  MaxConnects = 2
  MaxSends = 2
SPECIFICATION RunningSpec
SYMMETRY Symmetry
INVARIANTS DeliveryInvariant InOrderOnce NoUnexplainedLoss
PROPERTIES ImplementsChannels
CHECK_DEADLOCK FALSE
