\* A process worker, a websocket server with two sockets, and two stream consumers
\* with a producer.
CONSTANTS
  MaxGiven = 3
  MaxLines = 3
  Sockets = {s1, s2}
  Heartbeat = 2
  Keepalive = 3
  MaxQuiet = 3
  Consumers = {"c", "d"}
  Programs = {"p"}
  Setups <- ThreeSetups
  StreamSize = 2
  EntriesPerRead = 2
  AddsToTrim = 2
  MaxAdded = 3
  MaxCrashes = 1
SPECIFICATION Spec
INVARIANTS EachMessageOnce EachLineOnce AnsweringStays ReadsEachEntry
PROPERTIES BufferEmpties SilentLeaves ReadsOn
CHECK_DEADLOCK FALSE
