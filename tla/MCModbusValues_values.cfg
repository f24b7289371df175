\* A master with its slave, the cache, and another master.
CONSTANTS
  Keys <- KeyOrder
  Parts <- NoSplit
  Regs <- FourRegs
  Accepted <- AllAccepted
  Messages <- MasterMessages
  SlaveMessages <- DeviceMessages
  ClientWrites <- OtherWrites
  Retries = 1
  Cached = TRUE
  MaxEvents = 3
SPECIFICATION FairSpec
INVARIANTS DeltasSuffice StateMatchesMemory DictionaryLaws
PROPERTIES Settles
CHECK_DEADLOCK FALSE
