SPECIFICATION Spec
CONSTANTS
  Keys <- MCKeys
  Parts <- MCParts
  Numerals <- MCNumerals
  Raws <- MCRaws
  Files <- MCFiles
  CommandLines <- MCCommandLines
  Texts <- MCTexts
  Present <- MCPresent
  Path <- MCPath
  Installed <- MCInstalled
  Messages <- MCMessages
  readSettings <- readConfig
  registersOf <- registersInit
  CountSize = 4
INVARIANTS
  RegistersFit
  NamedWorkersRun
  ThereAndBack
  OrderIsFree
CHECK_DEADLOCK FALSE
