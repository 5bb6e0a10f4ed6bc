\* Three passes of the loop over two instruments and four configurations.
SPECIFICATION AccountSpec
CONSTANTS
  Size = 2
  Group <- OneGroup
  Bars <- TheBars
  Configs <- TheConfigs
  InitialCash = 1200
  LastDay = 2
INVARIANTS
  BooksBalance
PROPERTIES
  OverdraftNeedsCause
  DeRisked
CHECK_DEADLOCK FALSE
