CONSTANTS
  main = main
  c1 = c1
  Main = main
  Collectors <- MCCollectors
  TABLES <- MCTables
  TableOf <- MCTableOf
  RetainDays = 1
  MaxRows = 3
  MaxDays = 2
SPECIFICATION Spec
CHECK_DEADLOCK FALSE
INVARIANTS
  AcknowledgedRowsStay
  ArchiveMissesOnlyItsFailures
  
PROPERTIES
  YoungRowsStay
  KeepsEvidence
  StopEnds
