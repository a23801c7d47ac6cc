CONSTANTS
  a1 = a1
  a2 = a2
  b1 = b1
  p1 = p1
  q1 = q1
  netA = netA
  netB = netB
  netP = netP
  netQ = netQ
  None = None
  FAMILIES <- MCFamilies
  Addresses <- MCAddresses
  Net <- MCNet
  Expected <- MCExpected
  MaxLog = 7
SPECIFICATION Spec
CHECK_DEADLOCK FALSE
INVARIANTS
  ConfiguredPrefixesDecide
  EventsTellChanges
  
  WindowsCoverLeaks
