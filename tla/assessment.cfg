SPECIFICATION Spec
CONSTANTS
  Hosts <- Sites
  Families = {"ipv4", "ipv6"}
  Published <- Records
  MaxCycles = 2
  Kinds <- MinuteKinds
  Batches = {12, 720}
  Failures = {0, 4}
  MaxData = 3
INVARIANTS
  NoRecordIsNoFault
  AnotherFamilyConnected
  
  SilentOnWrongUplink
  CleanLineNotAccused
PROPERTIES
  UnknownCheckConcludesNothing
  IsolationFollowsEvidence
CHECK_DEADLOCK FALSE
