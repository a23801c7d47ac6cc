CONSTANTS
  LastMinute = 5
  Starts = {0, 45}
  Periods = {45, 106}
  Gaps = {150}
  Packets = 2
  Lost = {0, 2}
  Degraded <- Half
SPECIFICATION Spec
INVARIANTS OutagesAreGroups 
CHECK_DEADLOCK FALSE
