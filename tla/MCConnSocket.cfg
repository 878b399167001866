\* The horizon lies beyond every deadline that poll can be given.
SPECIFICATION Spec
CONSTANTS
  APPLIANCE_TIMEOUT = 2
  TicksPerSec = 2
  Horizon = 7
  MaxLog = 1
  MaxData = 3
  MaxInterrupts = 1
  Len = 2
  Room = 1
INVARIANTS CInv TimeoutNotEarly
PROPERTIES LogsDelivered DeathEndsCall AcceptReturns
CHECK_DEADLOCK FALSE
