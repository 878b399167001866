\* A message on the console, or a signal, after the last whole second.
SPECIFICATION Spec
CONSTANTS
  APPLIANCE_TIMEOUT = 2
  TicksPerSec = 2
  Horizon = 7
  MaxLog = 1
  MaxData = 1
  MaxInterrupts = 0
  Len = 1
  Room = 1
PROPERTIES AcceptHasTimeout
CHECK_DEADLOCK FALSE
