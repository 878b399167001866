SPECIFICATION Spec
CONSTANTS
  Procs = {"checksum", "upload"}
  Faults = {"lib_open", "reject"}
  MaxCalls = 2
  MaxLaunches = 2
  FileLen = 2
  MaxProgress = 1
  UpCap = 2
  DownCap = 2
INVARIANTS NotStuck
CHECK_DEADLOCK FALSE
