SPECIFICATION Spec
CONSTANTS
  Procs = {"checksum", "tar_in", "yara_load", "journal_get", "filesystem_walk"}
  Faults = {"lib_open", "lib_read", "lib_close", "lib_write", "user_cancel", "reject", "write", "close", "send", "fail", "crash"}
  MaxCalls = 3
  MaxLaunches = 2
  FileLen = 1
  MaxProgress = 1
  UpCap = 2
  DownCap = 2

PROPERTIES ImplementsRPC
CHECK_DEADLOCK FALSE
