SPECIFICATION FairSpec
CONSTANTS
  Procs = {"checksum", "upload", "download"}
  Faults = {"lib_open", "lib_read", "lib_close", "lib_write", "user_cancel", "reject", "write", "close", "send", "fail", "crash"}
  MaxCalls = 3
  MaxLaunches = 2
  FileLen = 2
  MaxProgress = 2
  UpCap = 2
  DownCap = 1
INVARIANTS FInv InSync QuietBetweenCalls ReplyIsMine CancelIsForThisTransfer WholeFileMoved
INVARIANTS StuckOnlyIfBothCancel FailureHasError
PROPERTIES CallReturns
CHECK_DEADLOCK FALSE
