\* The main program crashes before the recovery process watches it.
SPECIFICATION Spec
CONSTANT Settings <- DirectRecovery
CHECK_DEADLOCK FALSE
PROPERTY NoRunaway
