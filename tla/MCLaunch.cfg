\* Every backend with every setting; a closed handle, or a crash of the main program, ends a behaviour.
SPECIFICATION Spec
CONSTANT Settings <- AllSettings
CHECK_DEADLOCK FALSE
INVARIANTS LInv CleanInConfig ReadyIsConnected ClosedLeavesNothing
PROPERTIES FailureIsReported RecoveryStopsRunaway CallEnds
