SPECIFICATION Spec
CONSTANTS
  Entries <- PartedEntries
  Shared <- MCShared
  Sessions <- Handles
  Known <- NoneKnown
INVARIANT Settled
