SPECIFICATION Spec
CONSTANTS
  Entries <- MCEntries
  Shared <- MCShared
  Sessions <- Handles
  Known <- MCKnown
INVARIANTS
  OneReply
  StreamOver
  AnswerInPlace
  NothingLeft
  ReleasedOnce
  Settled
  ErrorsMatchResult
  ChildCanEnd
