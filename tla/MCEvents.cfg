SPECIFICATION Spec
CONSTANTS
  t1 = t1
  t2 = t2
  r1 = r1
  r2 = r2
  r3 = r3
  Threads <- MCThreads
  Regs <- MCRegs
  Classes = {"trace", "close"}
  OldStyle = {"close"}
  Errors = {"e1"}
  Settable = {"h1"}
  Masks = {{"trace"}, {"trace", "close"}}
  MaxEvents = 2
  MaxNesting = 6
  MaxPushed = 1
INVARIANTS
  EInv
  HandlesAreMine
  InsideHasLock
PROPERTIES
  KeepsPromise
SYMMETRY Symmetry
