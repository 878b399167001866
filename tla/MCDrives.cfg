SPECIFICATION Spec
CONSTANTS
  Files = {f1, f2}
  Labels = {x, y}
  None = None
  MaxTarget = 4
  MaxSlots = 4
SYMMETRY Symmetric
INVARIANTS DInv SlotsMatchDomain FreeSlotsAreFree
PROPERTY GroupAtomic
