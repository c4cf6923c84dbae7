SPECIFICATION Spec
CONSTANTS
  a = a
  b = b
  c = c
  Signal <- MCSignal
  Coupling <- MCCoupling
  RcnMax = 7
  WireSize = 3
  CtcSize = 1
  Pin = {1, 2}
  DelayMax = 8
  PtypeSize = 1
  LoadSize = 2
  MaxHolds = 1
  MaxToggles = 2
SYMMETRY MCSymmetry
INVARIANTS
  ParasiticsOnce
  LocksProtect
  DelaysCurrent
  SizesAgree
PROPERTIES
  RoomFromOldest
  FlushEmpties
