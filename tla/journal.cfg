SPECIFICATION Spec
CONSTANTS
  w1 = w1  w2 = w2  e1 = e1  e2 = e2
  Writers <- TwoWriters
  Events <- TwoEvents
  None = None  Unreadable = Unreadable
  Faults = {"crash", "torn", "power", "tamper"}
  MaxLines = 4
SYMMETRY Symmetric
INVARIANTS
  ChainIntact
  ReturnedIsStored
  TamperDetected
  OnlyLastUnreadable
CHECK_DEADLOCK FALSE
