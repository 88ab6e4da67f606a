SPECIFICATION Spec
CONSTANTS
  n1 = n1  n2 = n2  l = l  d1 = d1  d2 = d2  b = b
  Listeners = {l}  Deciders = {d1, d2}  Bridges = {b}  Procs = {l, d1, d2, b}
  Names = {n1, n2}  Nodes = {n1, n2}  Proposers = {n1, n2}  Redact <- SameNames  None = None
  History = 2  MaxCount = 2  MaxTime = 0  MaxCrashes = 1
  Faults = {"crash", "timeout"}
  HasOutbox = FALSE  OutboxMax = 1  Minor = {}  MaxBrokerFlips = 0
  Allowed = {n1}  AutoOpen = {TRUE, FALSE}  MaxPending = 1  MaxPerMinute = 1  MaxMessages = 2  Shapes <- FewShapes
  LinesPerRun = 2  MaxLines = 1
SYMMETRY SymmetricDeciders
INVARIANTS
  AcceptedIsKept
  DecidedOnce
  OnlyApproved
PROPERTIES
  ClosedByHealth
CHECK_DEADLOCK FALSE
