SPECIFICATION Spec
CONSTANTS
  unit = unit  url = url  url_stored = url_stored  disk = disk  node = node
  k = k  b = b
  Collectors = {k}  Bridges = {b}  Procs = {k, b}
  Names <- AllNames  Redact <- RedactUrl  None = None
  Checks <- NoChecks  Units = {}  Host = {}  Nodes = {node}
  History = 2  MaxCount = 2  MaxTime = 0  MaxCrashes = 1
  Faults = {"crash", "timeout"}
  HasOutbox = TRUE  OutboxMax = 2  Minor = {}  MaxBrokerFlips = 1
  MaxFlips = 0  LinesPerRun = 2  MaxLines = 3
INVARIANTS
  StoreFollowsJournal
  ToldIsOver
PROPERTIES
  KeepsLifecyclePromise
CHECK_DEADLOCK FALSE
