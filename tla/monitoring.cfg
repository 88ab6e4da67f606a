SPECIFICATION FairSpec
CONSTANTS
  unit = unit  url = url  url_stored = url_stored  disk = disk  node = node
  k = k  b = b
  Collectors = {k}  Bridges = {}  Procs = {k}
  Names <- AllNames  Redact <- RedactUrl  None = None
  Checks <- EveryKind  Units = {unit}  Host = {disk}  Nodes = {node}
  History = 2  MaxCount = 2  MaxTime = 1  MaxCrashes = 1
  Faults = {"crash", "timeout"}
  HasOutbox = TRUE  OutboxMax = 2  Minor = {url_stored}  MaxBrokerFlips = 2
  MaxFlips = 3  LinesPerRun = 2  MaxLines = 0
PROPERTIES
  ClosedWhenSeenWell
  StoreConverges
  
CHECK_DEADLOCK FALSE
