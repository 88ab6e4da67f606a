SPECIFICATION FairSpec
CONSTANTS
  d1 = d1  d2 = d2  d3 = d3
  Deploys <- TwoDeploys
  Original = Original  NoDir = NoDir
  NoApproval = NoApproval  AnyCommit = AnyCommit
  KeepCommit = {}
  ServiceUnit = TRUE  HealthUrl = TRUE  HasJournal = TRUE
  NamedRollback = FALSE
  Offered = {"deploy", "recover", "clear"}
  Overlapping = {"clear"}
  Faults = {"crash", "io", "build", "stop", "late_stop", "start", "health", "audit"}
  Environment = {"update"}
  PruneKeep = 1  MaxUp = 1  MaxData = 1
INVARIANTS
  Recoverable
PROPERTIES
  LiveComesBack
CHECK_DEADLOCK FALSE
