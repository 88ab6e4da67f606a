SPECIFICATION Spec
CONSTANTS
  d1 = d1  d2 = d2  d3 = d3
  Deploys <- TwoDeploys
  Original = Original  NoDir = NoDir
  NoApproval = NoApproval  AnyCommit = AnyCommit
  KeepCommit = {}
  ServiceUnit = TRUE  HealthUrl = FALSE  HasJournal = TRUE
  NamedRollback = FALSE
  Offered = {"deploy", "recover", "rollback", "prune", "clear"}
  Overlapping = {"deploy", "recover", "rollback", "prune", "clear"}
  Faults = {"build", "io", "health", "crash"}
  Environment = {}
  PruneKeep = 1  MaxUp = 0  MaxData = 1
SYMMETRY SymmetricDeploys
INVARIANTS
  OnePlace
  NothingLost
  OnlyVerified
  ServiceOwed
PROPERTIES
  KeepsLiveCheckoutPromise
CHECK_DEADLOCK FALSE
