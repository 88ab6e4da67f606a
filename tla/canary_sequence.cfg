SPECIFICATION Spec
CONSTANTS
  d1 = d1  d2 = d2  d3 = d3
  Deploys <- ThreeDeploys
  Original = Original  NoDir = NoDir
  NoApproval = NoApproval  AnyCommit = AnyCommit
  KeepCommit = {d3}
  ServiceUnit = TRUE  HealthUrl = FALSE  HasJournal = TRUE
  NamedRollback = FALSE
  Offered = {"deploy", "recover", "rollback", "prune", "clear"}
  Overlapping = {"prune", "clear"}
  Faults = {"health", "build", "stop", "start"}
  Environment = {"edit", "write"}
  PruneKeep = 1  MaxUp = 0  MaxData = 2
SYMMETRY SymmetricPair

  
  
PROPERTIES
  PromotedOnApprovedCommit
  PromotionKeepsData
CHECK_DEADLOCK FALSE
