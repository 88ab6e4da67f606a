SPECIFICATION FairSpec
CONSTANTS
  r1 = r1  r2 = r2  n1 = n1  n2 = n2  n3 = n3
  Rollouts = {r1, r2}  Nodes = {n1, n2, n3}  Targets <- Overlapping
  Original = Original  Missing = Missing
  CanaryNodes = 2  WaveSize = 1  MaxFailedProbes = 1
  MaxRounds = 2
  Faults = {"refuse", "late", "lost", "rollback", "crash"}
INVARIANTS
  UndoneIsRestored
  
  WatchedFirst
PROPERTIES
  ComesToAnEnd
  RolloutEnds
CHECK_DEADLOCK FALSE
