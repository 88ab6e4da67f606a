SPECIFICATION Spec
CONSTANTS
  c = c  t1 = t1  t2 = t2
  Callers = {c}  Threads = {t1, t2}
  Window = 1  Minute = 1  MaxPerMinute = 2
  Skews <- OnTimeOrAhead
  MaxTime = 2  MaxRequests = 3
  Faults = {"invalid", "twice", "lost", "restart", "operation"}
SYMMETRY Symmetric
INVARIANTS
  HandledOnce
  RateHolds
  
CHECK_DEADLOCK FALSE
