SPECIFICATION Spec
CONSTANTS
  a1 = a1  a2 = a2  r1 = r1  ana = ana  bob = bob
  s1 = s1  s2 = s2  f1 = f1  f2 = f2  k1 = k1  k2 = k2
  Approving = {a1}  Rejecting = {r1}
  People = {ana, bob}  Registered = {ana}
  Subjects = {s1}  Diffs = {f1, f2}  Commits = {k1, k2}
  AnyCommit = AnyCommit  None = None
  Faults = {"crash", "io"}  MaxEdits = 2  MaxTime = 1
INVARIANTS
  AcceptedAsConfirmed
  DecidedOnce
  RejectionHolds
CHECK_DEADLOCK FALSE
