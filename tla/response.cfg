SPECIFICATION Spec
CONSTANTS
  manifest = manifest  script = script
  Files = {manifest, script}  Manifest = manifest  Protected = {script}
  AllowedPaths = {{manifest}, {manifest, script}}
  Diffs <- FewDiffs  Changeable = {"manifest"}
  Kinds = {"manifest", "unit", "url", "disk", "backups"}
  None = None  MaxChanges = 1  Stored = "redacted"
  MaxRuns = 1  MaxContext = 1  MaxFiles = 1  MaxPromotions = 1
INVARIANTS
  
  KeptIsEvidence
  

  
CHECK_DEADLOCK FALSE
