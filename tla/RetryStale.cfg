\* The retry button after a revision conflict.
SPECIFICATION Spec
CONSTANTS
  Envs = {e1}
  Clicks = {c1}
  MaxRevision = 3
  MaxRetries = 1
  MaxLoads = 1
  Faults = TRUE
  NoEnv = NoEnv
  NoClick = NoClick
SYMMETRY Symmetry
PROPERTY RetryReplaysLatestRevision
