\* Two environments, whose pages the history menu exchanges.
SPECIFICATION Spec
CONSTANTS
  Envs = {e1, e2}
  Clicks = {c1}
  MaxRevision = 1
  MaxRetries = 1
  MaxLoads = 2
  Faults = FALSE
  NoEnv = NoEnv
  NoClick = NoClick
SYMMETRY Symmetry
PROPERTIES
  DestroysNamedEnvironment
  AcceptedAtShownRow
