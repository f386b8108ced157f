\* One environment, changed by others, and a network that loses requests.  No
\* symmetry: liveness is checked.
SPECIFICATION FairSpec
CONSTANTS
  Envs = {e1}
  Clicks = {c1}
  MaxRevision = 3
  MaxRetries = 1
  MaxLoads = 1
  Faults = TRUE
  NoEnv = NoEnv
  NoClick = NoClick
INVARIANTS
  TypeOK
  ClickActsOnce
  GuidanceAgrees
  ConflictIsExplained
PROPERTIES
  AcceptedAtShownRow
  ActionEnds
  ReviewFollowsPlan
