\* One administrator and one runner, through four jobs of one environment.
SPECIFICATION Spec
CONSTANTS
  Envs = {e1}
  Jobs = {j1, j2, j3, j4}
  Runners = {r1}
  Admins = {admin}
  Clients = {admin}
  Browsers = {}
  Specs = {s1}
  MaxRetries = 1
  Faults = TRUE
  NoJob = NoJob
  NoEnv = NoEnv
  NoSpec = NoSpec
  NoClient = NoClient
SYMMETRY Symmetry
INVARIANTS
  OnlyApprovedPlansApplied
  ReviewedPlanIsCurrent
  ActiveIsBacked
  FailedIsRetryable
PROPERTY ImplementsWorkflow
\* Job ids are used once: when they run out the instance stops.
CHECK_DEADLOCK FALSE
