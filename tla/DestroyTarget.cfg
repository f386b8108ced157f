\* A destroy plan after an update was planned.
SPECIFICATION Spec
CONSTANTS
  Envs = {e1}
  Jobs = {j1, j2, j3, j4}
  Runners = {r1}
  Admins = {admin}
  Clients = {admin}
  Browsers = {}
  Specs = {s1}
  MaxRetries = 0
  Faults = FALSE
  NoJob = NoJob
  NoEnv = NoEnv
  NoSpec = NoSpec
  NoClient = NoClient
SYMMETRY Symmetry
INVARIANT DestroyPlanSeesResources
\* Job ids are used once: when they run out the instance stops.
CHECK_DEADLOCK FALSE
