\* Two environments served by one runner that stays up: no symmetry, a liveness
\* property is checked.
SPECIFICATION FairSpec
CONSTANTS
  Envs = {e1, e2}
  Jobs = {j1, j2, j3}
  Runners = {r1}
  Admins = {admin}
  Clients = {admin}
  Browsers = {}
  Specs = {s1}
  MaxRetries = 1
  Faults = FALSE
  NoJob = NoJob
  NoEnv = NoEnv
  NoSpec = NoSpec
  NoClient = NoClient
PROPERTY BusyEnds
\* Job ids are used once: when they run out the instance stops.
CHECK_DEADLOCK FALSE
