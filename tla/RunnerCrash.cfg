\* A runner that may die between a claim and the end of its job.
SPECIFICATION FairSpec
CONSTANTS
  Envs = {e1}
  Jobs = {j1, j2}
  Runners = {r1}
  Admins = {admin}
  Clients = {admin}
  Browsers = {}
  Specs = {s1}
  MaxRetries = 1
  Faults = TRUE
  NoJob = NoJob
  NoEnv = NoEnv
  NoSpec = NoSpec
  NoClient = NoClient
PROPERTY BusyEnds
\* Job ids are used once: when they run out the instance stops.
CHECK_DEADLOCK FALSE
