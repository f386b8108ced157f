\* Two users and two runners on one environment, with crashes and lost writes.  The
\* administrator's browser sends expected_revision.
SPECIFICATION Spec
CONSTANTS
  Envs = {e1}
  Jobs = {j1, j2, j3}
  Runners = {r1, r2}
  Admins = {admin}
  Clients = {admin, operator}
  Browsers = {admin}
  Specs = {s1}
  MaxRetries = 1
  Faults = TRUE
  NoJob = NoJob
  NoEnv = NoEnv
  NoSpec = NoSpec
  NoClient = NoClient
SYMMETRY Symmetry
INVARIANTS
  TypeOK
  OneRunnerPerEnvironment
  OutcomeNeverDropped
  PrivilegedJobsByAdmins
  RetriesWithinBudget
PROPERTY ApprovesWhatWasSeen
\* Job ids are used once: when they run out the instance stops.
CHECK_DEADLOCK FALSE
