\* Two requests at once, failing requests and restarts of a seeded API.
SPECIFICATION Spec
CONSTANTS
  Users = {u1, u2}
  Tokens = {t1, t2}
  Requests = {q1, q2}
  Passwords = {p1}
  SeedUser = u1
  SeedPassword = p1
  PublicSignup = FALSE
  Reseeds = TRUE
  Faults = TRUE
  NoUser = NoUser
  NoPassword = NoPassword
SYMMETRY Symmetry
PROPERTY LastAdminLostOnlyInRaces
\* Tokens are used once: when they run out the instance stops.
CHECK_DEADLOCK FALSE
