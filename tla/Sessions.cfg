\* Two requests at once, every one of which runs to its end.
SPECIFICATION Spec
CONSTANTS
  Users = {u1, u2}
  Tokens = {t1, t2}
  Requests = {q1, q2}
  Passwords = {p1, p2}
  SeedUser = u1
  SeedPassword = p1
  PublicSignup = TRUE
  Reseeds = FALSE
  Faults = FALSE
  NoUser = NoUser
  NoPassword = NoPassword
SYMMETRY Symmetry
INVARIANTS
  TypeOK
  OutdatedSessionsEnd
\* Tokens are used once: when they run out the instance stops.
CHECK_DEADLOCK FALSE
