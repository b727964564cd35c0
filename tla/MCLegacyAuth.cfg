\* Every backend, two requests and the cleanup routine, one failed operation, one restart.
CONSTANTS
  u1 = u1
  u2 = u2
  p1 = p1
  k1 = k1
  Users <- MCUsers
  Profiles <- MCProfiles
  Owner <- MCOwner
  Clients = {c1}
  Tokens = {k1, k2}
  Servers = {s1}
  Joins = {j1, j2}
  Ips = {i1}
  Threads = {t1, t2}
  Settings <- MCSettings
  None = None
SPECIFICATION Spec
SYMMETRY MCSymmetry
INVARIANTS
  TypeOK
  RevokedIsGone
  AnsweredIsGone
PROPERTIES
  KeepsPromise
