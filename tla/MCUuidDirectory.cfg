\* Three lookups with a failing INSERT or a restart; two with both and a change of the site, or with two changes.
CONSTANTS
  t1 = t1  t2 = t2  t3 = t3  x1 = x1  x2 = x2  a = a  A = A  b = b
  va = va  vA = vA  vb = vb  r1 = r1  r2 = r2  r3 = r3
  Nodes = {x1, x2}
  Threads = {t1, t2, t3}
  NodeOf <- MCNodeOf
  Names = {a, A, b}
  Uuids = {va, vA, vb, r1, r2, r3}
  Weight <- MCWeight
  Starts <- MCStarts
  V3 <- MCV3
  Capacity = 1
  Preload = 1
  None = None
SPECIFICATION Spec
SYMMETRY MCSymmetry
\* A behaviour ends when its calls are used up.
CHECK_DEADLOCK FALSE
INVARIANTS
  Provenance
  CachedWasStored
  AnswersAgree
  TexturesOwn
