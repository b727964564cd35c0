\* Three requests: three changes and a crash, or two, a failed write and two crashes.
CONSTANTS
  e1 = e1  e2 = e2  x1 = x1  x2 = x2  n1 = n1  n2 = n2
  Emails = {e1, e2}
  Uids = {1, 2}
  Uuids = {x1, x2}
  Names = {n1, n2}
  Images = {i1}
  DefaultUsers <- MCDefaultUsers
  DefaultPlayers <- MCDefaultPlayers
  Threads = {t1, t2, t3}
  Bounds <- MCBounds
  None = None
SPECIFICATION Spec
\* The nested read lock does deadlock: OnlyNestedReads says that nothing else does.
CHECK_DEADLOCK FALSE
INVARIANTS
  TypeOK
  AcknowledgedHolds
  NamesDistinct
  OnlyNestedReads
PROPERTIES
  Returns
