\* Two operators migrate a site, resolve a blocked player and stop anywhere.
CONSTANTS
    Operator = {o1, o2}
    Pid = {1, 2, 3}
    Name = {steve, Steve, alex}
    Mapping = {1, 2}
    steve = steve  Steve = Steve  alex = alex
    u1 = u1  vs = vs  vS = vS  va = va  drawn = drawn
    Weight <- Lower
    Uuid = {u1, vs, vS, va, drawn}
    Offline <- Version3
    Malformed = Malformed
    None = None
    MigrationId = {i1, i2}
    InitialSites <- Sites
    Edits <- SiteEdits
    MaxEdits = 2
    Draws = {drawn}
SPECIFICATION Spec
SYMMETRY Interchangeable
CHECK_DEADLOCK FALSE
INVARIANTS
    TypeOK
    PlanKeepsUuids
    GuardedGate
    AuditLinks
    ReferencesActive
PROPERTIES
    OpensOnReviewed
