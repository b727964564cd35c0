\* Two nodes log one account in, refresh, invalidate and revoke its tokens.
CONSTANTS
    Tx = {t1, t2}
    NoRow = NoRow
    None = None
    alice = alice  bob = bob
    steve = steve  alex = alex
    ma = ma  mb = mb
    p1 = p1  p2 = p2
    c1 = c1  c2 = c2
    s1 = s1  i1 = i1  i2 = i2
    Uid = {alice}
    Pid = {1}
    Hash = {h1, h2, h3}
    Server = {s1}
    Ip = {i1}
    Client = {c1}
    Name = {steve}
    Email = {ma, mb}
    Password = {p1, p2}
    Permission <- OpenOrBanned
    Verified = {TRUE}
    RequireVerification = FALSE
    Watermark = 1
    TokenLimit = 2
    TokenTTL = 2
    SessionTTL = 1
    CleanupBatch = 1
    Calls <- TokenCalls
    Environment = {"users", "time"}
    InitialUsers <- Users
    InitialPlayers <- Players
    InitialIdentities <- OneActive
    MaxTime = 2
    MaxGeneration = 2
SPECIFICATION Spec
SYMMETRY Interchangeable
INVARIANTS
    TypeOK
    Inductive
    TokenLimitHolds
PROPERTIES
    RefreshReplaces
    EvictsOldest
    RevokedForGood
    TakesEffectAtOnce
