\* Every call and every lock wait of two nodes ends, deadlocks included.
CONSTANTS
    Tx = {t1, t2}
    NoRow = NoRow
    None = None
    alice = alice  bob = bob
    steve = steve  alex = alex
    ma = ma  mb = mb
    p1 = p1  p2 = p2
    c1 = c1  c2 = c2
    s1 = s1  i1 = i1  i2 = i2
    Uid = {alice, bob}
    Pid = {1, 2}
    Hash = {h1, h2}
    Server = {s1}
    Ip = {i1}
    Client = {c1}
    Name = {steve, alex}
    Email = {ma}
    Password = {p1}
    Permission = {0}
    Verified = {TRUE}
    RequireVerification = FALSE
    Watermark = 1
    TokenLimit = 2
    TokenTTL = 2
    SessionTTL = 1
    CleanupBatch = 1
    Calls <- WaitingCalls
    Environment = {}
    InitialUsers <- Users
    InitialPlayers <- OneEach
    InitialIdentities <- OneActive
    MaxTime = 0
    MaxGeneration = 2
SPECIFICATION FairSpec
INVARIANTS
    OnlyJoinsDeadlock
PROPERTIES
    CallsReturn
