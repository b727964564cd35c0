\* Accounts are banned and edited and a new player changes owner and name while two nodes log in.
CONSTANTS
    Tx = {t1, t2}
    NoRow = NoRow
    None = None
    alice = alice  bob = bob
    steve = steve  alex = alex
    ma = ma  mb = mb
    p1 = p1  p2 = p2
    c1 = c1  c2 = c2
    s1 = s1  i1 = i1  i2 = i2
    Uid = {alice, bob}
    Pid = {2}
    Hash = {h1}
    Server = {s1}
    Ip = {i1}
    Client = {c1}
    Name = {steve, alex}
    Email = {ma}
    Password = {p1}
    Permission = {0}
    Verified = {TRUE, FALSE}
    RequireVerification = TRUE
    Watermark = 1
    TokenLimit = 2
    TokenTTL = 2
    SessionTTL = 1
    CleanupBatch = 1
    Calls <- LoginCalls
    Environment = {"users", "players"}
    InitialUsers <- Users
    InitialPlayers <- Players
    InitialIdentities <- OneActive
    MaxTime = 2
    MaxGeneration = 2
SPECIFICATION Spec
SYMMETRY SameNodes
INVARIANTS
    LoginHolds
