\* Two nodes give two new players UUIDs, with collisions, failures and lost answers.
CONSTANTS
    Tx = {t1, t2}
    NoRow = NoRow
    None = None
    alice = alice  bob = bob
    steve = steve  alex = alex  notch = notch
    x1 = x1  x3 = x3  x4 = x4  x5 = x5
    Uid = {alice, bob}
    Pid = {1, 2, 3}
    Name = {steve, alex, notch}
    Uuid = {x1, x3, x4, x5}
    Watermark = 1
    Calls <- Allocations
    Errors = TRUE
    Edits <- NoEdits
    InitialPlayers <- ThreePlayers
    InitialIdentities <- OneRetired
    Reserved = {}
SPECIFICATION Spec
SYMMETRY DrawnAlike
INVARIANTS
    PublishedForGood
    OnePlayerPerUuid
