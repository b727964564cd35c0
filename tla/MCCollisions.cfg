\* Two nodes resolve overlapping batches of three new players.
CONSTANTS
    Tx = {t1, t2}
    NoRow = NoRow
    None = None
    alice = alice  bob = bob
    steve = steve  alex = alex  notch = notch
    x1 = x1  x3 = x3  x4 = x4  x5 = x5
    Uid = {alice, bob}
    Pid = {1, 2, 3}
    Name = {steve, alex, notch}
    Uuid = {x1, x3, x4}
    Watermark = 0
    Calls <- Batches
    Errors = FALSE
    Edits <- NoEdits
    InitialPlayers <- ThreePlayers
    InitialIdentities <- Unmapped
    Reserved = {}
SPECIFICATION Spec
SYMMETRY AllAlike
INVARIANTS
    OnlyCollisionsDeadlock
