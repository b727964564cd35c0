\* Two nodes look players up and list a login's profiles while players are edited.
CONSTANTS
    Tx = {t1, t2}
    NoRow = NoRow
    None = None
    alice = alice  bob = bob
    steve = steve  alex = alex  notch = notch
    x1 = x1  x3 = x3  x4 = x4  x5 = x5
    Uid = {alice, bob}
    Pid = {1, 2, 3}
    Name = {steve, alex, notch}
    Uuid = {x1, x3, x4}
    Watermark = 1
    Calls <- Lookups
    Errors = FALSE
    Edits <- NewAlex
    InitialPlayers <- OldAlex
    InitialIdentities <- Unmapped
    Reserved = {x3}
SPECIFICATION Spec
SYMMETRY SameNodes
INVARIANTS
    DirectoryInv
    MigrationDecides
    AnswerHolds
