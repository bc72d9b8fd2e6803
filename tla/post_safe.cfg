SPECIFICATION SceneSpec
CONSTANTS
    p1 = p1  p2 = p2  p3 = p3  p4 = p4  p5 = p5
    u1 = u1  s1 = s1  s2 = s2  r1 = r1  r2 = r2  x1 = x1
    Postings = {p1, p2, p3, p4, p5}
    Kind <- Sorts
    RouteOf <- Routing
    Accounts = {u1, s1, s2}
    From <- Debited
    To <- Payee
    Amount <- Two
    InitBalance <- Just
    InitOpen = {}
    MaxVersion = 6
    MaxEvents = 2
    MaxDeposits <- Loose
    MaxForeign <- Loose
    MaxTries = 1
    Relays = {r1, r2}
    Reapers = {x1}
    Faults = {"unavailable", "stamp_lost", "conflict", "unrecordable", "route_lost", "old_build", "rollback", "crash", "lock_drop"}
    NoPosting = NoPosting
SYMMETRY RelaySymmetry
CHECK_DEADLOCK FALSE
INVARIANTS
    TypeOK
    RefusedNeverMoves
    RecordedIsCovered
    InvoicePaidOnce
    PostedIsMovedAndAnnounced
