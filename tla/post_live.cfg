SPECIFICATION LiveSpec
CONSTANTS
    p1 = p1  p2 = p2  u1 = u1  s1 = s1  s2 = s2  r1 = r1  r2 = r2  x1 = x1
    Postings = {p1, p2}
    Kind <- SweepAndRoute
    RouteOf <- SweepRoute
    Accounts = {u1, s1, s2}
    From <- SweepFrom
    To <- SweepTo
    Amount <- SweepAmount
    InitBalance <- SweepFunds
    InitOpen = {}
    MaxVersion = 1
    MaxEvents = 3
    MaxDeposits <- SweepStill
    MaxForeign <- SweepStill
    MaxTries = 2
    Relays = {r1}
    Reapers = {x1}
    Faults = {"unavailable", "stamp_lost", "unrecordable", "route_lost", "old_build", "crash"}
    NoPosting = NoPosting
CHECK_DEADLOCK FALSE
PROPERTIES
    EventuallyDecided
    SweptFeesRouted
INVARIANT
    NeverWedged
