SPECIFICATION SceneSpec
CONSTANTS
    h1 = h1  f1 = f1  f2 = f2  w1 = w1  u1 = u1  s1 = s1  r1 = r1  r2 = r2  i1 = i1  i2 = i2  i3 = i3
    k1 = k1  p1 = p1  d1 = d1  d2 = d2  q1 = q1  q2 = q2  v1 = v1
    Holders = {h1}
    Changes = {f1, f2}
    FirstTerms <- First
    NewTerms <- Planned
    Wished <- Asked
    House = 2
    MinNotice = 1
    MinAge = 0
    Period = 2
    Horizon = 3
    Prices = {1, 2}
    Sweepers = {w1}
    Investors = {u1}
    Subs = {s1}
    SubOf <- SubTerms
    Reds = {r1, r2}
    RedOf <- RedTerms
    Issues = {i1, i2, i3}
    IssueOf <- IssueTerms
    Dues = {k1}
    DueOf <- DueTerms
    Payouts = {p1}
    PayoutUnits <- Paid
    Aums = {2, 3}
    MaxMovePct = 50
    StartCash <- Pockets
    StartUnits <- Pockets
    StartFund = 1
    UnitCaps = {4, 6}
    Desks = {d1, d2}
    ShareFaults = {"lost", "unpark", "other", "shut", "stale"}
    Traders = {"a", "b"}
    Orders = {"s1", "s2", "b1", "b2"}
    OrderOf <- Requests
    FeePct = 10
    SlipPct = 10
    StartClaim <- Purses
    StartHeld <- Stocks
    Placers = {q1, q2}
    Watchers = {v1}
    BookFaults = {"lost", "close", "spend"}
INVARIANTS
    FundTypeOK
    ChargedOnceAtTerms
    UnitsMatchCash
    BookMatchesEscrow
PROPERTIES
    NoticesFollowTerms
    PriorityKept
CHECK_DEADLOCK FALSE
