SPECIFICATION SceneSpec
CONSTANTS
    f = f  g = g  u = u  o1 = o1  o2 = o2  o3 = o3  o4 = o4  c1 = c1  c2 = c2
    u1 = u1  u2 = u2  u3 = u3  x1 = x1  x2 = x2  r1 = r1  r2 = r2
    Orders = {o1, o2, o3, o4}
    Claims = {f, g, u}
    Source <- SourceOf
    Owned = {f, g}
    Tier <- TierOf
    Seat <- SeatOf
    Cost <- CostOf
    Funds <- FundsOf
    Executors = {x1, x2}
    MaxCodeAttempts = 2
    PayFaults = {"crash", "unavailable", "hold"}
    Users = {u1, u2, u3}
    FirstOwners = {u1, u2, u3}
    Consilia = {c1, c2}
    Kind <- KindOf
    OrderOf <- Subject
    Claim <- ClaimOf
    Initiator <- OpenedBy
    Runners = {r1, r2}
    MinOwners = 3
    CodeAttempts = 1
INVARIANTS
    GovernanceTypeOK
    OrderMoneyIsRight
    EndIsKnown
    QuorumBinds
PROPERTIES
    ConsentIsFresh
SYMMETRY OwnerSymmetry
CHECK_DEADLOCK FALSE
