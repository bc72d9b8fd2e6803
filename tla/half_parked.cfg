SPECIFICATION LandedSpec
CONSTANTS
    w1 = w1  w2 = w2  u1 = u1  n1 = n1  n2 = n2  r1 = r1  r2 = r2
    Withdrawals = {w1, w2}
    Users = {u1}
    Networks = {n1, n2}
    Relays = {r1}
    Owner <- TwoOwner
    Rail <- TwoRail
    Gross <- TwoGross
    Fee <- SplitFee
    InitFunds <- SplitFunds
    InitTreasury <- SplitTreasury
    Faults = {"unavailable"}
    DepositAmount = 2
    MaxDeposits = 1
    MaxForeign = 0
    MaxSigns = 1
    MaxAttempts = 1
    NoEvent = NoEvent
INVARIANT
    ParkedMeansUntouched
CHECK_DEADLOCK FALSE
