SPECIFICATION SceneSpec
CONSTANTS
    w1 = w1  w2 = w2  u1 = u1  n1 = n1  n2 = n2  r1 = r1
    Withdrawals = {w1, w2}
    Users = {u1}
    Networks = {n1, n2}
    Relays = {r1}
    Owner <- Owners
    Rail <- Rails
    Gross <- Grosses
    Fee <- Fees
    InitFunds <- Funds
    InitTreasury <- Hot
    DepositAmount = 2
    MaxDeposits = 1
    MaxForeign = 1
    MaxSigns = 2
    MaxAttempts = 2
    Faults = {"unavailable", "stamp_lost", "refused", "conflict", "evicted", "reverted", "crash"}
    NoEvent = NoEvent
INVARIANTS
    TypeOK
    SendBacked
    AtMostOnePayout
    SettledOnlyPaid
    DispatchedMeansApplied
    AdmittedIsReserved
    HalfSettledIsOvertaken
CHECK_DEADLOCK FALSE
