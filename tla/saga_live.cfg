SPECIFICATION LiveSpec
CONSTANTS
    w1 = w1  w2 = w2  u1 = u1  n1 = n1  n2 = n2  r1 = r1  r2 = r2
    Withdrawals = {w1}
    Users = {u1}
    Networks = {n1}
    Relays = {r1, r2}
    Owner <- OneOwner
    Rail <- OneRail
    Gross <- OneGross
    Fee <- OneFee
    InitFunds <- OneFunds
    InitTreasury <- OneTreasury
    Faults = {"unavailable", "crash", "conflict", "evicted"}
    DepositAmount = 1
    MaxDeposits = 0
    MaxForeign = 1
    MaxSigns = 1
    MaxAttempts = 2
    NoEvent = NoEvent
PROPERTIES
    QueueDrains
    PaidIsAccounted
    ImplementsContract
