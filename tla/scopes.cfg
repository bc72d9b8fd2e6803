SPECIFICATION SceneSpec
CONSTANTS
    h1 = h1  h2 = h2  h3 = h3  k1 = k1  m1 = m1  m2 = m2  q1 = q1  q2 = q2
    o1 = o1  o2 = o2  i1 = i1  x1 = x1  x2 = x2
    Holds = {h1, h2, h3}
    HoldAmount <- HoldAmounts
    HoldTtl <- HoldTtls
    ChargeIds = {k1}
    ChargeAmount <- ChargeAmounts
    Mandates = {m1, m2}
    Caps <- MandateCaps
    Callers = {q1, q2}
    Balance = 3
    HoldFaults = {"foreign", "park", "unrecorded", "frozen"}
    Ops = {o1, o2}
    Autos = {i1}
    OpKind <- Kinds
    Total <- Totals
    Budget = 2
    ClientBudget = 1
    MaxLine = 1
    Balance0 = 2
    Carriers = {x1, x2}
    MaxLive = 1
    OpFaults = {"crash", "lost", "refused", "mismatch", "frozen", "blocked"}
INVARIANTS
    ScopesTypeOK
    HoldsAreAsTold
    PaidWithinItsRight
    EndsAreTold
PROPERTIES
    WithinCaps
SYMMETRY Symmetric
CHECK_DEADLOCK FALSE
