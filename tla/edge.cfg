SPECIFICATION SceneSpec
CONSTANTS
    x1 = x1  x2 = x2  x3 = x3  y1 = y1  y2 = y2  w1 = w1
    NoEvent = NoEvent
    TronSends = {w1}
    TronRelays = {y1}
    TronWindow = 1
    TronMargin = 2
    TronLag = 2
    TronMaxTime = 4
    TronMaxSigned = 2
    TronFaults = {"stopped", "lost_answer", "refused", "underfunded", "reorg"}
INVARIANTS
    EdgeTypeOK
    TronPaysOnce
    ChainMoneyIsKept
    OnlyTheEntitledAct
    TwoBooksAgree
PROPERTIES
    DecisionsStand
SYMMETRY Alike
CHECK_DEADLOCK FALSE
