SPECIFICATION TonSpec
CONSTANTS
    x1 = x1  x2 = x2  y1 = y1
    TonSends = {x1, x2}
    TonRelays = {y1}
    TonNet <- SameNet
    TonWindow = 1
    TonMaxTime = 1
    TonMaxSeqno = 1
    TonFaults = {}
CHECK_DEADLOCK FALSE
INVARIANT
    SettledOnlyOwn
