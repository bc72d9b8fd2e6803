--------------------------- MODULE PayoutContract ---------------------------
(***************************************************************************)
(* What a withdrawal promises its owner, with no outbox, no relay and no   *)
(* retries: the gross is held once, and it either leaves for good because  *)
(* the transfer landed, or comes back because none was ever sent.          *)
(***************************************************************************)
CONSTANT Withdrawals
VARIABLES
    money,   \* the gross on the owner's claim: free, held, debited, refunded
    sent,    \* withdrawals whose transfer may have reached the chain
    paid     \* withdrawals whose transfer landed

Init ==
    /\ money = [w \in Withdrawals |-> "free"]
    /\ sent = {} /\ paid = {}

Hold(w) ==
    /\ money[w] = "free"
    /\ money' = [money EXCEPT ![w] = "held"]
    /\ UNCHANGED <<sent, paid>>

Send(w) ==
    /\ money[w] = "held" /\ w \notin sent
    /\ sent' = sent \cup {w}
    /\ UNCHANGED <<money, paid>>

Land(w) ==
    /\ w \in sent /\ w \notin paid
    /\ paid' = paid \cup {w}
    /\ UNCHANGED <<money, sent>>

Debit(w) ==
    /\ money[w] = "held" /\ w \in paid
    /\ money' = [money EXCEPT ![w] = "debited"]
    /\ UNCHANGED <<sent, paid>>

Refund(w) ==
    /\ money[w] = "held" /\ w \notin sent
    /\ money' = [money EXCEPT ![w] = "refunded"]
    /\ UNCHANGED <<sent, paid>>

Next == \E w \in Withdrawals : Hold(w) \/ Send(w) \/ Land(w) \/ Debit(w) \/ Refund(w)

vars == <<money, sent, paid>>
Spec == Init /\ [][Next]_vars
=============================================================================
