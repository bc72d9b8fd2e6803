-------------------------- MODULE MCWithdrawalSaga --------------------------
(***************************************************************************)
(* Instances of WithdrawalSaga.  One withdrawal with two relays for the    *)
(* liveness run and the refinement, and with a hot wallet that could pay   *)
(* it twice; two landed withdrawals of one user over a rail that covers    *)
(* one of them (SplitFunds covers both, but puts all of the custody on the *)
(* other rail, while the hot wallet of n1 holds enough for both).          *)
(***************************************************************************)
EXTENDS WithdrawalSaga, TLC

CONSTANTS w1, w2, u1, n1, n2, r1, r2

OneOwner == w1 :> u1
OneRail  == w1 :> n1
OneGross == w1 :> 3
OneFee   == w1 :> 1
OneFunds == u1 :> (n1 :> 3)
OneTreasury == n1 :> 2
RichTreasury == n1 :> 4   \* enough to pay the withdrawal twice

TwoOwner == w1 :> u1 @@ w2 :> u1
TwoRail  == w1 :> n1 @@ w2 :> n1
TwoGross == w1 :> 2 @@ w2 :> 2

SplitFee == w1 :> 0 @@ w2 :> 0
SplitFunds == u1 :> (n1 :> 0 @@ n2 :> 4)
SplitTreasury == n1 :> 4 @@ n2 :> 0

\* Every withdrawal already reserved, sent and mined, its rows dispatched.
Landed ==
    LET rows == <<<<w1, "requested">>, <<w1, "dispatched">>, <<w2, "requested">>, <<w2, "dispatched">>>>
    IN  /\ wstate = [w \in Withdrawals |-> "processing"]
        /\ outbox = rows
        /\ st = [e \in Events |-> IF \E i \in 1..4 : rows[i] = e THEN "dispatched" ELSE "absent"]
        /\ attempts = [e \in Events |-> 0]
        /\ compensated = {}
        /\ steps = Withdrawals \X {"reserve"} /\ xfer = Withdrawals \X {"reserve"}
        /\ funded = InitFunds
        /\ spent = [u \in Users |-> 0]
        /\ signs = [w \in Withdrawals |-> 1]
        /\ bcast = [w \in Withdrawals |-> 1]
        /\ chain = [w \in Withdrawals |-> [k \in Signed |-> IF k = 1 THEN "mined" ELSE "none"]]
        /\ swept = [n \in Networks |-> 0]
        /\ lock = {}
        /\ at = [r \in Relays |-> "acquire"]
        /\ cur = [r \in Relays |-> NoEvent]
        /\ leg = [r \in Relays |-> 1]
        /\ batch = [r \in Relays |-> {}]
LandedSpec == Landed /\ [][Next]_vars

\* FairSpec, written with steps that change something: the same behaviours.  The faults this
\* instance leaves out have their steps in MCSagaScenes.
LiveSpec == Init /\ [][Next /\ vars' # vars]_vars /\ Fairness
=============================================================================
