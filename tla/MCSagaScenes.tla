---------------------------- MODULE MCSagaScenes ----------------------------
(***************************************************************************)
(* Two withdrawals of one user over two rails; the variable scene says     *)
(* which instance of WithdrawalSaga a behaviour belongs to.                *)
(*   one      one withdrawal, the other having been cancelled before, with *)
(*            every fault of the relay's calls, of its stamps, of the node *)
(*            and of the chain                                             *)
(*   contend  both, over a claim that covers one of them                   *)
(*   landed   both have landed and settle on a rail the ledger has too     *)
(*            little on (the custody is on the other rail)                 *)
(***************************************************************************)
EXTENDS WithdrawalSaga, TLC

CONSTANTS w1, w2, u1, n1, n2, r1

VARIABLE scene

Owners   == w1 :> u1 @@ w2 :> u1
Rails    == w1 :> n1 @@ w2 :> n1
Grosses  == w1 :> 2 @@ w2 :> 2
Fees     == w1 :> 1 @@ w2 :> 0
Funds    == u1 :> (n1 :> 2 @@ n2 :> 0)
Away     == u1 :> (n1 :> 0 @@ n2 :> 4)
Hot      == n1 :> 2 @@ n2 :> 0

One == INSTANCE WithdrawalSaga WITH
    InitTreasury <- n1 :> 1 @@ n2 :> 0, MaxDeposits <- 0, MaxForeign <- 1
Contend == INSTANCE WithdrawalSaga WITH
    MaxForeign <- 0, MaxSigns <- 1, MaxAttempts <- 1, Faults <- {}
Split == INSTANCE WithdrawalSaga WITH
    InitTreasury <- n1 :> 4 @@ n2 :> 0, InitFunds <- Away, MaxForeign <- 0, MaxSigns <- 1,
    Faults <- {"unavailable", "stamp_lost", "crash"}

\* The rows of rows dispatched, and no relay at work.
Rested(rows) ==
    /\ outbox = rows
    /\ st = [e \in Events |-> IF \E i \in DOMAIN rows : rows[i] = e THEN "dispatched" ELSE "absent"]
    /\ attempts = [e \in Events |-> 0] /\ compensated = {}
    /\ spent = u1 :> 0 /\ swept = [n \in Networks |-> 0]
    /\ lock = {} /\ at = r1 :> "acquire" /\ cur = r1 :> NoEvent
    /\ leg = r1 :> 1 /\ batch = r1 :> {}

\* The second withdrawal was reserved, cancelled and released.
Cancelled ==
    /\ Rested(<<<<w2, "requested">>, <<w2, "cancelled">>>>)
    /\ wstate = w1 :> "none" @@ w2 :> "cancelled"
    /\ steps = {w2} \X {"reserve", "void_cancel"} /\ xfer = {w2} \X {"reserve", "void_cancel"}
    /\ funded = Funds
    /\ signs = [w \in Withdrawals |-> 0] /\ bcast = [w \in Withdrawals |-> 0]
    /\ chain = [w \in Withdrawals |-> [k \in Signed |-> "none"]]

\* Both withdrawals were reserved, sent and mined.
Landed ==
    /\ Rested(<<<<w1, "requested">>, <<w1, "dispatched">>, <<w2, "requested">>, <<w2, "dispatched">>>>)
    /\ wstate = [w \in Withdrawals |-> "processing"]
    /\ steps = Withdrawals \X {"reserve"} /\ xfer = Withdrawals \X {"reserve"}
    /\ funded = Away
    /\ signs = [w \in Withdrawals |-> 1] /\ bcast = [w \in Withdrawals |-> 1]
    /\ chain = [w \in Withdrawals |-> [k \in Signed |-> IF k = 1 THEN "mined" ELSE "none"]]

SceneInit == \/ scene = "one"     /\ Cancelled
             \/ scene = "contend" /\ Init
             \/ scene = "landed"  /\ Landed
SceneNext == \/ scene = "one"     /\ One!Next     /\ UNCHANGED scene
             \/ scene = "contend" /\ Contend!Next /\ UNCHANGED scene
             \/ scene = "landed"  /\ Split!Next   /\ UNCHANGED scene
SceneSpec == SceneInit /\ [][SceneNext]_<<scene, vars>>

\* Two spends of one claim never both pass: the relay finds no reserve uncovered that the
\* claim check admitted (claims.rs), when no other flow debits the claim unasked.
AdmittedIsReserved == scene = "contend" => ReserveNeverParks

\* The settle's first leg is on the ledger, a later one is not.
HalfSettled(w) == Created(w, "settle") /\ ~(LegsOf(<<w, "settled">>) \subseteq xfer)

\* x settled first and took what w's settle needs: its row is the earlier one (it was passed
\* over, parked or skipped, when w's first leg was posted) and without it the rail covers w.
OvertookSettle(x, w) ==
    /\ Rail[x] = Rail[w] /\ Before(<<x, "settled">>, <<w, "settled">>)
    /\ Created(x, "disburse") /\ WalletPosted(Rail[w]) + Net(x) >= Net(w)

\* What relay.rs's liquidity pre-check buys a settle, whose legs share no transaction, where
\* no call is refused outright.  No settle is stamped compensated_at, so an operator can
\* still unpark it; a crash, an outage or a lost stamp between two legs leaves it queued; it
\* is parked with its first leg posted only when an earlier row, delivered again in between,
\* took the liquidity (run half_parked shows that one); and once every settle is dispatched
\* the clearing account is empty.
HalfSettledIsOvertaken ==
    /\ scene # "one" => NeverHalfApplied
    /\ scene = "landed" =>
          /\ ClearingDrained
          /\ \A w \in Withdrawals : HalfSettled(w) =>
                \/ st[<<w, "settled">>] = "queued"
                \/ \E x \in Withdrawals \ {w} : OvertookSettle(x, w)
=============================================================================
