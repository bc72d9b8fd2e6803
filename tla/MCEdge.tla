------------------------------- MODULE MCEdge -------------------------------
(***************************************************************************)
(* The edges of the system: chains, identity, keys, the registry of scopes, *)
(* the window tool and the cabinet, none of which shares state with the    *)
(* others.  The variable scene says which one a behaviour is about.  TRON  *)
(* custody has variables of its own; the others take theirs from v1..v18,  *)
(* as many as they need.                                                   *)
(*   tron      a payout while nodes are not equally far                    *)
(*   ton       two payouts of one amount from one wallet                   *)
(*   overlap   two relays drain at once and a restore forgets a mined send *)
(*   pruned, reorged       deposits on an EVM rail                         *)
(*   trc20, jetton         deposits read from an indexer                   *)
(*   nonces, gate          the gas station, EVM and TON                    *)
(*   bridge, builds, sessions, outage, replays   identity and its tokens   *)
(*   boot, keys, spend, pins, moved              the signer                *)
(*   follow, parked, rewound, frozen, moves      the registry of scopes    *)
(*   exported, anchored, remapped, burned        closing a window          *)
(*   tokens, rate, gates                         the cabinet               *)
(***************************************************************************)
EXTENDS TronCustody, TLC

CONSTANTS x1, x2, x3, y1, y2, w1, NoEvent

VARIABLES scene, v1, v2, v3, v4, v5, v6, v7, v8, v9, v10, v11, v12, v13, v14, v15, v16, v17, v18

vs == <<v1, v2, v3, v4, v5, v6, v7, v8, v9, v10, v11, v12, v13, v14, v15, v16, v17, v18>>

Ton == INSTANCE TonCustody WITH
    TonSends <- {x1, x2}, TonRelays <- {y1}, TonNet <- x1 :> 1 @@ x2 :> 1,
    TonWindow <- 1, TonMaxTime <- 1, TonMaxSeqno <- 1,
    TonFaults <- {"stopped", "lost_answer", "refused", "underfunded", "dropped", "discard_lost"},
    nState <- v1, nRef <- v2, nQueued <- v3, nRow <- v4, nPool <- v5, nOut <- v6, nNow <- v7,
    nAt <- v8, nOn <- v9, nScan <- v10, nSeen <- v11, nForgotten <- v12, nAhead <- v13

Saga == INSTANCE WithdrawalSaga WITH
    Withdrawals <- {x1}, Users <- {"u"}, Networks <- {"n"}, Relays <- {y1, y2},
    Owner <- x1 :> "u", Rail <- x1 :> "n", Gross <- x1 :> 3, Fee <- x1 :> 1,
    InitFunds <- "u" :> ("n" :> 3), InitTreasury <- "n" :> 4,
    DepositAmount <- 1, MaxDeposits <- 0, MaxForeign <- 0, MaxSigns <- 2, MaxAttempts <- 1,
    Faults <- {"lock_drop", "restore"},
    wstate <- v1, outbox <- v2, st <- v3, attempts <- v4, compensated <- v5, steps <- v6, xfer <- v7,
    funded <- v8, spent <- v9, signs <- v10, bcast <- v11, chain <- v12, swept <- v13, lock <- v14,
    at <- v15, cur <- v16, leg <- v17, batch <- v18

DepFault == [pruned |-> {"failed", "db_crash", "prune"}, reorged |-> {"failed", "reorg", "migrate"}]
Dep(s) == INSTANCE Deposits WITH
    DepUsers <- {"u"}, DepPays <- {x1, x2}, DepConfirmations <- 1, DepRange <- 2, DepSlack <- 1,
    DepClamps <- 2, DepMin <- 1, DepPause <- 1, DepMaxHead <- 4, DepGens <- 2, DepFaults <- DepFault[s],
    dHead <- v1, dPaid <- v2, dSweep <- v3, dMoved <- v4, dKept <- v5, dGen <- v6, dCursor <- v7,
    dSynced <- v8, dRow <- v9, dEvents <- v10, dFiled <- v11, dNews <- v12, dScan <- v13,
    dTask <- v14, dCleared <- v15

FeedWith == [trc20  |-> [owners |-> {"o1", "o2", "treasury"}, floats |-> FALSE],
             jetton |-> [owners |-> {"o1", "treasury"}, floats |-> TRUE]]
Feed(s) == INSTANCE FeedScan WITH
    FeedOwners <- FeedWith[s].owners, FeedTreasury <- "treasury", FeedPays <- {x1, x2},
    FeedLookback <- 2, FeedLag <- 1, FeedSkip <- 1, FeedPage <- 2, FeedMaxTime <- 4,
    FeedFloats <- FeedWith[s].floats, FeedFaults <- {"fetch", "stopped"},
    fNow <- v1, fOwners <- v2, fPaid <- v3, fShown <- v4, fCursor <- v5, fRow <- v6, fCycle <- v7,
    fFetched <- v8

Gas == INSTANCE GasStation WITH
    GasAddresses <- {"a", "b"}, GasMaxNonce <- 2, GasWindow <- 1, GasMaxTime <- 2, GasHolds <- 2,
    GasFaults <- {"lagging", "ambiguous", "rejected", "signer", "refused", "restart", "unlanded"},
    gMined <- v1, gPool <- v2, gDry <- v3, gNext <- v4, gGrace <- v5, gStep <- v6, gGate <- v7,
    gHeld <- v8, gNow <- v9

IdScene(consumers, calls, feed, kinds, ops, faults) ==
    [consumers |-> consumers, calls |-> calls, feed |-> feed, kinds |-> kinds, ops |-> ops, faults |-> faults]
IdWith == [
    bridge   |-> IdScene({y1, y2}, {}, 3, {"created", "role"}, {}, {"no_created"}),
    builds   |-> IdScene({y1}, {}, 3, {"created", "suspended", "role", "revoked"}, {},
                         {"crash", "old_build", "stuck", "no_created"}),
    sessions |-> IdScene({y1}, {x1, x2, x3}, 2, {"revoked"}, {"signin", "refresh", "logout_all"},
                         {"bump_lost"}),
    outage   |-> IdScene({y1}, {x1, x2}, 2, {"revoked"}, {"signin", "refresh", "logout_all"},
                         {"bump_lost", "redis"}),
    replays  |-> IdScene({}, {x1, x2, x3}, 1, {}, {"signin", "refresh", "logout", "list", "revoke_session"}, {"disable"})]
Id(s) == INSTANCE Identity WITH
    IdUsers <- {"u"}, IdConsumers <- IdWith[s].consumers, IdCalls <- IdWith[s].calls,
    IdFamilies <- {"f1", "f2"}, IdMaxFeed <- IdWith[s].feed, IdKinds <- IdWith[s].kinds,
    IdPullLimit <- 2, IdMaxSecrets <- 2, IdOps <- IdWith[s].ops, IdFaults <- IdWith[s].faults,
    iFeed <- v1, iCursor <- v2, iRow <- v3, iParked <- v4, iRoster <- v5, iBuild <- v6, iTask <- v7,
    iFam <- v8, iIndex <- v9, iCall <- v10
\* The user's first event is mirrored and a session is open.
SignedIn(s) ==
    /\ v1 = <<[user |-> "u", seq |-> 1, kind |-> "created", owner |-> FALSE, version |-> 0]>>
    /\ v2 = 1 /\ v3 = "u" :> Id(s)!NewUser(1, FALSE) /\ v4 = {} /\ v5 = "u" :> 0 /\ v6 = TRUE
    /\ v7 = [c \in IdWith[s].consumers |-> Id(s)!Idle]
    /\ v8 = "f1" :> [Id(s)!NoFamily EXCEPT !.state = "live", !.secret = 1] @@ "f2" :> Id(s)!NoFamily
    /\ v9 = "u" :> {"f1"} /\ v10 = [k \in IdWith[s].calls |-> Id(s)!Fresh]

NoBrake == [halted |-> FALSE, cap |-> 2]
SigScene(reqs, cmds, replicas, keks, ton, faults) ==
    [reqs |-> reqs, cmds |-> cmds, replicas |-> replicas, keks |-> keks, ton |-> ton, faults |-> faults]
SigWith == [
    boot  |-> SigScene({}, {<<"provision", 1>>, <<"provision", 2>>}, {y1, y2}, {"k1", "k2"}, FALSE, {"crash"}),
    keys  |-> SigScene({}, {<<"provision", 1>>, <<"rotate", 1>>, <<"migrate", 1>>, <<"migrate", 2>>}, {y1}, {"k1"},
                       FALSE, {"dropped"}),
    spend |-> SigScene({x1, x2}, {}, {y1}, {"k1"}, FALSE, {"crash", "dropped", "refused", "release_failed"}),
    pins  |-> SigScene({x1, x2}, {<<"rotate", 1>>}, {y1}, {"k1"}, TRUE, {}),
    moved |-> SigScene({x1, x2}, {<<"migrate", 1>>}, {y1}, {"k1"}, TRUE, {})]
Sig(s) == INSTANCE Signer WITH
    SigWallets <- {"t", "g"}, Treasury <- "t", Station <- "g", SigReqs <- SigWith[s].reqs,
    SigCmds <- SigWith[s].cmds, SigReplicas <- SigWith[s].replicas, SigKeks <- SigWith[s].keks,
    SigCustodian <- s \in {"keys", "moved"}, SigTon <- SigWith[s].ton, SigCap <- 2, SigFeeBudget <- 1,
    SigAmounts <- IF s = "spend" THEN {1, 2} ELSE {1},
    SigKinds <- {"token"} \cup (IF s = "spend" THEN {"native"} ELSE {}),
    SigBrakes <- IF s = "spend" THEN {NoBrake, [NoBrake EXCEPT !.cap = 1]} ELSE {NoBrake},
    SigWindow <- 1, SigMaxTime <- IF s = "spend" THEN 2 ELSE 0, SigMaxKeys <- 3, SigOldKeys <- s \in {"keys", "pins"},
    SigFaults <- SigWith[s].faults,
    sNow <- v1, sBrake <- v2, sRows <- v3, sReq <- v4, sSigned <- v5, sKeys <- v6, sActive <- v7,
    sPin <- v8, sCmd <- v9, sRetired <- v10, sSentinel <- v11, sBoot <- v12

RegScene(consumers, moves, feed, kinds, limit, amounts, faults) ==
    [consumers |-> consumers, moves |-> moves, feed |-> feed, kinds |-> kinds, limit |-> limit,
     amounts |-> amounts, faults |-> faults]
RegWith == [
    follow  |-> RegScene({y1, y2}, {}, 3, {"scope"}, 2, {}, {"lock_lost"}),
    parked  |-> RegScene({y1}, {}, 2, {"scope", "odd", "other", "unknown"}, 2, {}, {"crash", "old_build", "page", "reopen"}),
    rewound |-> RegScene({y1}, {}, 2, {"scope", "odd"}, 1, {}, {"old_build", "rewind"}),
    frozen  |-> RegScene({y1}, {x1, x2}, 1, {"scope"}, 1, {1}, {}),
    moves   |-> RegScene({}, {x1, x2, x3}, 0, {}, 1, {1, 2}, {"seeded"})]
Reg(s) == INSTANCE ScopeRegistry WITH
    RegConsumers <- RegWith[s].consumers, RegMoves <- RegWith[s].moves, RegMaxFeed <- RegWith[s].feed,
    RegKinds <- RegWith[s].kinds, RegPullLimit <- RegWith[s].limit, RegAmounts <- RegWith[s].amounts,
    RegMain <- 4, RegMaxPer <- 2, RegMaxDay <- 3, RegMaxBalance <- 2, RegDay <- 1, RegMaxTime <- IF s = "moves" THEN 1 ELSE 0,
    RegFaults <- RegWith[s].faults,
    rFeed <- v1, rEra <- v2, rCursor <- v3, rParked <- v4, rRow <- v5, rPolicy <- v6, rLock <- v7,
    rBuild <- v8, rTask <- v9, rNow <- v10, rStanding <- v11, rMove <- v12, rClaim <- v13

WinScene(ops, most, files, commands, faults) ==
    [ops |-> ops, most |-> most, files |-> files, commands |-> commands, faults |-> faults]
WinWith == [
    exported |-> WinScene({"mint", "fee"}, 2, 2, {"close"}, {"crash", "live_export"}),
    anchored |-> WinScene({"mint", "sell", "fee", "reopen"}, 1, 1, {"drain", "burn", "remap", "close"}, {"crash"}),
    remapped |-> WinScene({"mint", "reopen"}, 2, 1, {"remap", "close"}, {}),
    burned   |-> WinScene({"sell", "fee"}, 2, 1, {"drain", "burn", "close"}, {})]
Win(s) == INSTANCE Window WITH
    WinHolders <- {"a"}, WinHeld <- "a" :> 1 @@ "fee" :> 1, WinCash <- 1, WinAnchored <- s = "anchored",
    WinOps <- WinWith[s].ops, WinMaxOps <- WinWith[s].most, WinMaxFiles <- WinWith[s].files,
    WinCommands <- WinWith[s].commands, WinFaults <- WinWith[s].faults,
    wReadOnly <- v1, wCalls <- v2, wWrites <- v3, wQueue <- v4, wOrders <- v5, wUnits <- v6, wBook <- v7,
    wBurns <- v8, wExport <- v9, wFiles <- v10, wImported <- v11, wClosed <- v12, wRows <- v13,
    wClaim <- v14, wLegs <- v15, wOwned <- v16, wTool <- v17, wDone <- v18

CabScene(reqs, time, floor, faults) == [reqs |-> reqs, time |-> time, floor |-> floor, faults |-> faults]
CabWith == [
    tokens |-> CabScene({x1, x2}, 3, 1, {"lost", "failed", "revoke"}),
    rate   |-> CabScene({x1, x2, x3}, 3, 0, {}),
    gates  |-> CabScene({x1}, 0, 1, {"revoke", "freeze", "pause", "seat", "concierge"})]
AllRoutes == INSTANCE Cabinet WITH
    CabReqs <- {}, CabRoutes <- {}, CabTtl <- 2, CabRefresh <- 3, CabSkew <- 1, CabDeadline <- 1,
    CabWindow <- 2, CabLimit <- 1, CabWarm <- TRUE, CabMaxTime <- 0, CabMaxFloor <- 0, CabFaults <- {},
    kNow <- v1, kHub <- v2, kSeat <- v3, kMap <- v4, kSlots <- v5, kFams <- v6, kReq <- v7, kHits <- v8,
    kLost <- v9, kHealed <- v10
CabAsked == [tokens |-> {"get_wallet", "request_withdrawal"}, rate |-> {"request_withdrawal"},
             gates |-> DOMAIN AllRoutes!Routes]
Cab(s) == INSTANCE Cabinet WITH
    CabReqs <- CabWith[s].reqs, CabRoutes <- CabAsked[s], CabTtl <- 2, CabRefresh <- 3, CabSkew <- 1,
    CabDeadline <- 1, CabWindow <- 2, CabLimit <- 1, CabWarm <- s # "rate", CabMaxTime <- CabWith[s].time,
    CabMaxFloor <- CabWith[s].floor, CabFaults <- CabWith[s].faults,
    kNow <- v1, kHub <- v2, kSeat <- v3, kMap <- v4, kSlots <- v5, kFams <- v6, kReq <- v7, kHits <- v8,
    kLost <- v9, kHealed <- v10

-----------------------------------------------------------------------------
\* The variables a scene does not use.
Blank17 == v18 = 0
Blank15 == v16 = 0 /\ v17 = 0 /\ Blank17
Blank13 == v14 = 0 /\ v15 = 0 /\ Blank15
Blank12 == v13 = 0 /\ Blank13
Blank10 == v11 = 0 /\ v12 = 0 /\ Blank12
Blank9 == v10 = 0 /\ Blank10
Blank8 == v9 = 0 /\ Blank9
Blank0 == v1 = 0 /\ v2 = 0 /\ v3 = 0 /\ v4 = 0 /\ v5 = 0 /\ v6 = 0 /\ v7 = 0 /\ v8 = 0 /\ Blank8

SceneInit ==
    /\ TronInit
    /\ \/ scene = "tron" /\ Blank0
       \/ scene = "ton" /\ Ton!TonInit /\ Blank13
       \/ scene = "overlap" /\ Saga!Init
       \/ \E s \in DOMAIN DepFault : scene = s /\ Dep(s)!DepInit /\ Blank15
       \/ \E s \in DOMAIN FeedWith : scene = s /\ Feed(s)!FeedInit /\ Blank8
       \/ scene \in {"nonces", "gate"} /\ Gas!GasInit /\ Blank9
       \/ \E s \in {"bridge", "builds"} : scene = s /\ Id(s)!IdInit /\ Blank10
       \/ \E s \in {"sessions", "outage", "replays"} : scene = s /\ SignedIn(s) /\ Blank10
       \/ \E s \in DOMAIN SigWith : scene = s /\ Sig(s)!SigInit /\ (s # "boot" => v11 # "none") /\ Blank12
       \/ \E s \in DOMAIN RegWith : scene = s /\ Reg(s)!RegInit /\ Blank13
       \/ \E s \in DOMAIN WinWith : scene = s /\ Win(s)!WinInit
       \/ \E s \in DOMAIN CabWith : scene = s /\ Cab(s)!CabInit /\ Blank10

Keep8 == UNCHANGED <<v9, v10, v11, v12, v13, v14, v15, v16, v17, v18>>
Keep9 == UNCHANGED <<v10, v11, v12, v13, v14, v15, v16, v17, v18>>
Keep10 == UNCHANGED <<v11, v12, v13, v14, v15, v16, v17, v18>>
Keep12 == UNCHANGED <<v13, v14, v15, v16, v17, v18>>
Keep13 == UNCHANGED <<v14, v15, v16, v17, v18>>
Keep15 == UNCHANGED <<v16, v17, v18>>

EdgeNext ==
    \/ scene = "ton" /\ Ton!TonNext /\ Keep13
    \/ scene = "overlap" /\ Saga!Next
    \/ \E s \in DOMAIN DepFault : scene = s /\ Dep(s)!DepNext /\ Keep15
    \/ \E s \in DOMAIN FeedWith : scene = s /\ Feed(s)!FeedNext /\ Keep8
    \/ scene = "nonces" /\ Gas!GasNext /\ Keep9
    \/ scene = "gate" /\ Gas!TonGasNext /\ Keep9
    \/ \E s \in DOMAIN IdWith : scene = s /\ Id(s)!IdNext /\ Keep10
    \/ \E s \in DOMAIN SigWith : scene = s /\ Sig(s)!SigNext /\ Keep12
    \/ \E s \in DOMAIN RegWith : scene = s /\ Reg(s)!RegNext /\ Keep13
    \/ \E s \in DOMAIN WinWith : scene = s /\ Win(s)!WinNext
    \/ \E s \in DOMAIN CabWith : scene = s /\ Cab(s)!CabNext /\ Keep10
SceneNext ==
    /\ UNCHANGED scene
    /\ \/ scene = "tron" /\ TronNext /\ UNCHANGED vs
       \/ EdgeNext /\ UNCHANGED tvars
SceneSpec == SceneInit /\ [][SceneNext]_<<scene, tvars, vs>>

Alike == Permutations({x1, x2, x3}) \union Permutations({y1, y2})

ASSUME ScenesAssumption ==
    /\ Ton!TonAssumption /\ Gas!GasAssumption
    /\ \A s \in DOMAIN DepFault : Dep(s)!DepositAssumption
    /\ \A s \in DOMAIN FeedWith : Feed(s)!FeedAssumption
    /\ \A s \in DOMAIN SigWith : Sig(s)!SignerAssumption

-----------------------------------------------------------------------------
\* The types of every edge's state.
EdgeTypeOK ==
    /\ scene = "tron" => TronTypeOK
    /\ scene = "ton" => Ton!TonTypeOK
    /\ scene = "overlap" => Saga!TypeOK
    /\ \A s \in DOMAIN DepFault : scene = s => Dep(s)!DepTypeOK
    /\ \A s \in DOMAIN FeedWith : scene = s => Feed(s)!FeedTypeOK
    /\ scene \in {"nonces", "gate"} => Gas!GasTypeOK
    /\ \A s \in DOMAIN IdWith : scene = s => Id(s)!IdTypeOK
    /\ \A s \in DOMAIN SigWith : scene = s => Sig(s)!SigTypeOK
    /\ \A s \in DOMAIN RegWith : scene = s => Reg(s)!RegTypeOK
    /\ \A s \in DOMAIN WinWith : scene = s => Win(s)!WinTypeOK
    /\ \A s \in DOMAIN CabWith : scene = s => Cab(s)!CabTypeOK

\* Money on the chains is accounted for: a TON payout is made once and settled with its own
\* transfer, unless its row was discarded after the watcher had read it (Kept) or the watcher
\* settled with a transfer newer than its rows (AsRead); an EVM payout is made once though two
\* relays drain the queue, no deposit is passed over, credited twice or stranded by a sweep, and
\* no gas top-up waits for one nobody sends.
ChainMoneyIsKept ==
    /\ scene = "ton" => Ton!TonOnePayout /\ Ton!TonSettledIsOwn /\ Ton!TonQueueHasNoGap /\ Ton!UnstoredIsUnsent
    /\ scene = "overlap" => Saga!AtMostOnePayout /\ Saga!SettledOnlyPaid
    /\ \A s \in DOMAIN DepFault : scene = s =>
           Dep(s)!NothingPassedOver /\ Dep(s)!CreditedOnceAndFinal /\ Dep(s)!SweptIsMoved
    /\ \A s \in DOMAIN FeedWith : scene = s => Feed(s)!NothingFallsBehind
    /\ scene = "nonces" => Gas!NoNonceGap
    /\ scene = "gate" => Gas!GateWaitsForTheLiving

\* Whoever acts is who they may be: the mirror of identities follows the feed, what was revoked
\* mints nothing, a replayed secret ends its family, the signer spends within its windows and
\* serves live keys only, and the cabinet lets no barred request through.  Of the scene over
\* Redis the end of a replayed family is not asked (see ReplayedSecretEndsFamily).
OnlyTheEntitledAct ==
    /\ \A s \in DOMAIN IdWith : scene = s =>
           /\ Id(s)!MirrorFollowsFeed /\ Id(s)!RevokedNeverRefreshes /\ Id(s)!SecretBuysOnce
           /\ s # "outage" => Id(s)!ReplayedSecretEndsFamily
    /\ \A s \in DOMAIN SigWith : scene = s => Sig(s)!SignerSafe
    /\ \A s \in DOMAIN CabWith : scene = s => Cab(s)!CabinetSafe

\* Books kept on two sides agree: the registry of scopes is what the stream says and holds still
\* when the stream was rewound, moves stay within the policy, and a window is closed for exactly
\* what was exported.
TwoBooksAgree ==
    /\ \A s \in DOMAIN RegWith : scene = s =>
           Reg(s)!RegistryFollowsStream /\ Reg(s)!RewoundIsHeld /\ Reg(s)!MovesWithinPolicy
    /\ \A s \in DOMAIN WinWith : scene = s => Win(s)!WindowSafe

\* What was decided is not undone beside it: a jetton pin stands as long as its key, and no move
\* into a scope is recorded once a freeze has committed.
DecisionsStand ==
    [][/\ \A s \in DOMAIN SigWith : scene = s => Sig(s)!PinKept
       /\ \A s \in DOMAIN RegWith : scene = s => Reg(s)!RecordedWhileActive]_<<scene, tvars, vs>>
=============================================================================
