----------------------------- MODULE TronCustody -----------------------------
(***************************************************************************)
(* Custody of the TRC20 rail (tron_custody.rs, tron_withdrawal_watcher.rs, *)
(* tron_rpc.rs).  TRON has no nonce: every signature is a new transaction  *)
(* with its own expiration, so a send may be replaced only once it can     *)
(* never land.  Two drivers push a send, the relay that delivers the       *)
(* Dispatched row and the watcher that confirms it, and each reads the     *)
(* row, the solidified head and the receipt in separate calls, which a     *)
(* load balancer may answer from nodes that are not equally far.           *)
(*                                                                         *)
(* Time is counted in blocks; a transaction may enter blocks no later than *)
(* its expiration.                                                         *)
(***************************************************************************)
EXTENDS Integers, FiniteSets

CONSTANTS
    TronSends,        \* withdrawals whose Dispatched row is on the outbox
    TronRelays,       \* sessions that drain it: more than one only when the lock was lost
    TronWindow,       \* expiration_secs
    TronMargin,       \* EXPIRATION_MARGIN_MS
    TronLag,          \* how far the node that answers a receipt may be behind the solid head
    TronMaxTime,      \* bound on the clock
    TronMaxSigned,    \* bound on the signatures of one withdrawal
    TronFaults        \* subset of {"stopped", "lost_answer", "refused", "underfunded", "reorg"}

ASSUME TronAssumption ==
    /\ TronMargin \in Nat /\ TronWindow \in Nat /\ TronMaxTime \in Nat /\ TronMaxSigned \in Nat
    /\ TronLag \in 0..TronMargin

VARIABLES
    tState,     \* withdrawals.state
    tQueued,    \* the Dispatched rows not stamped and not parked
    tRow,       \* withdrawal_broadcasts: the signature stored, 0 for no row
    tExp,       \* the expiration of each signature, -1 while there is none
    tChain,     \* each signature: none, sent, or the outcome of the block it is in
    tBlock,     \* the block of a mined signature
    tNow, tSolid,
    tAt,        \* what each driver is doing
    tOn         \* what it has read: the withdrawal, the stored signature, its own

tvars == <<tState, tQueued, tRow, tExp, tChain, tBlock, tNow, tSolid, tAt, tOn>>

TronWatcher == "tron_watcher"
TronDrivers == TronRelays \cup {TronWatcher}
TronSigned == 1..TronMaxSigned
TronTimes == 0..TronMaxTime
TronIdle == [w |-> "none", old |-> 0, new |-> 0, solid |-> 0]
TronMined == {"paid", "reverted"}

TronInit ==
    /\ tState = [w \in TronSends |-> "processing"]
    /\ tQueued = TronSends
    /\ tRow = [w \in TronSends |-> 0]
    /\ tExp = [w \in TronSends |-> [k \in TronSigned |-> -1]]
    /\ tChain = [w \in TronSends |-> [k \in TronSigned |-> "none"]]
    /\ tBlock = [w \in TronSends |-> [k \in TronSigned |-> 0]]
    /\ tNow = 0 /\ tSolid = 0
    /\ tAt = [d \in TronDrivers |-> "idle"]
    /\ tOn = [d \in TronDrivers |-> TronIdle]

----------------------------------------------------------------------------
\* The chain, and what its nodes answer

TronTick == tNow < TronMaxTime /\ tNow' = tNow + 1 /\ UNCHANGED <<tState, tQueued, tRow, tExp, tChain, tBlock, tSolid, tAt, tOn>>

TronSolidify == tSolid < tNow /\ tSolid' = tSolid + 1 /\ UNCHANGED <<tState, tQueued, tRow, tExp, tChain, tBlock, tNow, tAt, tOn>>

\* A block takes a transaction it was sent; the transfer may revert in it.
TronMine(w, k) ==
    /\ tChain[w][k] = "sent" /\ tNow <= tExp[w][k] /\ tNow > tSolid
    /\ \E outcome \in TronMined : tChain' = [tChain EXCEPT ![w][k] = outcome]
    /\ tBlock' = [tBlock EXCEPT ![w][k] = tNow]
    /\ UNCHANGED <<tState, tQueued, tRow, tExp, tNow, tSolid, tAt, tOn>>

\* A block that is not solidified is dropped; its transaction is sent again.
TronReorg(w, k) ==
    /\ "reorg" \in TronFaults
    /\ tChain[w][k] \in TronMined /\ tBlock[w][k] > tSolid
    /\ tChain' = [tChain EXCEPT ![w][k] = "sent"]
    /\ tBlock' = [tBlock EXCEPT ![w][k] = 0]
    /\ UNCHANGED <<tState, tQueued, tRow, tExp, tNow, tSolid, tAt, tOn>>

\* transaction_info: a receipt from a node that has blocks up to `upto`.
HasReceipt(w, k, upto) == tChain[w][k] \in TronMined /\ tBlock[w][k] <= upto

\* How far the answering node may be when the solid head was read as `solid`.
ReceiptNodes(solid) == {upto \in TronTimes : upto >= solid - TronLag /\ upto <= tNow}

----------------------------------------------------------------------------
\* The steps every driver shares

TronGoto(d, at, on) == tAt' = [tAt EXCEPT ![d] = at] /\ tOn' = [tOn EXCEPT ![d] = on]
TronDone(d) == TronGoto(d, "idle", TronIdle)

\* The relay stamps the row dispatched, or parks it; the watcher has no row.
TronEnded(d) ==
    /\ tQueued' = IF d = TronWatcher THEN tQueued ELSE tQueued \ {tOn[d].w}
    /\ TronDone(d)

\* CustodyError::Unavailable: the row stays, the watcher polls again.
TronRetry(d) == UNCHANGED tQueued /\ TronDone(d)

\* A call to a node, the signer or Postgres fails before it had an effect,
\* or the process stops.
TronStopped(d) ==
    /\ "stopped" \in TronFaults /\ tAt[d] # "idle"
    /\ TronRetry(d)
    /\ UNCHANGED <<tState, tRow, tExp, tChain, tBlock, tNow, tSolid>>

\* The solidified head is past the expiration and the margin: no block will
\* take the transaction and a receipt of one that did is there to be read.
ProvablyDead(exp, solid) == solid > exp + TronMargin

----------------------------------------------------------------------------
\* TronCustody::broadcast, delivered by the relay

TronBroadcast(d, w) ==
    /\ d \in TronRelays /\ tAt[d] = "idle" /\ w \in tQueued
    /\ TronGoto(d, IF tRow[w] = 0 THEN "fund" ELSE "resubmit", [TronIdle EXCEPT !.w = w, !.old = tRow[w]])
    /\ UNCHANGED <<tState, tQueued, tRow, tExp, tChain, tBlock, tNow, tSolid>>

\* ensure_treasury_funded: an underfunded hot wallet parks the row.
TronFund(d) ==
    /\ tAt[d] = "fund"
    /\ \/ TronGoto(d, "sign", tOn[d]) /\ UNCHANGED tQueued
       \/ "underfunded" \in TronFaults /\ TronEnded(d)
    /\ UNCHANGED <<tState, tRow, tExp, tChain, tBlock, tNow, tSolid>>

\* sign_fresh: a new transaction at a new reference block.
NextSigning(w, k) == tExp[w][k] = -1 /\ \A j \in 1..(k - 1) : tExp[w][j] # -1
TronSign(d) ==
    LET w == tOn[d].w IN
    /\ tAt[d] = "sign"
    /\ \E k \in TronSigned :
          /\ NextSigning(w, k)
          /\ tExp' = [tExp EXCEPT ![w][k] = tNow + TronWindow]
          /\ TronGoto(d, IF tOn[d].old = 0 THEN "store" ELSE "replace", [tOn[d] EXCEPT !.new = k])
    /\ UNCHANGED <<tState, tQueued, tRow, tChain, tBlock, tNow, tSolid>>

\* store_tx: a row that is already there is left, and ours is sent all the same.
StoreTronTx(d) ==
    LET w == tOn[d].w IN
    /\ tAt[d] = "store"
    /\ tRow' = [tRow EXCEPT ![w] = IF @ = 0 THEN tOn[d].new ELSE @]
    /\ TronGoto(d, "submit", tOn[d])
    /\ UNCHANGED <<tState, tQueued, tExp, tChain, tBlock, tNow, tSolid>>

\* submit: the node takes the bytes (again), refuses them, or its answer is lost.
SubmitTron(d) ==
    LET w == tOn[d].w
        k == tOn[d].new
        taken == IF tChain[w][k] = "none" THEN [tChain EXCEPT ![w][k] = "sent"] ELSE tChain
    IN  /\ tAt[d] = "submit"
        /\ \/ tNow <= tExp[w][k] /\ tChain' = taken /\ TronEnded(d)
           \/ "lost_answer" \in TronFaults /\ tNow <= tExp[w][k] /\ tChain' = taken /\ TronRetry(d)
           \/ "refused" \in TronFaults /\ UNCHANGED tChain /\ TronEnded(d)
           \/ tNow > tExp[w][k] /\ UNCHANGED tChain /\ TronEnded(d)
        /\ UNCHANGED <<tState, tRow, tExp, tBlock, tNow, tSolid>>

\* resubmit, its clock and its solid head: send the stored bytes again while
\* they are valid, wait while they may still land, go on when they are dead.
ResubmitTron(d) ==
    LET w == tOn[d].w
        k == tOn[d].old
    IN  /\ tAt[d] = "resubmit"
        /\ \/ tNow < tExp[w][k] /\ TronGoto(d, "submit", [tOn[d] EXCEPT !.new = k]) /\ UNCHANGED tQueued
           \/ tNow >= tExp[w][k] /\ ~ProvablyDead(tExp[w][k], tSolid) /\ TronRetry(d)
           \/ /\ tNow >= tExp[w][k] /\ ProvablyDead(tExp[w][k], tSolid)
              /\ TronGoto(d, "receipt_of_dead", [tOn[d] EXCEPT !.solid = tSolid]) /\ UNCHANGED tQueued
        /\ UNCHANGED <<tState, tRow, tExp, tChain, tBlock, tNow, tSolid>>

\* resubmit, its receipt: a mined transaction needs nothing more.
ResubmitReceipt(d) ==
    LET w == tOn[d].w IN
    /\ tAt[d] = "receipt_of_dead"
    /\ \E upto \in ReceiptNodes(tOn[d].solid) :
          IF HasReceipt(w, tOn[d].old, upto) THEN TronEnded(d)
          ELSE TronGoto(d, "fund", tOn[d]) /\ UNCHANGED tQueued
    /\ UNCHANGED <<tState, tRow, tExp, tChain, tBlock, tNow, tSolid>>

\* replace_tx: the row changes only while it still holds the dead
\* transaction, and only who changed it sends.
SwapWins(w, old) == tRow[w] = old
ReplaceTron(d) ==
    LET w == tOn[d].w
        wins == SwapWins(w, tOn[d].old)
    IN  /\ tAt[d] = "replace"
        /\ tRow' = IF wins THEN [tRow EXCEPT ![w] = tOn[d].new] ELSE tRow
        /\ IF wins THEN TronGoto(d, "submit", tOn[d]) /\ UNCHANGED tQueued ELSE TronEnded(d)
        /\ UNCHANGED <<tState, tExp, tChain, tBlock, tNow, tSolid>>

----------------------------------------------------------------------------
\* The confirmation watcher

\* pending_broadcasts and the solid head of the poll.
TronPoll(w) ==
    /\ tAt[TronWatcher] = "idle"
    /\ tState[w] = "processing" /\ tRow[w] # 0
    /\ TronGoto(TronWatcher, "check", [TronIdle EXCEPT !.w = w, !.old = tRow[w], !.solid = tSolid])
    /\ UNCHANGED <<tState, tQueued, tRow, tExp, tChain, tBlock, tNow, tSolid>>

\* check_one: settle a solidified success, leave a revert to the operator,
\* drive what has no receipt (resubmit_stuck reads the row again).
\* (FinalAtOnce: without waiting for the solid head.)
FinalAtOnce(w, k, solid) == tBlock[w][k] <= tNow
Solidified(w, k, solid) == tBlock[w][k] <= solid
TronCheck ==
    LET w == tOn[TronWatcher].w
        k == tOn[TronWatcher].old
        solid == tOn[TronWatcher].solid
    IN  /\ tAt[TronWatcher] = "check"
        /\ \E upto \in ReceiptNodes(solid) :
              IF ~HasReceipt(w, k, upto)
              THEN /\ TronGoto(TronWatcher, "resubmit", [tOn[TronWatcher] EXCEPT !.old = tRow[w]])
                   /\ UNCHANGED tState
              ELSE /\ TronDone(TronWatcher)
                   /\ IF tChain[w][k] = "paid" /\ Solidified(w, k, solid) /\ tState[w] = "processing"
                      THEN tState' = [tState EXCEPT ![w] = "settled"] ELSE UNCHANGED tState
        /\ UNCHANGED <<tQueued, tRow, tExp, tChain, tBlock, tNow, tSolid>>

\* The operator re-drives a parked row (balance service, unpark).
TronUnpark(w) ==
    /\ w \notin tQueued /\ tState[w] = "processing" /\ \A d \in TronDrivers : tOn[d].w # w
    /\ tQueued' = tQueued \cup {w}
    /\ UNCHANGED <<tState, tRow, tExp, tChain, tBlock, tNow, tSolid, tAt, tOn>>

----------------------------------------------------------------------------
TronDrive(d) ==
    \/ \E w \in TronSends : TronBroadcast(d, w)
    \/ TronFund(d) \/ TronSign(d) \/ StoreTronTx(d) \/ SubmitTron(d)
    \/ ResubmitTron(d) \/ ResubmitReceipt(d) \/ ReplaceTron(d)
    \/ TronStopped(d)

TronNext ==
    \/ TronTick \/ TronSolidify
    \/ \E w \in TronSends : TronPoll(w) \/ TronUnpark(w) \/ \E k \in TronSigned : TronMine(w, k) \/ TronReorg(w, k)
    \/ TronCheck
    \/ \E d \in TronDrivers : TronDrive(d)

TronSpec == TronInit /\ [][TronNext]_tvars

----------------------------------------------------------------------------
TronTypeOK ==
    /\ tState \in [TronSends -> {"processing", "settled"}]
    /\ tQueued \subseteq TronSends
    /\ tRow \in [TronSends -> 0..TronMaxSigned]
    /\ tExp \in [TronSends -> [TronSigned -> -1..(TronMaxTime + TronWindow)]]
    /\ tChain \in [TronSends -> [TronSigned -> {"none", "sent"} \cup TronMined]]
    /\ tBlock \in [TronSends -> [TronSigned -> TronTimes]]
    /\ tNow \in TronTimes /\ tSolid \in 0..tNow
    /\ tAt \in [TronDrivers -> {"idle", "fund", "sign", "store", "submit", "resubmit", "receipt_of_dead", "replace", "check"}]
    /\ tOn \in [TronDrivers -> [w : TronSends \cup {"none"}, old : 0..TronMaxSigned, new : 0..TronMaxSigned, solid : TronTimes]]

\* At most one transaction of a withdrawal can pay: one that has paid, or
\* was sent and may still be taken by a block, excludes every other.
TronOnePayout ==
    \A w \in TronSends : \A j, k \in TronSigned :
        /\ j # k
        /\ tChain[w][j] \in {"paid"} \cup (IF tNow <= tExp[w][j] THEN {"sent"} ELSE {})
        => ~(tChain[w][k] \in {"paid"} \cup (IF tNow <= tExp[w][k] THEN {"sent"} ELSE {}))

\* A settled withdrawal has a transfer in a block that cannot be dropped.
TronSettledIsFinal ==
    \A w \in TronSends : tState[w] = "settled" =>
        \E k \in TronSigned : tChain[w][k] = "paid" /\ tBlock[w][k] <= tSolid

\* The stored row is the transaction that paid: the one a redelivery would
\* send and the watcher looks for.
TronRowIsTheSend ==
    \A w \in TronSends : \A k \in TronSigned :
        tChain[w][k] = "paid" /\ tBlock[w][k] <= tSolid => tRow[w] = k

\* One withdrawal is one transfer on TRON, whatever the nodes say when: at most one of its
\* transactions can pay, the row names the one that did, and a settled withdrawal's is final.
TronPaysOnce == TronOnePayout /\ TronSettledIsFinal /\ TronRowIsTheSend
=============================================================================
