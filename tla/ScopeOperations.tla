-------------------------- MODULE ScopeOperations --------------------------
(***************************************************************************)
(* Money out of a scope: payouts a client may make alone within budgets,   *)
(* and operations (larger payouts, transfers) that wait for an approval    *)
(* decided in concierge.  Every core process runs an executor that opens   *)
(* approvals, carries out the passed ones and settles the ended ones; two  *)
(* of them overlap during a deploy.  Concierge is another system: its      *)
(* decision can change, and its answers can be lost, between any two steps.*)
(***************************************************************************)
EXTENDS Integers, Sequences, FiniteSets, FiniteSetsExt

CONSTANTS
    Ops,          \* pending operations
    Autos,        \* payouts asked for without approval
    OpKind,       \* [Ops -> {"payout", "transfer", "cross"}]
    Total,        \* [Ops \union Autos -> Nat \ {0}]
    Budget,       \* auto_payout_scope_24h: what leaves the scope unapproved in a day
    ClientBudget, \* auto_payout_client_24h
    MaxLine,      \* the largest payout a client makes alone
    Balance0,     \* balance of the source account at the start
    Carriers,     \* executors
    MaxLive,      \* MAX_LIVE_OPERATIONS
    OpFaults      \* subset of {"crash", "lost", "refused", "mismatch", "frozen", "blocked"}

Outs == Ops \union Autos

ASSUME OperationsAssumption ==
    /\ Ops \cap Autos = {} /\ IsFiniteSet(Outs)
    /\ OpKind \in [Ops -> {"payout", "transfer", "cross"}]
    /\ Total \in [Outs -> Nat \ {0}]
    /\ {Budget, ClientBudget, MaxLine, Balance0, MaxLive} \subseteq Nat

VARIABLES
    ostate,     \* scope_operations.state, "none" before the request
    oappr,      \* approval_id: 0 until opened, then the approval's number
    olevel,     \* approval_level
    oflag,      \* operations recorded over_scope_budget
    payout,     \* the row an operation or a request wrote, by its state
    agedOut,       \* rows outside the 24 h window
    oldOps,     \* operations unopened for 72 h
    inHand,     \* [Outs -> Int]: the outflow a holder of the budget lock read, else -1
    balance,    \* of the source account, on the ledger
    shut, blocked,    \* the scope, a recipient
    catalog,    \* executors that have published the catalog
    appr,       \* [Ops -> [1..2 -> ...]]: approvals as concierge holds them
    apLevel,    \* [Ops -> [1..2 -> level]]
    altered,    \* approvals over another payload than the operation's
    opFeed,       \* [Ops -> Seq(events)]
    carry,      \* [Carriers -> [at, job, num, out]]: registers of the executors
    paidUnder   \* history: the approvals an operation moved money under

rowVars   == <<ostate, oappr, olevel, oflag>>
moneyVars == <<payout, balance, paidUnder>>
clockVars == <<agedOut, oldOps>>
worldVars == <<shut, blocked, catalog>>
apprVars  == <<appr, apLevel, altered>>
opVars == <<rowVars, moneyVars, clockVars, worldVars, apprVars, carry, inHand, opFeed>>

OpEnded == {"executed", "rejected", "failed"}
ApprovalStates == {"none", "open", "passed", "ended", "executed", "failed", "void"}

Resting == [at |-> "idle", job |-> CHOOSE o \in Ops : TRUE, num |-> 0, out |-> "none"]

OpInitWith(live) ==
    /\ ostate = [o \in Ops |-> IF o \in live THEN "none" ELSE "rejected"]
    /\ oappr = [o \in Ops |-> 0] /\ olevel = [o \in Ops |-> "none"] /\ oflag = {}
    /\ payout = [i \in Outs |-> IF i \in live THEN "none" ELSE "failed"]
    /\ balance = Balance0 /\ paidUnder = [o \in Ops |-> <<>>]
    /\ agedOut = {} /\ oldOps = {} /\ inHand = [i \in Outs |-> -1]
    /\ shut = FALSE /\ blocked = FALSE /\ catalog = {}
    /\ appr = [o \in Ops |-> [n \in 1..2 |-> "none"]]
    /\ apLevel = [o \in Ops |-> [n \in 1..2 |-> "none"]] /\ altered = {}
    /\ opFeed = [o \in Ops |-> <<>>]
    /\ carry = [x \in Carriers |-> Resting]
OpInit == OpInitWith(Outs)

-----------------------------------------------------------------------------
(***************************************************************************)
(* What leaves the scope, and what may.                                    *)
(***************************************************************************)
IsPayout(o) == OpKind[o] = "payout"
TotalOf(S) == MapThenSumSet(LAMBDA i : Total[i], S)

PaidAlone == {i \in Autos : payout[i] \in {"pending", "posted"} /\ i \notin agedOut}

\* Payouts at scope level count while they wait and for a day once executed.
CountedOperations ==
    {o \in Ops : /\ IsPayout(o) /\ olevel[o] # "platform"
                 /\ ostate[o] = "awaiting" \/ (ostate[o] = "executed" /\ o \notin agedOut)}

ScopeOut24h == TotalOf(PaidAlone) + TotalOf(CountedOperations)

\* Debits recorded and not yet applied, off the ledger's balance.
SpendableOut ==
    balance - TotalOf({i \in Outs : payout[i] = "pending"})

AdmitAutoPayout(i, scopeOut) ==
    /\ Total[i] <= MaxLine
    /\ TotalOf(PaidAlone) + Total[i] <= ClientBudget
    /\ scopeOut + Total[i] <= Budget

OverScopeBudget(o, scopeOut) == scopeOut + Total[o] > Budget

LiveOperations == Cardinality({o \in Ops : ostate[o] = "awaiting"})

-----------------------------------------------------------------------------
(***************************************************************************)
(* Requests.  record_payout, and record_operation of a payout, hold the    *)
(* scope's budget lock from the read of its outflow to their commit.       *)
(***************************************************************************)

BudgetFree == \A i \in Outs : inHand[i] = -1

Reads(i) == inHand[i] = -1 /\ inHand' = [inHand EXCEPT ![i] = ScopeOut24h]
Done(i) == inHand[i] >= 0 /\ inHand' = [inHand EXCEPT ![i] = -1]

RecordPayoutReads(i) ==
    /\ BudgetFree /\ payout[i] = "none" /\ ~shut /\ ~blocked
    /\ Reads(i)
    /\ UNCHANGED <<rowVars, moneyVars, clockVars, worldVars, apprVars, carry, opFeed>>

RecordPayoutCommits(i) ==
    /\ Done(i)
    /\ payout' = IF AdmitAutoPayout(i, inHand[i]) /\ SpendableOut >= Total[i]
                 THEN [payout EXCEPT ![i] = "pending"] ELSE payout
    /\ UNCHANGED <<rowVars, balance, paidUnder, clockVars, worldVars, apprVars, carry, opFeed>>

RecordOperationReads(o) ==
    /\ IsPayout(o) /\ BudgetFree
    /\ ostate[o] = "none" /\ ~shut /\ ~blocked /\ LiveOperations < MaxLive
    /\ Reads(o)
    /\ UNCHANGED <<rowVars, moneyVars, clockVars, worldVars, apprVars, carry, opFeed>>

RecordOperation(o, over) ==
    /\ ostate' = IF SpendableOut >= Total[o] THEN [ostate EXCEPT ![o] = "awaiting"] ELSE ostate
    /\ oflag' = IF SpendableOut >= Total[o] /\ over THEN oflag \union {o} ELSE oflag

RecordOperationCommits(o) ==
    /\ Done(o)
    /\ RecordOperation(o, OverScopeBudget(o, inHand[o]))
    /\ UNCHANGED <<oappr, olevel, moneyVars, clockVars, worldVars, apprVars, carry, opFeed>>

\* A transfer takes no budget: one transaction under the client's own lock.
RequestTransfer(o) ==
    /\ ~IsPayout(o) /\ ostate[o] = "none" /\ ~shut /\ LiveOperations < MaxLive
    /\ RecordOperation(o, FALSE)
    /\ UNCHANGED <<oappr, olevel, inHand, moneyVars, clockVars, worldVars, apprVars, carry, opFeed>>

-----------------------------------------------------------------------------
(***************************************************************************)
(* The store: each is one transaction under the operation's row lock.      *)
(***************************************************************************)
Tell(o, event) == opFeed' = [opFeed EXCEPT ![o] = Append(@, event)]

\* Slip: an operation that no longer waits is closed again.
CloseAgain(o, end) == ostate' = [ostate EXCEPT ![o] = end] /\ Tell(o, end)

\* close: a no-op unless the operation still waits; the event goes with it.
Close(o, end) ==
    IF ostate[o] = "awaiting"
    THEN ostate' = [ostate EXCEPT ![o] = end] /\ Tell(o, end)
    ELSE UNCHANGED <<ostate, opFeed>>

\* opened: the first approval stored decides; its event is told once.
Opened(o, n) ==
    IF oappr[o] # 0 THEN UNCHANGED <<oappr, olevel, opFeed>>
    ELSE /\ oappr' = [oappr EXCEPT ![o] = n] /\ olevel' = [olevel EXCEPT ![o] = apLevel[o][n]]
         /\ IF ostate[o] = "awaiting" THEN Tell(o, "requested") ELSE UNCHANGED opFeed

-----------------------------------------------------------------------------
(***************************************************************************)
(* An executor's round: propose, carry out, settle.                        *)
(***************************************************************************)
Becomes(x, label) == carry' = [carry EXCEPT ![x].at = label]
Rests(x) == carry' = [carry EXCEPT ![x] = Resting]
Takes(x, o, n, label) == carry' = [carry EXCEPT ![x] = [Resting EXCEPT !.at = label, !.job = o, !.num = n]]
Leaves(x, result) == carry' = [carry EXCEPT ![x].at = "report", ![x].out = result]

\* The catalog stands once this process has published it.
PublishCatalog(x) ==
    /\ x \notin catalog
    /\ catalog' = catalog \union {x}
    /\ UNCHANGED <<rowVars, moneyVars, clockVars, shut, blocked, apprVars, carry, inHand, opFeed>>

\* expire_unopened lists the stale operations, then closes them one by one.
ExpireReads(x, o) ==
    /\ carry[x].at = "idle" /\ x \in catalog
    /\ ostate[o] = "awaiting" /\ oappr[o] = 0 /\ o \in oldOps
    /\ Takes(x, o, 0, "close")
    /\ UNCHANGED <<rowVars, moneyVars, clockVars, worldVars, apprVars, inHand, opFeed>>

CloseRejected(x) ==
    /\ carry[x].at = "close"
    /\ Close(carry[x].job, "rejected")
    /\ Rests(x)
    /\ UNCHANGED <<oappr, olevel, oflag, moneyVars, clockVars, worldVars, apprVars, inHand>>

ProposeDue(x, o) ==
    /\ carry[x].at = "idle" /\ x \in catalog
    /\ ostate[o] = "awaiting" /\ oappr[o] = 0
    /\ Takes(x, o, 0, "propose")
    /\ UNCHANGED <<rowVars, moneyVars, clockVars, worldVars, apprVars, inHand, opFeed>>

\* Concierge keeps one live approval per dedupe key; after that one ended it
\* may answer with it or open another.
ProposalFor(o, n) ==
    CASE appr[o][1] = "none" -> n = 1
      [] appr[o][1] \in {"open", "passed"} -> n = 1
      [] OTHER -> n \in {1, 2}

Take(o, n, level) ==
    IF appr[o][n] = "none"
    THEN /\ appr' = [appr EXCEPT ![o][n] = "open"] /\ apLevel' = [apLevel EXCEPT ![o][n] = level]
         /\ altered' \in {altered} \union {altered \union {<<o, n>>} : f \in OpFaults \cap {"mismatch"}}
    ELSE UNCHANGED apprVars

\* A flagged payout goes to the platform; another may as well, by its total.
LevelFor(o, level) == o \in oflag => level = "platform"

ProposeAnswered(x, n, level) ==
    LET o == carry[x].job IN
    /\ carry[x].at = "propose" /\ ProposalFor(o, n) /\ LevelFor(o, level)
    /\ Take(o, n, level)
    /\ \/ Takes(x, o, n, IF <<o, n>> \in altered' THEN "withdraw" ELSE "opened")
       \/ "lost" \in OpFaults /\ Rests(x)     \* the answer is lost: postpone
    /\ UNCHANGED <<rowVars, moneyVars, clockVars, worldVars, inHand, opFeed>>

ProposeRefused(x) ==
    /\ "refused" \in OpFaults /\ carry[x].at = "propose"
    /\ Becomes(x, "close")
    /\ UNCHANGED <<rowVars, moneyVars, clockVars, worldVars, apprVars, inHand, opFeed>>

\* Refused on its hash: closed first, then withdrawn in concierge.
CloseMismatch(x) ==
    /\ carry[x].at = "withdraw"
    /\ Close(carry[x].job, "rejected")
    /\ appr' = [appr EXCEPT ![carry[x].job][carry[x].num] = IF @ = "open" THEN "ended" ELSE @]
    /\ Rests(x)
    /\ UNCHANGED <<oappr, olevel, oflag, moneyVars, clockVars, worldVars, apLevel, altered, inHand>>

StoreOpened(x) ==
    /\ carry[x].at = "opened"
    /\ Opened(carry[x].job, carry[x].num)
    /\ Rests(x)
    /\ UNCHANGED <<ostate, oflag, moneyVars, clockVars, worldVars, apprVars, inHand>>

PullApproved(x, o, n) ==
    /\ carry[x].at = "idle" /\ appr[o][n] = "passed"
    /\ Takes(x, o, n, "pulled")
    /\ UNCHANGED <<rowVars, moneyVars, clockVars, worldVars, apprVars, inHand, opFeed>>

\* What an operation that ended is reported as.
OutcomeOf(o) ==
    CASE ostate[o] = "executed" -> "executed" [] ostate[o] = "failed" -> "failed" [] OTHER -> "void"

\* Slip: the passed approval is not compared with the one stored.
OtherApprovalNever(x) == FALSE

OtherApproval(x) == oappr[carry[x].job] \notin {0, carry[x].num}

CarryOut(x) ==
    LET o == carry[x].job IN
    /\ carry[x].at = "pulled"
    /\ \/ OtherApproval(x) /\ Leaves(x, "void")
       \/ ~OtherApproval(x) /\ ostate[o] # "awaiting" /\ Leaves(x, OutcomeOf(o))
       \/ ~OtherApproval(x) /\ ostate[o] = "awaiting" /\ Becomes(x, "confirm")
    /\ UNCHANGED <<rowVars, moneyVars, clockVars, worldVars, apprVars, inHand, opFeed>>

\* The decision is read again; a payload that is not the operation's fails it.
Confirm(x) ==
    LET o == carry[x].job IN
    /\ carry[x].at = "confirm"
    /\ IF appr[o][carry[x].num] # "passed" THEN Rests(x) /\ UNCHANGED <<ostate, opFeed>>
       ELSE IF <<o, carry[x].num>> \in altered THEN Close(o, "failed") /\ Leaves(x, "void")
       ELSE Becomes(x, "adopt") /\ UNCHANGED <<ostate, opFeed>>
    /\ UNCHANGED <<oappr, olevel, oflag, moneyVars, clockVars, worldVars, apprVars, inHand>>

\* An answer to Propose that was lost is stored now; a conflict ends the try.
Adopt(x) ==
    LET o == carry[x].job IN
    /\ carry[x].at = "adopt"
    /\ IF OtherApproval(x) THEN Rests(x) /\ UNCHANGED <<oappr, olevel, opFeed>>
                           ELSE Opened(o, carry[x].num) /\ Becomes(x, "execute")
    /\ UNCHANGED <<ostate, oflag, moneyVars, clockVars, worldVars, apprVars, inHand>>

\* What still has to hold when the money moves, under the locks of execute.
MayMove(o) ==
    /\ ~shut
    /\ IsPayout(o) => ~blocked
    /\ SpendableOut >= Total[o]

Awaits(o) == ostate[o] = "awaiting"

\* execute: the row, the money it moves and its progress in one transaction.
Execute(x) ==
    LET o == carry[x].job IN
    /\ carry[x].at = "execute"
    /\ \/ /\ ~Awaits(o) /\ Leaves(x, OutcomeOf(o)) /\ UNCHANGED <<ostate, opFeed, payout, paidUnder>>
       \/ /\ Awaits(o) /\ MayMove(o) /\ Leaves(x, "executed")
          /\ ostate' = [ostate EXCEPT ![o] = "executed"]
          /\ payout' = [payout EXCEPT ![o] = "pending"]
          /\ paidUnder' = [paidUnder EXCEPT ![o] = Append(@, carry[x].num)]
          /\ UNCHANGED opFeed
       \/ /\ Awaits(o) /\ ~MayMove(o) /\ Leaves(x, "failed")
          /\ ostate' = [ostate EXCEPT ![o] = "failed"] /\ Tell(o, "failed")
          /\ UNCHANGED <<payout, paidUnder>>
    /\ UNCHANGED <<oappr, olevel, oflag, balance, clockVars, worldVars, apprVars, inHand>>

\* Best effort: concierge takes the outcome of a passed approval only.
Report(x) ==
    LET o == carry[x].job IN
    /\ carry[x].at = "report"
    /\ appr' = [appr EXCEPT ![o][carry[x].num] = IF @ = "passed" THEN carry[x].out ELSE @]
    /\ Rests(x)
    /\ UNCHANGED <<rowVars, moneyVars, clockVars, worldVars, apLevel, altered, inHand, opFeed>>

\* settle_one asks concierge, then closes what ended without passing.
SettleOne(x, o) ==
    /\ carry[x].at = "idle" /\ ostate[o] = "awaiting" /\ oappr[o] # 0
    /\ appr[o][oappr[o]] \in {"ended", "void"}
    /\ Takes(x, o, oappr[o], "close")
    /\ UNCHANGED <<rowVars, moneyVars, clockVars, worldVars, apprVars, inHand, opFeed>>

\* The process stops, the store errs or a call is not answered: set aside.
CarrierStops(x) ==
    /\ carry[x].at # "idle"
    /\ "crash" \in OpFaults \/ (carry[x].at = "report" /\ "lost" \in OpFaults)
    /\ Rests(x)
    /\ UNCHANGED <<rowVars, moneyVars, clockVars, worldVars, apprVars, inHand, opFeed>>

-----------------------------------------------------------------------------
(***************************************************************************)
(* The relay, time, and the other systems.                                 *)
(***************************************************************************)
\* The row's posting (ScopePostings), seen from here: posted, or refused.
PostRow(i, to) ==
    /\ payout[i] = "pending"
    /\ to = "posted" => balance >= Total[i]
    /\ payout' = [payout EXCEPT ![i] = to]
    /\ balance' = IF to = "posted" THEN balance - Total[i] ELSE balance
    /\ UNCHANGED <<rowVars, paidUnder, clockVars, worldVars, apprVars, carry, inHand, opFeed>>

DayOver(i) ==
    /\ i \notin agedOut
    /\ IF i \in Autos THEN payout[i] \in {"pending", "posted"} ELSE ostate[i] = "executed"
    /\ agedOut' = agedOut \union {i}
    /\ UNCHANGED <<rowVars, moneyVars, oldOps, worldVars, apprVars, carry, inHand, opFeed>>

UnopenedTooLong(o) ==
    /\ ostate[o] = "awaiting" /\ oappr[o] = 0 /\ o \notin oldOps
    /\ oldOps' = oldOps \union {o}
    /\ UNCHANGED <<rowVars, moneyVars, agedOut, worldVars, apprVars, carry, inHand, opFeed>>

\* The approvers decide; a passed approval can be vetoed or run out.
ApproversDecide(o, n, to) ==
    /\ \/ appr[o][n] = "open" /\ to \in {"passed", "ended"}
       \/ appr[o][n] = "passed" /\ to = "ended"
    /\ appr' = [appr EXCEPT ![o][n] = to]
    /\ UNCHANGED <<rowVars, moneyVars, clockVars, worldVars, apLevel, altered, carry, inHand, opFeed>>

\* A freeze waits for the transaction that shares the scope's row.
FreezeOps ==
    /\ "frozen" \in OpFaults /\ \A i \in Outs : inHand[i] = -1
    /\ shut' = ~shut
    /\ UNCHANGED <<rowVars, moneyVars, clockVars, blocked, catalog, apprVars, carry, inHand, opFeed>>

BlockRecipient ==
    /\ "blocked" \in OpFaults
    /\ blocked' = ~blocked
    /\ UNCHANGED <<rowVars, moneyVars, clockVars, shut, catalog, apprVars, carry, inHand, opFeed>>

AskStep ==
    \/ \E i \in Autos : RecordPayoutReads(i) \/ RecordPayoutCommits(i)
    \/ \E o \in Ops : RecordOperationReads(o) \/ RecordOperationCommits(o) \/ RequestTransfer(o)
RoundOf(x) ==
    \/ PublishCatalog(x)
    \/ \E o \in Ops : ExpireReads(x, o) \/ ProposeDue(x, o) \/ SettleOne(x, o)
    \/ \E o \in Ops, n \in 1..2 : PullApproved(x, o, n)
    \/ \E n \in 1..2, l \in {"scope", "platform"} : ProposeAnswered(x, n, l)
    \/ ProposeRefused(x) \/ CloseRejected(x) \/ CloseMismatch(x) \/ StoreOpened(x)
    \/ CarryOut(x) \/ Confirm(x) \/ Adopt(x) \/ Execute(x) \/ Report(x) \/ CarrierStops(x)
OpWorldStep ==
    \/ \E i \in Outs : DayOver(i) \/ \E to \in {"posted", "failed"} : PostRow(i, to)
    \/ \E o \in Ops : UnopenedTooLong(o)
    \/ \E o \in Ops, n \in 1..2, to \in {"passed", "ended"} : ApproversDecide(o, n, to)
    \/ FreezeOps \/ BlockRecipient
OpNext == AskStep \/ OpWorldStep \/ \E x \in Carriers : RoundOf(x)
OpSpec == OpInit /\ [][OpNext]_opVars

-----------------------------------------------------------------------------
\* Types of the operations, the approvals and the executors.
OpTypeOK ==
    /\ ostate \in [Ops -> {"none", "awaiting"} \union OpEnded]
    /\ oappr \in [Ops -> 0..2] /\ olevel \in [Ops -> {"none", "scope", "platform"}]
    /\ UNION {oflag, oldOps} \subseteq Ops /\ agedOut \subseteq Outs /\ catalog \subseteq Carriers
    /\ payout \in [Outs -> {"none", "pending", "posted", "failed"}]
    /\ balance \in 0..Balance0 /\ {shut, blocked} \subseteq BOOLEAN
    /\ appr \in [Ops -> [1..2 -> ApprovalStates]]
    /\ carry \in [Carriers -> [at : {"idle", "propose", "opened", "close", "withdraw", "pulled", "confirm",
                                      "adopt", "execute", "report"},
                               job : Ops, num : 0..2, out : {"none", "executed", "failed", "void"}]]

\* An operation moves money at most once, under the one approval it stored,
\* and only if it ended executed.
PaidUnderItsApproval ==
    \A o \in Ops :
        /\ Len(paidUnder[o]) <= 1
        /\ paidUnder[o] # <<>> => ostate[o] = "executed" /\ paidUnder[o][1] = oappr[o]

\* What leaves the scope in a day with nobody of the platform asked stays in
\* its budget, the operations that wait for their own scope included.
BudgetHeld ==
    TotalOf(PaidAlone) + TotalOf(CountedOperations \ oflag) <= Budget

\* Concierge was told what became of the operation its approval decided.
ApproversKnowTheTruth ==
    \A o \in Ops, n \in 1..2 :
        /\ appr[o][n] = "executed" => ostate[o] = "executed" /\ oappr[o] = n
        /\ appr[o][n] = "failed" => ostate[o] = "failed"
        /\ appr[o][n] = "void" => ~(ostate[o] \in {"awaiting", "executed"} /\ oappr[o] = n)

\* A client reads a request at most once, before its end, and one end.
FeedTellsOneEnd ==
    \A o \in Ops :
        /\ Len(opFeed[o]) <= 2
        /\ \A k \in 1..Len(opFeed[o]) : opFeed[o][k] = "requested" <=> (k = 1 /\ oappr[o] # 0 /\ opFeed[o][1] = "requested")
        /\ opFeed[o] # <<>> /\ opFeed[o][Len(opFeed[o])] # "requested" => ostate[o] = opFeed[o][Len(opFeed[o])]

\* Who decided hears what came of it, and who asked hears one end.
EndsAreTold == FeedTellsOneEnd /\ ApproversKnowTheTruth

\* Everything recorded is covered by the source account.
RequestsAreCovered == SpendableOut >= 0

\* What leaves a scope left under its one approval, in its budget and out of money it had.
PaidWithinItsRight == PaidUnderItsApproval /\ BudgetHeld /\ RequestsAreCovered
=============================================================================
