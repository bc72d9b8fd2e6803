--------------------------- MODULE WithdrawalSaga ---------------------------
(***************************************************************************)
(* The withdrawal saga of the money hub: the commands that move a          *)
(* withdrawal's row and append its events to the outbox in one Postgres    *)
(* transaction, the relay that drains the outbox row by row to TigerBeetle *)
(* and to EVM custody, and the chain the signed transfers land on.         *)
(*                                                                         *)
(* TigerBeetle's state is the set of transfers it has created; an          *)
(* account's balance is a sum over that set.  One relay step is one        *)
(* external call (a Postgres statement, a TigerBeetle call, a node RPC), so *)
(* every other actor can run between two of them, and a crash or a lost    *)
(* answer can follow each.                                                 *)
(***************************************************************************)
EXTENDS Integers, Sequences, FiniteSets, FiniteSetsExt

CONSTANTS
    Withdrawals,        \* withdrawal ids
    Users,              \* owners of claims
    Networks,           \* custody rails
    Owner,              \* Owner[w]: the claim a withdrawal debits
    Rail,               \* Rail[w]: the network it leaves on
    Gross,              \* Gross[w]: what the claim is debited
    Fee,                \* Fee[w]: the part of it that is kept
    InitFunds,          \* InitFunds[u][n]: deposits already on the ledger
    InitTreasury,       \* InitTreasury[n]: the hot wallet's on-chain balance
    DepositAmount,      \* what one more deposit brings
    MaxDeposits,        \* bound: further deposits
    MaxForeign,         \* bound: debits of other flows an operator re-drives
    MaxSigns,           \* bound: transactions signed per withdrawal
    MaxAttempts,        \* MAX_RETRYABLE_ATTEMPTS
    Relays,             \* relay instances (replicas of the hub)
    Faults,             \* the faults this instance is exposed to
    NoEvent             \* "no outbox row in hand"

Kinds  == {"requested", "dispatched", "settled", "failed", "cancelled"}
Events == Withdrawals \X Kinds
Legs   == {"reserve", "settle", "disburse", "fee", "void_fail", "void_cancel"}
States == {"none", "queued", "processing", "completed", "failed", "cancelled"}
Net(w) == Gross[w] - Fee[w]

ASSUME AmountsAssumption ==
    /\ Owner \in [Withdrawals -> Users]
    /\ Rail \in [Withdrawals -> Networks]
    /\ Gross \in [Withdrawals -> Nat]
    /\ Fee \in [Withdrawals -> Nat]
    /\ \A w \in Withdrawals : Fee[w] < Gross[w]
ASSUME FundsAssumption ==
    /\ InitFunds \in [Users -> [Networks -> Nat]]
    /\ InitTreasury \in [Networks -> Nat]
    /\ DepositAmount \in Nat
ASSUME BoundsAssumption ==
    /\ MaxDeposits \in Nat /\ MaxForeign \in Nat
    /\ MaxSigns \in Nat /\ MaxAttempts \in Nat
    /\ Faults \subseteq {"unavailable", "stamp_lost", "refused", "conflict", "evicted",
                        "reverted", "crash", "lock_drop", "restore", "restore_pending"}
ASSUME NoEventAssumption == NoEvent \notin Events

VARIABLES
    wstate,       \* withdrawals.state, "none" before the row exists
    outbox,       \* the outbox rows in seq order
    st,           \* a row's stamp: absent, queued, dispatched_at, parked_at
    attempts,     \* a row's attempts column
    compensated,  \* rows stamped compensated_at
    steps,        \* saga_steps: <<withdrawal, leg>> recorded
    xfer,         \* TigerBeetle: <<withdrawal, leg>> transfers created
    funded,       \* TigerBeetle: funded[u][n], deposits credited to u on rail n
    spent,        \* TigerBeetle: debits of a claim by other flows
    signs,        \* transactions signed so far
    bcast,        \* withdrawal_broadcasts: the signed transaction stored, 0 none
    chain,        \* chain[w][k]: fate of the k-th signed transaction
    swept,        \* on-chain inflow into the treasury so far, per rail
    lock,         \* holders of the outbox advisory lock
    at, cur, leg, batch  \* per relay: label, row in hand, next leg, rows fetched

rowVars   == <<outbox, st, attempts, compensated>>
tbVars    == <<xfer, funded, spent>>
sendVars  == <<signs, bcast, chain>>
relayVars == <<lock, at, cur, leg, batch>>
vars == <<wstate, rowVars, steps, tbVars, sendVars, swept, relayVars>>

Signed == 1..MaxSigns
Labels == {"acquire", "ready", "check", "leg", "step", "custody", "store",
           "submit_fresh", "submit_again", "discard", "mark", "park"}

(***************************************************************************)
(* The ledger.                                                             *)
(***************************************************************************)
Sum(S, amount(_)) == MapThenSumSet(amount, S)

Created(w, l) == <<w, l>> \in xfer
Voided(w)   == Created(w, "void_fail") \/ Created(w, "void_cancel")
Resolved(w) == Created(w, "settle") \/ Voided(w)
Credited(u) == Sum(Networks, LAMBDA n : funded[u][n])

\* A claim's available balance: posted credits less posted and pending debits.
Available(u) ==
    Credited(u) - spent[u]
      - Sum({w \in Withdrawals : Owner[w] = u /\ Created(w, "reserve") /\ ~Voided(w)},
            LAMBDA w : Gross[w])

\* The posted balance of wallet:<n>, what the ledger thinks the rail holds.
WalletPosted(n) ==
    Sum(Users, LAMBDA u : funded[u][n])
      - Sum({w \in Withdrawals : Rail[w] = n /\ Created(w, "disburse")}, Net)

\* The posted balance of the withdrawal-clearing account.
ClearingPosted ==
    Sum({w \in Withdrawals : Created(w, "settle")}, LAMBDA w : Gross[w])
      - Sum({w \in Withdrawals : Created(w, "disburse")}, Net)
      - Sum({w \in Withdrawals : Created(w, "fee")}, LAMBDA w : Fee[w])

\* plan_withdrawal: the ledger legs of an event, in the order they are applied.
Plan(e) ==
    CASE e[2] = "requested"  -> <<"reserve">>
      [] e[2] = "dispatched" -> <<>>
      [] e[2] = "settled"    -> IF Fee[e[1]] = 0 THEN <<"settle", "disburse">>
                                ELSE <<"settle", "disburse", "fee">>
      [] e[2] = "failed"     -> <<"void_fail">>
      [] e[2] = "cancelled"  -> <<"void_cancel">>

\* What TigerBeetle answers a create_transfers of one leg.
Answer(w, l) ==
    IF Created(w, l) THEN "exists" ELSE
    CASE l = "reserve"  -> IF Available(Owner[w]) >= Gross[w] THEN "created" ELSE "insufficient"
      [] l \in {"settle", "void_fail", "void_cancel"} ->
            IF ~Created(w, "reserve") THEN "not_found"
            ELSE IF Resolved(w) THEN "exists" ELSE "created"
      [] l = "disburse" -> IF WalletPosted(Rail[w]) >= Net(w) /\ ClearingPosted >= Net(w)
                           THEN "created" ELSE "insufficient"
      [] l = "fee"      -> IF ClearingPosted >= Fee[w] THEN "created" ELSE "insufficient"

(***************************************************************************)
(* The chain: USDT the treasury can spend on a rail.                       *)
(***************************************************************************)
Treasury(n) ==
    InitTreasury[n] + swept[n]
      - Sum({x \in Withdrawals \X Signed : Rail[x[1]] = n /\ chain[x[1]][x[2]] = "mined"},
            LAMBDA x : Net(x[1]))

-----------------------------------------------------------------------------
Init ==
    /\ wstate = [w \in Withdrawals |-> "none"]
    /\ outbox = <<>>
    /\ st = [e \in Events |-> "absent"]
    /\ attempts = [e \in Events |-> 0]
    /\ compensated = {}
    /\ steps = {} /\ xfer = {}
    /\ funded = InitFunds
    /\ spent = [u \in Users |-> 0]
    /\ signs = [w \in Withdrawals |-> 0]
    /\ bcast = [w \in Withdrawals |-> 0]
    /\ chain = [w \in Withdrawals |-> [k \in Signed |-> "none"]]
    /\ swept = [n \in Networks |-> 0]
    /\ lock = {}
    /\ at = [r \in Relays |-> "acquire"]
    /\ cur = [r \in Relays |-> NoEvent]
    /\ leg = [r \in Relays |-> 1]
    /\ batch = [r \in Relays |-> {}]

-----------------------------------------------------------------------------
(***************************************************************************)
(* Commands.  Each is one Postgres transaction: the row's transition and   *)
(* the events it drains to the outbox commit together.                     *)
(***************************************************************************)
Drain(events) ==
    /\ outbox' = outbox \o events
    /\ st' = [e \in Events |-> IF \E i \in DOMAIN events : events[i] = e
                               THEN "queued" ELSE st[e]]
    /\ UNCHANGED <<attempts, compensated>>

Transition(w, from, to, events) ==
    /\ wstate[w] = from
    /\ wstate' = [wstate EXCEPT ![w] = to]
    /\ Drain(events)
    /\ UNCHANGED <<steps, tbVars, sendVars, swept, relayVars>>

\* Slip: the spend guard trusts the ledger balance alone.
UnappliedIgnored(u) == 0

\* Debits of a claim recorded and not yet marked applied (parked ones left out).
Unapplied(u) ==
    Sum({w \in Withdrawals : Owner[w] = u /\ st[<<w, "requested">>] = "queued"},
        LAMBDA w : Gross[w])
Spendable(u) == Available(u) - Unapplied(u)

\* min(ledger rail, on-chain treasury) covers the net.
RailCovers(w) == WalletPosted(Rail[w]) >= Net(w) /\ Treasury(Rail[w]) >= Net(w)

\* open_withdrawal left queued: a payment order's withdrawal, a short rail, or
\* a treasury read that failed.
OpenQueued(w) ==
    /\ Spendable(Owner[w]) >= Gross[w]
    /\ Transition(w, "none", "queued", << <<w, "requested">> >>)

OpenDispatched(w) ==
    /\ Spendable(Owner[w]) >= Gross[w]
    /\ RailCovers(w)
    /\ Transition(w, "none", "processing", << <<w, "requested">>, <<w, "dispatched">> >>)

\* One dispatch of a dispatcher sweep.  The running deduction of a sweep only
\* narrows the gate, and a sweep that skips the others takes this step.
SweepDispatch(w) ==
    /\ RailCovers(w)
    /\ Transition(w, "queued", "processing", << <<w, "dispatched">> >>)

\* DispatchWithdrawal by an operator: the chain view may be unreadable, and the
\* ledger rail is not asked.
OperatorDispatch(w) == Transition(w, "queued", "processing", << <<w, "dispatched">> >>)

\* By the owner, by the reaper past the maximum age, or by a refused payment.
Cancel(w) == Transition(w, "queued", "cancelled", << <<w, "cancelled">> >>)

\* Slip: settled as soon as the node knows the transaction.
SettleUnmined(w) ==
    /\ bcast[w] # 0 /\ chain[w][bcast[w]] # "none"
    /\ Transition(w, "processing", "completed", << <<w, "settled">> >>)

\* Slip: the row completes, its event is not drained.
SettleUndrained(w) ==
    /\ bcast[w] # 0 /\ chain[w][bcast[w]] = "mined"
    /\ Transition(w, "processing", "completed", <<>>)

\* The watcher settles the stored transaction once it is mined deep enough.
WatcherSettle(w) ==
    /\ bcast[w] # 0 /\ chain[w][bcast[w]] = "mined"
    /\ Transition(w, "processing", "completed", << <<w, "settled">> >>)

\* SettleWithdrawal by an operator who saw a transfer of this withdrawal mined.
OperatorSettle(w) ==
    /\ \E k \in Signed : chain[w][k] = "mined"
    /\ Transition(w, "processing", "completed", << <<w, "settled">> >>)

\* FailWithdrawal asks nothing of the broadcast rows or of the chain.
Fail(w) == Transition(w, "processing", "failed", << <<w, "failed">> >>)

Unpark(e) ==
    /\ st[e] = "parked" /\ e \notin compensated
    /\ st' = [st EXCEPT ![e] = "queued"]
    /\ attempts' = [attempts EXCEPT ![e] = 0]
    /\ UNCHANGED <<wstate, outbox, compensated, steps, tbVars, sendVars, swept, relayVars>>

-----------------------------------------------------------------------------
(***************************************************************************)
(* The environment: deposits and their sweep into the treasury, debits of  *)
(* other flows, and the chain's handling of what was submitted.            *)
(***************************************************************************)
Deposit(u, n) ==
    /\ Credited(u) < Sum(Networks, LAMBDA m : InitFunds[u][m]) + MaxDeposits * DepositAmount
    /\ funded' = [funded EXCEPT ![u][n] = @ + DepositAmount]
    /\ UNCHANGED <<wstate, rowVars, steps, xfer, spent, sendVars, swept, relayVars>>

\* One swept deposit address.
Sweep(n) ==
    LET arrived == Sum(Users, LAMBDA u : funded[u][n] - InitFunds[u][n])
    IN  /\ swept[n] < arrived
        /\ swept' = [swept EXCEPT ![n] = @ + DepositAmount]
        /\ UNCHANGED <<wstate, rowVars, steps, tbVars, sendVars, relayVars>>

\* A parked debit of another flow, unparked: unapplied_debits did not count it.
ForeignDebit(u) ==
    /\ spent[u] < MaxForeign /\ Available(u) >= 1
    /\ spent' = [spent EXCEPT ![u] = @ + 1]
    /\ UNCHANGED <<wstate, rowVars, steps, xfer, funded, sendVars, swept, relayVars>>

ChainStep(w, k, from, to) ==
    /\ chain[w][k] = from
    /\ chain' = [chain EXCEPT ![w][k] = to]
    /\ UNCHANGED <<wstate, rowVars, steps, tbVars, signs, bcast, swept, relayVars>>

Mine(w, k)   == Treasury(Rail[w]) >= Net(w) /\ ChainStep(w, k, "mempool", "mined")
Revert(w, k) ==
    /\ "reverted" \in Faults \/ Treasury(Rail[w]) < Net(w)
    /\ ChainStep(w, k, "mempool", "reverted")
Evict(w, k)  == "evicted" \in Faults /\ ChainStep(w, k, "mempool", "evicted")
Resurface(w, k) == ChainStep(w, k, "evicted", "mempool")

-----------------------------------------------------------------------------
(***************************************************************************)
(* The relay.                                                              *)
(***************************************************************************)
Goto(r, label) == at' = [at EXCEPT ![r] = label]

\* Leave the batch: the next pass fetches again.
Rest(r, label) ==
    /\ Goto(r, label)
    /\ cur' = [cur EXCEPT ![r] = NoEvent]
    /\ leg' = [leg EXCEPT ![r] = 1]
    /\ batch' = [batch EXCEPT ![r] = {}]

\* Slip: the legs counted for one row are carried over to the next.
NextRowKeepsLeg(r) ==
    /\ Goto(r, "ready")
    /\ cur' = [cur EXCEPT ![r] = NoEvent]
    /\ batch' = [batch EXCEPT ![r] = @ \ {cur[r]}]
    /\ UNCHANGED leg

\* Done with the row in hand; the batch goes on.
NextRow(r) ==
    /\ Goto(r, "ready")
    /\ cur' = [cur EXCEPT ![r] = NoEvent]
    /\ leg' = [leg EXCEPT ![r] = 1]
    /\ batch' = [batch EXCEPT ![r] = @ \ {cur[r]}]

\* attempts = attempts + 1.  The column has no cap; the model stops counting at
\* MaxAttempts, because all that is ever asked of it is attempts + 1 >= MaxAttempts.
Bump(e) == attempts' = [attempts EXCEPT ![e] = IF @ < MaxAttempts THEN @ + 1 ELSE @]

\* record_failure; when it fails itself, that is only logged.
Counted(e) == Bump(e) \/ ("stamp_lost" \in Faults /\ UNCHANGED attempts)

AcquireLock(r) ==
    /\ at[r] = "acquire" /\ lock = {}
    /\ lock' = {r}
    /\ Goto(r, "ready")
    /\ UNCHANGED <<wstate, rowVars, steps, tbVars, sendVars, swept, cur, leg, batch>>

NextBatch(r) ==
    /\ at[r] = "ready" /\ batch[r] = {}
    /\ \E e \in Events : st[e] = "queued"
    /\ batch' = [batch EXCEPT ![r] = {e \in Events : st[e] = "queued"}]
    /\ UNCHANGED <<wstate, rowVars, steps, tbVars, sendVars, swept, lock, at, cur, leg>>

\* e comes before f in the outbox.
Before(e, f) == \E i, j \in DOMAIN outbox : i < j /\ outbox[i] = e /\ outbox[j] = f

\* Probe the lock, then take the first row of the batch in hand.
TakeRow(r, e) ==
    /\ at[r] = "ready" /\ lock = {r}
    /\ e \in batch[r] /\ \A f \in batch[r] \ {e} : Before(e, f)
    /\ cur' = [cur EXCEPT ![r] = e]
    /\ Goto(r, IF e[2] \in {"requested", "cancelled"} THEN "leg" ELSE "check")
    /\ UNCHANGED <<wstate, rowVars, steps, tbVars, sendVars, swept, lock, leg, batch>>

LostLock(r) ==
    /\ at[r] = "ready" /\ lock # {r}
    /\ Rest(r, "acquire")
    /\ UNCHANGED <<wstate, rowVars, steps, tbVars, sendVars, swept, lock>>

\* Slips: a guard of dispatch() dropped.
AlwaysCovered(w)     == TRUE
BroadcastUnbacked(w) == wstate[w] = "processing"
VoidAnyway(w)        == TRUE

\* The Read-First guards dispatch() runs before any leg.
SettleCovered(w) == Created(w, "disburse") \/ WalletPosted(Rail[w]) >= Net(w)
MayBroadcast(w)  == <<w, "reserve">> \in steps /\ wstate[w] = "processing"
MayVoid(w)       == bcast[w] = 0

Check(r) ==
    LET w == cur[r][1]
        kind == cur[r][2]
    IN  /\ at[r] = "check"
        /\ Goto(r, CASE kind = "settled"    -> IF SettleCovered(w) THEN "leg" ELSE "park"
                     [] kind = "dispatched" -> IF MayBroadcast(w) THEN "custody" ELSE "park"
                     [] kind = "failed"     -> IF MayVoid(w) THEN "leg" ELSE "park")
        /\ UNCHANGED <<wstate, rowVars, steps, tbVars, sendVars, swept, lock, cur, leg, batch>>

\* The ledger takes the leg, or already has it.
LegTaken(r) ==
    LET w == cur[r][1]
        l == Plan(cur[r])[leg[r]]
    IN  /\ at[r] = "leg"
        /\ Answer(w, l) \in {"created", "exists"}
        /\ xfer' = IF Answer(w, l) = "created" THEN xfer \cup {<<w, l>>} ELSE xfer
        /\ Goto(r, "step")
        /\ UNCHANGED <<wstate, rowVars, steps, funded, spent, sendVars, swept, lock, cur, leg, batch>>

\* InsufficientFunds or Conflict: park, with the legs applied so far.
LegRefused(r) ==
    LET a == Answer(cur[r][1], Plan(cur[r])[leg[r]])
    IN  /\ at[r] = "leg"
        /\ a = "insufficient" \/ ("conflict" \in Faults /\ a # "exists")
        /\ Goto(r, "park")
        /\ UNCHANGED <<wstate, rowVars, steps, tbVars, sendVars, swept, lock, cur, leg, batch>>

\* Slip: retried for ever.
LegNotFoundForever(r) ==
    /\ at[r] = "leg"
    /\ Answer(cur[r][1], Plan(cur[r])[leg[r]]) = "not_found"
    /\ Rest(r, "ready") /\ Counted(cur[r])
    /\ UNCHANGED <<wstate, outbox, st, compensated, steps, tbVars, sendVars, swept, lock>>

\* The pending of a completion is not on the ledger: retried, but bounded.
LegNotFound(r) ==
    /\ at[r] = "leg"
    /\ Answer(cur[r][1], Plan(cur[r])[leg[r]]) = "not_found"
    /\ IF attempts[cur[r]] + 1 >= MaxAttempts
       THEN /\ Goto(r, "park")
            /\ leg' = [leg EXCEPT ![r] = 1]
            /\ UNCHANGED <<attempts, cur, batch>>
       ELSE Rest(r, "ready") /\ Counted(cur[r])
    /\ UNCHANGED <<wstate, outbox, st, compensated, steps, tbVars, sendVars, swept, lock>>

\* Slip: the loop stops one leg early.
RecordStepShort(r) ==
    /\ at[r] = "step"
    /\ steps' = steps \cup {<<cur[r][1], Plan(cur[r])[leg[r]]>>}
    /\ IF leg[r] + 1 < Len(Plan(cur[r]))
       THEN Goto(r, "leg") /\ leg' = [leg EXCEPT ![r] = @ + 1]
       ELSE Goto(r, "mark") /\ UNCHANGED leg
    /\ UNCHANGED <<wstate, rowVars, tbVars, sendVars, swept, lock, cur, batch>>

RecordStep(r) ==
    /\ at[r] = "step"
    /\ steps' = steps \cup {<<cur[r][1], Plan(cur[r])[leg[r]]>>}
    /\ IF leg[r] < Len(Plan(cur[r]))
       THEN Goto(r, "leg") /\ leg' = [leg EXCEPT ![r] = @ + 1]
       ELSE Goto(r, "mark") /\ UNCHANGED leg
    /\ UNCHANGED <<wstate, rowVars, tbVars, sendVars, swept, lock, cur, batch>>

\* A call that did not answer (or a read that failed): Outcome::Retry.
Unavailable(r) ==
    /\ "unavailable" \in Faults
    /\ at[r] \in {"check", "leg", "step", "custody", "store", "submit_fresh", "submit_again"}
    /\ Counted(cur[r])
    /\ Rest(r, "ready")
    /\ UNCHANGED <<wstate, outbox, st, compensated, steps, tbVars, sendVars, swept, lock>>

MarkDispatched(r) ==
    /\ at[r] = "mark"
    /\ st' = [st EXCEPT ![cur[r]] = "dispatched"]
    /\ NextRow(r)
    /\ UNCHANGED <<wstate, outbox, attempts, compensated, steps, tbVars, sendVars, swept, lock>>

\* The stamp failed and was only logged: the row stays queued, the batch goes on.
DispatchStampLost(r) ==
    /\ "stamp_lost" \in Faults /\ at[r] = "mark"
    /\ NextRow(r)
    /\ UNCHANGED <<wstate, rowVars, steps, tbVars, sendVars, swept, lock>>

Parked(e) == st' = [st EXCEPT ![e] = IF @ = "dispatched" THEN @ ELSE "parked"] /\ Bump(e)
Owed(r)   == compensated \cup (IF leg[r] > 1 THEN {cur[r]} ELSE {})

\* parked_at, then compensated_at when legs were applied before the refusal.
Park(r) ==
    /\ at[r] = "park"
    /\ Parked(cur[r])
    /\ compensated' = Owed(r)
    /\ NextRow(r)
    /\ UNCHANGED <<wstate, outbox, steps, tbVars, sendVars, swept, lock>>

\* Either stamp may fail on its own; both failures are only logged.
ParkStampLost(r) ==
    /\ "stamp_lost" \in Faults /\ at[r] = "park"
    /\ \/ UNCHANGED <<st, attempts>> /\ compensated' \in {compensated, Owed(r)}
       \/ Parked(cur[r]) /\ UNCHANGED compensated
    /\ NextRow(r)
    /\ UNCHANGED <<wstate, outbox, steps, tbVars, sendVars, swept, lock>>

-----------------------------------------------------------------------------
(***************************************************************************)
(* ChainCustody::broadcast, for the withdrawal of the row in hand.         *)
(***************************************************************************)

Forgotten(w) == {k \in Signed : chain[w][k] = "mined"}

\* A stored row is sent again; a mined transfer nobody owns is adopted; an
\* underfunded treasury parks; otherwise a transaction is signed.
Custody(r) ==
    LET w == cur[r][1]
    IN  /\ at[r] = "custody"
        /\ \/ bcast[w] # 0 /\ Goto(r, "submit_again") /\ UNCHANGED bcast
           \/ \E k \in Forgotten(w) :
                bcast[w] = 0 /\ bcast' = [bcast EXCEPT ![w] = k] /\ Goto(r, "mark")
           \/ /\ bcast[w] = 0 /\ Forgotten(w) = {}
              /\ Goto(r, IF Treasury(Rail[w]) >= Net(w) THEN "store" ELSE "park")
              /\ UNCHANGED bcast
        /\ UNCHANGED <<wstate, rowVars, steps, tbVars, signs, chain, swept, lock, cur, leg, batch>>

\* Sign and insert ON CONFLICT DO NOTHING, before anything is sent.
StoreTx(r) ==
    LET w == cur[r][1]
    IN  /\ at[r] = "store"
        /\ IF bcast[w] = 0
           THEN /\ signs[w] < MaxSigns
                /\ signs' = [signs EXCEPT ![w] = @ + 1]
                /\ bcast' = [bcast EXCEPT ![w] = signs[w] + 1]
                /\ Goto(r, "submit_fresh")
           ELSE Goto(r, "submit_again") /\ UNCHANGED <<signs, bcast>>
        /\ UNCHANGED <<wstate, rowVars, steps, tbVars, chain, swept, lock, cur, leg, batch>>

\* The treasury is short of gas or the signer refuses: park, nothing stored.
SendRefused(r) ==
    /\ "refused" \in Faults /\ at[r] = "store"
    /\ Goto(r, "park")
    /\ UNCHANGED <<wstate, rowVars, steps, tbVars, sendVars, swept, lock, cur, leg, batch>>

\* Bytes the node has not seen, or has dropped, enter the mempool.
Accepted(w, k) ==
    chain' = [chain EXCEPT ![w][k] = IF @ \in {"none", "evicted"} THEN "mempool" ELSE @]

\* The bytes this relay holds: the newest signature on a fresh send, the stored
\* row's on a re-send.
Sending(r) ==
    LET w == cur[r][1] IN IF at[r] = "submit_fresh" THEN signs[w] ELSE bcast[w]

Submit(r) ==
    /\ at[r] \in {"submit_fresh", "submit_again"} /\ Sending(r) # 0
    /\ Accepted(cur[r][1], Sending(r))
    /\ Goto(r, "mark")
    /\ UNCHANGED <<wstate, rowVars, steps, tbVars, signs, bcast, swept, lock, cur, leg, batch>>

\* The node took the bytes and its answer was lost.
SubmitUnanswered(r) ==
    /\ "unavailable" \in Faults
    /\ at[r] \in {"submit_fresh", "submit_again"} /\ Sending(r) # 0
    /\ Accepted(cur[r][1], Sending(r))
    /\ Counted(cur[r])
    /\ Rest(r, "ready")
    /\ UNCHANGED <<wstate, outbox, st, compensated, steps, tbVars, signs, bcast, swept, lock>>

\* Slip: a refused re-send frees its row too.
SubmitRejectedFrees(r) ==
    /\ "refused" \in Faults
    /\ at[r] \in {"submit_fresh", "submit_again"} /\ Sending(r) # 0
    /\ Goto(r, "discard")
    /\ UNCHANGED <<wstate, rowVars, steps, tbVars, sendVars, swept, lock, cur, leg, batch>>

\* A refused first send frees its row; a refused re-send keeps it.
SubmitRejected(r) ==
    /\ "refused" \in Faults
    /\ at[r] \in {"submit_fresh", "submit_again"} /\ Sending(r) # 0
    /\ Goto(r, IF at[r] = "submit_fresh" THEN "discard" ELSE "park")
    /\ UNCHANGED <<wstate, rowVars, steps, tbVars, sendVars, swept, lock, cur, leg, batch>>

DiscardTx(r) ==
    /\ at[r] = "discard"
    /\ \/ bcast' = [bcast EXCEPT ![cur[r][1]] = 0]
       \/ "unavailable" \in Faults /\ UNCHANGED bcast
    /\ Goto(r, "park")
    /\ UNCHANGED <<wstate, rowVars, steps, tbVars, signs, chain, swept, lock, cur, leg, batch>>

-----------------------------------------------------------------------------
\* The process stops, or its batch is cut off: the session and its lock go.
Crash(r) ==
    /\ "crash" \in Faults /\ at[r] # "acquire"
    /\ lock' = lock \ {r}
    /\ Rest(r, "acquire")
    /\ UNCHANGED <<wstate, rowVars, steps, tbVars, sendVars, swept>>

\* Postgres frees the lock of a dead backend; the holder finds out at a probe.
DropLock(r) ==
    /\ "lock_drop" \in Faults /\ lock = {r}
    /\ lock' = {}
    /\ UNCHANGED <<wstate, rowVars, steps, tbVars, sendVars, swept, at, cur, leg, batch>>

\* With the hub down, Postgres is restored to the moment before the last send
\* was stored; TigerBeetle and the chain keep what they have.  By then the send
\* is mined, unless "restore_pending" is among the faults.
RestoreOver == IF "restore_pending" \in Faults
               THEN {"none", "mempool", "evicted", "mined", "reverted"} ELSE {"mined"}

Restore(w) ==
    /\ "restore" \in Faults /\ bcast[w] # 0 /\ chain[w][bcast[w]] \in RestoreOver
    /\ \A r \in Relays : at[r] = "acquire"
    /\ outbox # <<>> /\ outbox[Len(outbox)] = <<w, "dispatched">>
    /\ bcast' = [bcast EXCEPT ![w] = 0]
    /\ st' = [st EXCEPT ![<<w, "dispatched">>] = "queued"]
    /\ attempts' = [attempts EXCEPT ![<<w, "dispatched">>] = 0]
    /\ UNCHANGED <<wstate, outbox, compensated, steps, tbVars, signs, chain, swept, relayVars>>

RelayStep(r) ==
    \/ AcquireLock(r) \/ NextBatch(r) \/ (\E e \in Events : TakeRow(r, e)) \/ LostLock(r)
    \/ Check(r) \/ LegTaken(r) \/ LegRefused(r) \/ LegNotFound(r) \/ RecordStep(r)
    \/ MarkDispatched(r) \/ Park(r) \/ Custody(r) \/ StoreTx(r) \/ Submit(r) \/ DiscardTx(r)

RelayFault(r) ==
    \/ Unavailable(r) \/ DispatchStampLost(r) \/ ParkStampLost(r) \/ SendRefused(r) \/ SubmitRejected(r)
    \/ SubmitUnanswered(r)
    \/ Crash(r) \/ DropLock(r)

Command(w) ==
    \/ OpenQueued(w) \/ OpenDispatched(w) \/ SweepDispatch(w) \/ OperatorDispatch(w)
    \/ Cancel(w) \/ WatcherSettle(w) \/ OperatorSettle(w) \/ Fail(w)

ChainMove(w, k) == Mine(w, k) \/ Revert(w, k) \/ Evict(w, k) \/ Resurface(w, k)

Next ==
    \/ \E r \in Relays : RelayStep(r) \/ RelayFault(r)
    \/ \E w \in Withdrawals : Command(w) \/ Restore(w)
    \/ \E e \in Events : Unpark(e)
    \/ \E u \in Users : ForeignDebit(u) \/ (\E n \in Networks : Deposit(u, n))
    \/ \E n \in Networks : Sweep(n)
    \/ \E w \in Withdrawals, k \in Signed : ChainMove(w, k)

Spec == Init /\ [][Next]_vars

\* The relay's loop and the watcher's poll never stop, and faults and operator
\* interventions do in the end.  (A retry of an unanswered call looks like the
\* retry of a completion whose pending is missing, which is no fault.)
Calm ==
    /\ \A r \in Relays : RelayFault(r) => RelayStep(r)
    /\ \A e \in Events : ~Unpark(e)
Fairness ==
    /\ <>[][Calm]_vars
    /\ \A r \in Relays : WF_vars(RelayStep(r))
    /\ \A w \in Withdrawals : WF_vars(WatcherSettle(w))
FairSpec == Spec /\ Fairness

-----------------------------------------------------------------------------
(***************************************************************************)
(* Properties.                                                             *)
(***************************************************************************)
Types ==
    /\ wstate \in [Withdrawals -> States]
    /\ outbox \in Seq(Events)
    /\ st \in [Events -> {"absent", "queued", "dispatched", "parked"}]
    /\ attempts \in [Events -> 0..MaxAttempts]
    /\ compensated \subseteq Events
    /\ steps \subseteq Withdrawals \X Legs
    /\ xfer \subseteq Withdrawals \X Legs
    /\ funded \in [Users -> [Networks -> Nat]]
    /\ spent \in [Users -> Nat]
    /\ signs \in [Withdrawals -> 0..MaxSigns]
    /\ bcast \in [Withdrawals -> 0..MaxSigns]
    /\ chain \in [Withdrawals -> [Signed -> {"none", "mempool", "evicted", "mined", "reverted"}]]
    /\ swept \in [Networks -> Nat]
    /\ lock \subseteq Relays
    /\ at \in [Relays -> Labels]
    /\ cur \in [Relays -> Events \cup {NoEvent}]
    /\ leg \in [Relays -> 1..3]
    /\ batch \in [Relays -> SUBSET Events]

\* Types of the rows, the ledger, the chain and the relays; a relay at a leg is at one of
\* the legs of the row in hand (dispatch() walks its legs anew for every row).
TypeOK ==
    /\ Types
    /\ \A r \in Relays : at[r] \in {"leg", "step"} => leg[r] \in DOMAIN Plan(cur[r])

Sent(w) == \E k \in Signed : chain[w][k] # "none"
Paid(w) == \E k \in Signed : chain[w][k] = "mined"
Live(w) == {k \in Signed : chain[w][k] \in {"mempool", "evicted", "mined"}}
LegsOf(e) == {<<e[1], Plan(e)[i]>> : i \in DOMAIN Plan(e)}

\* A transaction the chain may have seen is backed by a reservation that is
\* placed and not voided: the broadcast and void guards of the relay's dispatch()
\* hold against a concurrent FailWithdrawal, retries and re-drives.
SendBacked ==
    \A w \in Withdrawals : Sent(w) => Created(w, "reserve") /\ ~Voided(w)

\* At most one of a withdrawal's signed transactions can ever pay: store_tx
\* before submit, re-send of the stored bytes, discard only of refused bytes.
AtMostOnePayout == \A w \in Withdrawals : \A j, k \in Live(w) : j = k

\* The reservation is posted (the claim debited for good) only for a withdrawal
\* whose transfer landed: the watcher's and the operator's settle, relayed later.
SettledOnlyPaid == \A w \in Withdrawals : Created(w, "settle") => Paid(w)

\* A row stamped dispatched_at has its whole effect in place: every leg on the
\* ledger and in saga_steps and, for a broadcast, a stored transaction sent.
DispatchedMeansApplied ==
    \A e \in Events : st[e] = "dispatched" =>
        /\ LegsOf(e) \subseteq xfer
        /\ LegsOf(e) \subseteq steps
        /\ e[2] = "dispatched" => bcast[e[1]] # 0 /\ Sent(e[1])

\* No row is ever parked as half-applied (compensated_at): the liquidity
\* pre-check parks a settle before its first leg, whatever is redelivered.
NeverHalfApplied == compensated = {}

\* Once every settle on the ledger is a dispatched row, the withdrawal-clearing
\* account is empty: gross in, net to the wallet and fee to revenue out.
ClearingDrained ==
    (\A w \in Withdrawals : Created(w, "settle") => st[<<w, "settled">>] = "dispatched")
        => ClearingPosted = 0

\* Two spends of one claim never both pass: with the spend guard counting what
\* is recorded and not yet applied, the relay never finds a reserve uncovered.
ReserveNeverParks == \A w \in Withdrawals : st[<<w, "requested">>] # "parked"

\* Every outbox row is eventually dispatched or parked: no row, retry or lost
\* pending blocks the relay's single-file drain for ever.
QueueDrains == \A e \in Events : st[e] = "queued" ~> st[e] # "queued"

\* A transfer that landed while its withdrawal was processing is eventually
\* debited on the ledger, or an operator sees why not: its settle is parked, or
\* the withdrawal was failed by hand.
PaidIsAccounted ==
    \A w \in Withdrawals :
        Paid(w) /\ wstate[w] = "processing" ~>
            \/ LegsOf(<<w, "settled">>) \subseteq xfer
            \/ st[<<w, "settled">>] = "parked"
            \/ wstate[w] = "failed"

\* PATTERNS.md's claim about a short rail: the parked settle applied nothing.
ParkedMeansUntouched ==
    \A e \in Events : st[e] = "parked" => LegsOf(e) \cap xfer = {}

-----------------------------------------------------------------------------
(***************************************************************************)
(* The saga implements PayoutContract: TigerBeetle's transfers say what    *)
(* became of the gross, the chain says what was sent and what landed.      *)
(***************************************************************************)
MoneyOf(w) ==
    IF Voided(w) THEN "refunded"
    ELSE IF Created(w, "settle") THEN "debited"
    ELSE IF Created(w, "reserve") THEN "held" ELSE "free"

Contract == INSTANCE PayoutContract WITH
    money <- [w \in Withdrawals |-> MoneyOf(w)],
    sent  <- {w \in Withdrawals : Sent(w)},
    paid  <- {w \in Withdrawals : Paid(w)}

\* The saga, with every fault and re-drive, implements the contract.
ImplementsContract == Contract!Spec
=============================================================================
