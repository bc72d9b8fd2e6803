---------------------------- MODULE ScopePostings ----------------------------
(***************************************************************************)
(* The one-leg postings of the money hub: compartment moves, scope         *)
(* transfers (a fee sweep and banking's route of it among them), payouts,  *)
(* charges and invoice payments.  A request is admitted under its source's *)
(* claim lock and recorded with its outbox event in one transaction; the   *)
(* relay posts the leg, records the money event and stamps the row; the    *)
(* reaper re-enqueues what an older relay dispatched without posting.      *)
(*                                                                         *)
(* A posting's kinds differ in their tables, not in their discipline, so   *)
(* one row variable stands for the five tables.  An attempt <<p, v>> names *)
(* a leg: v is the invoice version an event carries, and 1 for every other *)
(* kind.  One relay step is one external call.                             *)
(***************************************************************************)
EXTENDS Integers, Sequences, FiniteSets, FiniteSetsExt

CONSTANTS
    Postings,       \* ids of moves, transfers, payouts, charges and invoices
    Kind,           \* Kind[p]
    RouteOf,        \* RouteOf[s]: the route of fee sweep s
    Accounts,       \* ledger accounts
    From, To,       \* From[p], To[p]: the accounts debited and credited
    Amount,         \* Amount[p]
    InitBalance,    \* InitBalance[a]
    InitOpen,       \* route destinations that exist from the start
    MaxVersion,     \* bound: an invoice's version
    MaxEvents,      \* bound: outbox length past which no old build dispatches
    MaxDeposits, MaxForeign, \* bounds: units other flows credit and debit an account
    MaxTries,       \* MAX_RETRYABLE_ATTEMPTS, for an unrecordable money event
    Relays, Reapers, Faults,
    NoPosting

Sweeps   == {p \in Postings : Kind[p] = "sweep"}
Routes   == {p \in Postings : Kind[p] = "route"}
Invoices == {p \in Postings : Kind[p] = "invoice"}
Charges  == {p \in Postings : Kind[p] = "charge"}
Attempts == Postings \X (1..MaxVersion)

ASSUME PostingAssumption ==
    /\ IsFiniteSet(Postings)
    /\ Kind \in [Postings -> {"move", "transfer", "sweep", "route", "payout", "charge", "invoice"}]
    /\ RouteOf \in [Sweeps -> Routes]
    /\ \A s, t \in Sweeps : RouteOf[s] = RouteOf[t] => s = t
    /\ From \in [Postings -> Accounts] /\ To \in [Postings -> Accounts]
    /\ Amount \in [Postings -> Nat \ {0}]
    /\ NoPosting \notin Postings
\* A sweep pays its scope's fee collector, the route takes the same amount out
\* of it, and nothing but routes debits a collector (ScopeTransfer::restore).
ASSUME CollectorAssumption ==
    /\ \A s \in Sweeps : From[RouteOf[s]] = To[s] /\ Amount[RouteOf[s]] = Amount[s]
    /\ \A p \in Postings \ Routes : \A q \in Routes : From[p] # From[q]
ASSUME LedgerAssumption == InitBalance \in [Accounts -> Nat] /\ InitOpen \subseteq Accounts
ASSUME PostingBounds ==
    /\ MaxVersion \in Nat \ {0} /\ MaxEvents \in Nat
    /\ MaxDeposits \in [Accounts -> Nat] /\ MaxForeign \in [Accounts -> Nat]
    /\ MaxTries \in Nat \ {0}
    /\ Invoices # {} => MaxVersion > 1
    /\ Faults \subseteq {"unavailable", "stamp_lost", "conflict", "unrecordable", "route_lost",
                        "old_build", "rollback", "crash", "lock_drop"}

VARIABLES
    row,          \* a posting's state column; "missing" is failed for destination_missing
    ver,          \* the version column of an invoice, 1 for the other kinds
    late,         \* past the charge window, or past the invoice's expiry
    claim,        \* the claim lock of an account and what its holder has read
    outbox,       \* the attempts enqueued, in seq order
    dispatched, parked,  \* outbox rows stamped dispatched_at, parked_at
    tries,        \* money_event_attempts of a row
    steps,        \* saga_steps: <<outbox row, attempt>>
    ledger,       \* TigerBeetle: the attempts posted, in order
    refused,      \* TigerBeetle: the attempts refused for want of funds, their ids used up
    deposited, foreign,  \* TigerBeetle: units other flows credited, debited
    money,        \* attempts whose money events are recorded
    opened,       \* accounts that exist as a route's destination
    lock, at, cur, batch,  \* relays: lock holders, label, row in hand, rows fetched
    scan          \* reapers: postings found stale

apiVars   == <<row, ver, late, claim, opened>>
rowVars   == <<outbox, dispatched, parked, tries>>
tbVars    == <<ledger, refused, deposited, foreign>>
relayVars == <<lock, at, cur, batch>>
vars == <<apiVars, rowVars, steps, tbVars, money, relayVars, scan>>

Labels == {"acquire", "ready", "state", "applied", "window", "leg", "step", "event",
           "posted", "failed", "mark", "park", "park_row", "park_unrecorded"}
Free == [stage |-> "free", for |-> NoPosting, counted |-> {}]

-----------------------------------------------------------------------------
(***************************************************************************)
(* The ledger and the rows.                                                *)
(***************************************************************************)
Total(S) == MapThenSumSet(LAMBDA p : Amount[p], S)
Moved(side, a) == MapThenSumSet(LAMBDA i : Amount[ledger[i][1]], {i \in DOMAIN ledger : side[ledger[i][1]] = a})

OnLedger(t) == \E i \in DOMAIN ledger : ledger[i] = t

\* The available balance of an account.
Balance(a) ==
    InitBalance[a] + deposited[a] - foreign[a]
      + Moved(To, a) - Moved(From, a)

\* What TigerBeetle answers the one leg of an attempt.  An id that failed for
\* want of funds answers id_already_failed from then on, whatever the balance.
Answer(t) ==
    IF OnLedger(t) THEN "exists"
    ELSE IF t \in refused THEN "already_failed"
    ELSE IF Balance(From[t[1]]) >= Amount[t[1]] THEN "created" ELSE "insufficient"

\* Slips: the row is not asked whether its intent was refused; an invoice's
\* event is not matched with the attempt the row waits for.
RowStateUnchecked(t) ==
    IF row[t[1]] = "posted" /\ ver[t[1]] = t[2] THEN "posted" ELSE "pending"
RowStateUnversioned(t) ==
    IF row[t[1]] = "pending" THEN "pending"
    ELSE IF row[t[1]] = "posted" THEN "posted" ELSE "failed"

\* move_state, transfer_state, payout_state, charge_state and payment_state.
RowState(t) ==
    IF row[t[1]] = "pending" /\ ver[t[1]] = t[2] THEN "pending"
    ELSE IF row[t[1]] = "posted" /\ ver[t[1]] = t[2] THEN "posted" ELSE "failed"

\* Slip: pending debits are counted from the outbox, as other flows' are.
UnappliedQueued(a) ==
    {p \in Postings : /\ From[p] = a /\ row[p] = "pending"
                      /\ \E i \in DOMAIN outbox \ (dispatched \cup parked) : outbox[i][1] = p}

\* Debits of an account recorded and not stamped yet, from the rows themselves.
Unapplied(a) == {p \in Postings : From[p] = a /\ row[p] = "pending"}

-----------------------------------------------------------------------------
Init ==
    /\ row = [p \in Postings |-> "none"]
    /\ ver = [p \in Postings |-> 1]
    /\ late = {}
    /\ claim = [a \in Accounts |-> Free]
    /\ outbox = <<>> /\ dispatched = {} /\ parked = {} /\ tries = <<>>
    /\ steps = {} /\ ledger = <<>> /\ refused = {} /\ money = {}
    /\ deposited = [a \in Accounts |-> 0] /\ foreign = [a \in Accounts |-> 0]
    /\ opened = InitOpen
    /\ lock = {}
    /\ at = [r \in Relays |-> "acquire"]
    /\ cur = [r \in Relays |-> 0]
    /\ batch = [r \in Relays |-> {}]
    /\ scan = [x \in Reapers |-> {}]

-----------------------------------------------------------------------------
(***************************************************************************)
(* Requests.  The claim lock is held from the read of the unapplied debits *)
(* to the commit or the rollback.                                          *)
(***************************************************************************)
Enqueue(t) == outbox' = Append(outbox, t) /\ tries' = Append(tries, 0)

\* What a request may ask for: a new row, or the payment of an open invoice
\* (whose row it locks first).  A sweep waits for its route's destination,
\* unless a build without that check recorded it.
Requestable(p) ==
    \/ Kind[p] \in {"move", "transfer", "payout", "charge"} /\ row[p] = "none"
    \/ /\ Kind[p] = "sweep" /\ row[p] = "none"
       /\ To[RouteOf[p]] \in opened \/ "old_build" \in Faults
    \/ Kind[p] = "invoice" /\ row[p] = "open" /\ p \notin late /\ ver[p] + 2 < MaxVersion

LockClaim(p) ==
    /\ Requestable(p) /\ claim[From[p]].stage = "free"
    /\ claim' = [claim EXCEPT ![From[p]] =
                    [stage |-> "locked", for |-> p, counted |-> Unapplied(From[p])]]
    /\ UNCHANGED <<row, ver, late, opened, rowVars, steps, tbVars, money, relayVars, scan>>

\* The ledger is read second.  A refusal rolls the transaction back.
ReadLedger(a) ==
    /\ claim[a].stage = "locked"
    /\ claim' = [claim EXCEPT ![a] =
                    IF Balance(a) - Total(@.counted) >= Amount[@.for]
                    THEN [@ EXCEPT !.stage = "admitted"] ELSE Free]
    /\ UNCHANGED <<row, ver, late, opened, rowVars, steps, tbVars, money, relayVars, scan>>

\* The row and its event commit together; a payment takes the next version.
Record(a) ==
    LET p == claim[a].for
        v == IF p \in Invoices THEN ver[p] + 1 ELSE ver[p]
    IN  /\ claim[a].stage = "admitted"
        /\ row' = [row EXCEPT ![p] = "pending"]
        /\ ver' = [ver EXCEPT ![p] = v]
        /\ Enqueue(<<p, v>>)
        /\ claim' = [claim EXCEPT ![a] = Free]
        /\ UNCHANGED <<late, opened, dispatched, parked, steps, tbVars, money, relayVars, scan>>

Rollback(a) ==
    /\ "rollback" \in Faults /\ claim[a].stage # "free"
    /\ claim' = [claim EXCEPT ![a] = Free]
    /\ UNCHANGED <<row, ver, late, opened, rowVars, steps, tbVars, money, relayVars, scan>>

\* A payment in progress holds the invoice's row.
InvoiceStep(p, from, to, v) ==
    /\ row[p] = from /\ claim[From[p]].for # p
    /\ row' = [row EXCEPT ![p] = to]
    /\ ver' = [ver EXCEPT ![p] = v]
    /\ UNCHANGED <<late, claim, opened, rowVars, steps, tbVars, money, relayVars, scan>>

IssueInvoice(p)  == InvoiceStep(p, "none", "open", 1)
CancelInvoice(p) == p \notin late /\ InvoiceStep(p, "open", "cancelled", ver[p] + 1)
ExpireInvoice(p) == p \in late /\ InvoiceStep(p, "open", "expired", ver[p] + 1)

\* The clock passes a charge's posting window or an invoice's expiry.
PassDeadline(p) ==
    /\ p \in Charges \cup Invoices /\ p \notin late /\ row[p] # "none"
    /\ late' = late \cup {p}
    /\ UNCHANGED <<row, ver, claim, opened, rowVars, steps, tbVars, money, relayVars, scan>>

\* open_account, for the destination of a fee route.
OpenAccount(a) ==
    /\ a \notin opened
    /\ opened' = opened \cup {a}
    /\ UNCHANGED <<row, ver, late, claim, rowVars, steps, tbVars, money, relayVars, scan>>

Deposit(a) ==
    /\ deposited[a] < MaxDeposits[a]
    /\ deposited' = [deposited EXCEPT ![a] = @ + 1]
    /\ UNCHANGED <<apiVars, rowVars, steps, ledger, refused, foreign, money, relayVars, scan>>

\* A parked debit of another flow, unparked: parked, it was not counted unapplied.
ForeignDebit(a) ==
    /\ foreign[a] < MaxForeign[a] /\ Balance(a) > 0
    /\ foreign' = [foreign EXCEPT ![a] = @ + 1]
    /\ UNCHANGED <<apiVars, rowVars, steps, ledger, refused, deposited, money, relayVars, scan>>

Unpark(i) ==
    /\ i \in parked /\ i \notin dispatched
    /\ parked' = parked \ {i}
    /\ tries' = [tries EXCEPT ![i] = 0]
    /\ UNCHANGED <<apiVars, outbox, dispatched, steps, tbVars, money, relayVars, scan>>

-----------------------------------------------------------------------------
(***************************************************************************)
(* The stamps on a row.                                                    *)
(***************************************************************************)
MarkFailed(t) ==
    LET p == t[1]
    IN  IF RowState(t) # "pending" THEN UNCHANGED <<row, ver>>
        ELSE IF p \in Invoices     \* fail_payment: open again
        THEN row' = [row EXCEPT ![p] = "open"] /\ ver' = [ver EXCEPT ![p] = @ + 1]
        ELSE row' = [row EXCEPT ![p] = "failed"] /\ UNCHANGED ver

\* The state a route is recorded in.
RouteState(s) == IF To[RouteOf[s]] \in opened THEN "pending" ELSE "missing"

\* route_swept_fee: unique per sweep, on the outbox only when it can be made.
RouteSwept(s, rows) ==
    IF row[RouteOf[s]] # "none" THEN row' = rows /\ UNCHANGED <<outbox, tries>>
    ELSE /\ row' = [rows EXCEPT ![RouteOf[s]] = RouteState(s)]
         /\ IF RouteState(s) = "pending" THEN Enqueue(<<RouteOf[s], 1>>)
            ELSE UNCHANGED <<outbox, tries>>

MarkPosted(t) ==
    LET p == t[1]
        rows == [row EXCEPT ![p] = "posted"]
    IN  IF RowState(t) # "pending" THEN UNCHANGED <<row, outbox, tries>>
        ELSE IF p \in Sweeps THEN RouteSwept(p, rows)
        ELSE row' = rows /\ UNCHANGED <<outbox, tries>>

-----------------------------------------------------------------------------
(***************************************************************************)
(* The relay.                                                              *)
(***************************************************************************)
Attempt(r) == outbox[cur[r]]
Goto(r, label) == at' = [at EXCEPT ![r] = label]

Rest(r, label) ==
    /\ Goto(r, label)
    /\ cur' = [cur EXCEPT ![r] = 0]
    /\ batch' = [batch EXCEPT ![r] = {}]

NextRow(r) ==
    /\ Goto(r, "ready")
    /\ cur' = [cur EXCEPT ![r] = 0]
    /\ batch' = [batch EXCEPT ![r] = @ \ {cur[r]}]

\* A step that only moves the relay on, and one that retries the row later.
Jump(r, label) ==
    /\ Goto(r, label)
    /\ UNCHANGED <<apiVars, rowVars, steps, tbVars, money, lock, cur, batch, scan>>
Retry(r) ==
    /\ Rest(r, "ready")
    /\ UNCHANGED <<apiVars, rowVars, steps, tbVars, money, lock, scan>>

AcquireLock(r) ==
    /\ at[r] = "acquire" /\ lock = {}
    /\ lock' = {r} /\ Goto(r, "ready")
    /\ UNCHANGED <<apiVars, rowVars, steps, tbVars, money, cur, batch, scan>>

Queued == DOMAIN outbox \ (dispatched \cup parked)

NextBatch(r) ==
    /\ at[r] = "ready" /\ batch[r] = {} /\ Queued # {}
    /\ batch' = [batch EXCEPT ![r] = Queued]
    /\ UNCHANGED <<apiVars, rowVars, steps, tbVars, money, lock, at, cur, scan>>

\* Probe the lock, then take the first row of the batch in hand.
TakeRow(r, i) ==
    /\ at[r] = "ready" /\ lock = {r}
    /\ i \in batch[r] /\ \A j \in batch[r] : i <= j
    /\ cur' = [cur EXCEPT ![r] = i]
    /\ Goto(r, "state")
    /\ UNCHANGED <<apiVars, rowVars, steps, tbVars, money, lock, batch, scan>>

LostLock(r) ==
    /\ at[r] = "ready" /\ lock # {r}
    /\ Rest(r, "acquire")
    /\ UNCHANGED <<apiVars, rowVars, steps, tbVars, money, lock, scan>>

\* Only a pending row may reach the ledger.
ReadState(r) ==
    /\ at[r] = "state"
    /\ Jump(r, IF RowState(Attempt(r)) = "pending" THEN "applied" ELSE "mark")

\* Slip: the ledger is not asked whether the leg is already there.
AppliedCheckSkipped(r) ==
    /\ at[r] = "applied"
    /\ Jump(r, IF Attempt(r)[1] \in Charges THEN "window" ELSE "leg")

\* A leg posted by an earlier delivery only owes its event and its stamp.
AppliedCheck(r) ==
    /\ at[r] = "applied"
    /\ Jump(r, IF OnLedger(Attempt(r)) THEN "event"
               ELSE IF Attempt(r)[1] \in Charges THEN "window" ELSE "leg")

\* A charge that waited past its window is refused, not carried out.
WindowCheck(r) ==
    /\ at[r] = "window"
    /\ Jump(r, IF Attempt(r)[1] \in late THEN "failed" ELSE "leg")

Post(t) ==
    /\ ledger' = IF Answer(t) = "created" THEN Append(ledger, t) ELSE ledger
    /\ refused' = IF Answer(t) = "insufficient" THEN refused \cup {t} ELSE refused

LegTaken(r) ==
    /\ at[r] = "leg" /\ Answer(Attempt(r)) \in {"created", "exists"}
    /\ Post(Attempt(r))
    /\ Goto(r, "step")
    /\ UNCHANGED <<apiVars, rowVars, steps, deposited, foreign, money, lock, cur, batch, scan>>

\* InsufficientFunds is the posting's own outcome; any other status (an id used
\* up by an earlier refusal) is a conflict, which parks the event.
LegRefused(r) ==
    /\ at[r] = "leg"
    /\ \/ /\ Answer(Attempt(r)) = "insufficient"
          /\ Post(Attempt(r)) /\ Goto(r, "failed")
       \/ /\ \/ Answer(Attempt(r)) = "already_failed"
             \/ "conflict" \in Faults /\ Answer(Attempt(r)) # "exists"
          /\ Goto(r, "park") /\ UNCHANGED <<ledger, refused>>
    /\ UNCHANGED <<apiVars, rowVars, steps, deposited, foreign, money, lock, cur, batch, scan>>

\* tb_transfer_id is unique: another event's step of this leg fails the insert.
Collides(r) == \E i \in DOMAIN outbox : i # cur[r] /\ <<i, Attempt(r)>> \in steps

\* Slip: the row is stamped before its money event is written.
RecordStepUnannounced(r) ==
    /\ at[r] = "step"
    /\ IF Collides(r) THEN Retry(r)
       ELSE /\ steps' = steps \cup {<<cur[r], Attempt(r)>>}
            /\ Goto(r, "posted")
            /\ UNCHANGED <<apiVars, rowVars, tbVars, money, lock, cur, batch, scan>>

RecordStep(r) ==
    /\ at[r] = "step"
    /\ IF Collides(r) THEN Retry(r)
       ELSE /\ steps' = steps \cup {<<cur[r], Attempt(r)>>}
            /\ Goto(r, "event")
            /\ UNCHANGED <<apiVars, rowVars, tbVars, money, lock, cur, batch, scan>>

\* record_relayed: a compartment move has no money event.
Announced(t) == Kind[t[1]] # "move"

RecordEvent(r) ==
    /\ at[r] = "event"
    /\ money' = IF Announced(Attempt(r)) THEN money \cup {Attempt(r)} ELSE money
    /\ Goto(r, "posted")
    /\ UNCHANGED <<apiVars, rowVars, steps, tbVars, lock, cur, batch, scan>>

\* An event that cannot be written is tried a bounded number of times.
\* (UnrecordableForever: the row is tried again for ever.)
UnrecordableForever(r) ==
    /\ "unrecordable" \in Faults
    /\ at[r] = "event" /\ Announced(Attempt(r))
    /\ tries' = [tries EXCEPT ![cur[r]] = @ + 1]
    /\ Rest(r, "ready")
    /\ UNCHANGED <<apiVars, outbox, dispatched, parked, steps, tbVars, money, lock, scan>>

EventUnrecordable(r) ==
    /\ "unrecordable" \in Faults
    /\ at[r] = "event" /\ Announced(Attempt(r))
    /\ tries' = [tries EXCEPT ![cur[r]] = IF @ < MaxTries THEN @ + 1 ELSE @]
    /\ IF tries[cur[r]] + 1 >= MaxTries
       THEN Goto(r, "park_unrecorded") /\ UNCHANGED <<cur, batch>>
       ELSE Rest(r, "ready")
    /\ UNCHANGED <<apiVars, outbox, dispatched, parked, steps, tbVars, money, lock, scan>>

StampPosted(r) ==
    /\ at[r] = "posted"
    /\ MarkPosted(Attempt(r))
    /\ Goto(r, "mark")
    /\ UNCHANGED <<ver, late, claim, opened, dispatched, parked, steps, tbVars, money, lock, cur,
                   batch, scan>>

\* The route could not be made: its savepoint is rolled back, the stamp stands.
StampPostedUnrouted(r) ==
    /\ "route_lost" \in Faults /\ at[r] = "posted"
    /\ Attempt(r)[1] \in Sweeps /\ RowState(Attempt(r)) = "pending"
    /\ row' = [row EXCEPT ![Attempt(r)[1]] = "posted"]
    /\ Goto(r, "mark")
    /\ UNCHANGED <<ver, late, claim, opened, rowVars, steps, tbVars, money, lock, cur, batch, scan>>

StampFailed(r) ==
    /\ at[r] = "failed"
    /\ MarkFailed(Attempt(r))
    /\ Goto(r, "mark")
    /\ UNCHANGED <<late, claim, opened, rowVars, steps, tbVars, money, lock, cur, batch, scan>>

MarkDispatched(r) ==
    /\ at[r] = "mark"
    /\ dispatched' = dispatched \cup {cur[r]}
    /\ NextRow(r)
    /\ UNCHANGED <<apiVars, outbox, parked, tries, steps, tbVars, money, lock, scan>>

Park(r) ==
    /\ at[r] = "park"
    /\ parked' = parked \cup {cur[r]}
    /\ Goto(r, "park_row")
    /\ UNCHANGED <<apiVars, outbox, dispatched, tries, steps, tbVars, money, lock, cur, batch, scan>>

\* The parked posting is a refused one.
ParkRow(r) ==
    /\ at[r] = "park_row"
    /\ MarkFailed(Attempt(r))
    /\ NextRow(r)
    /\ UNCHANGED <<late, claim, opened, rowVars, steps, tbVars, money, lock, scan>>

\* Applied, only its money event is missing: the row stays pending.
ParkUnrecorded(r) ==
    /\ at[r] = "park_unrecorded"
    /\ parked' = parked \cup {cur[r]}
    /\ NextRow(r)
    /\ UNCHANGED <<apiVars, outbox, dispatched, tries, steps, tbVars, money, lock, scan>>

-----------------------------------------------------------------------------
(***************************************************************************)
(* Faults of the relay.                                                    *)
(***************************************************************************)
\* A call that did not answer, or was not made: Outcome::Retry.
Unavailable(r) ==
    /\ "unavailable" \in Faults
    /\ at[r] \in {"state", "applied", "window", "leg", "step", "event", "posted", "failed"}
    /\ Retry(r)

\* TigerBeetle took the leg and its answer was lost.
LegUnanswered(r) ==
    /\ "unavailable" \in Faults /\ at[r] = "leg"
    /\ Post(Attempt(r))
    /\ Rest(r, "ready")
    /\ UNCHANGED <<apiVars, rowVars, steps, deposited, foreign, money, lock, scan>>

\* A stamp of the drain loop failed and was only logged.
StampLost(r) ==
    /\ "stamp_lost" \in Faults
    /\ \/ at[r] \in {"mark", "park_row", "park_unrecorded"} /\ NextRow(r)
       \/ at[r] = "park" /\ Goto(r, "park_row") /\ UNCHANGED <<cur, batch>>
    /\ UNCHANGED <<apiVars, rowVars, steps, tbVars, money, lock, scan>>

\* A build that does not know the event's kind plans no leg for it.
OldDispatch(r) ==
    /\ "old_build" \in Faults /\ at[r] = "state" /\ Len(outbox) < MaxEvents
    /\ Jump(r, "mark")

Crash(r) ==
    /\ "crash" \in Faults /\ at[r] # "acquire"
    /\ lock' = lock \ {r}
    /\ Rest(r, "acquire")
    /\ UNCHANGED <<apiVars, rowVars, steps, tbVars, money, scan>>

DropLock(r) ==
    /\ "lock_drop" \in Faults /\ lock = {r}
    /\ lock' = {}
    /\ UNCHANGED <<apiVars, rowVars, steps, tbVars, money, at, cur, batch, scan>>

-----------------------------------------------------------------------------
(***************************************************************************)
(* The reaper.  Its scan and each replay are transactions of their own.    *)
(***************************************************************************)
\* Slip: a dispatched event counts as one that is still waiting.
StaleNever == {p \in Postings : row[p] = "pending" /\ \A i \in DOMAIN outbox : outbox[i][1] # p}

\* Pending, and no undispatched event of it (a parked one is undispatched).
Stale ==
    {p \in Postings : /\ row[p] = "pending"
                      /\ \A i \in DOMAIN outbox \ dispatched : outbox[i][1] # p}

Scan(x) ==
    /\ scan[x] = {} /\ Stale # {}
    /\ scan' = [scan EXCEPT ![x] = Stale]
    /\ UNCHANGED <<apiVars, rowVars, steps, tbVars, money, relayVars>>

Redrive(x, p) ==
    /\ p \in scan[x]
    /\ scan' = [scan EXCEPT ![x] = @ \ {p}]
    /\ IF row[p] = "pending" THEN Enqueue(<<p, ver[p]>>) ELSE UNCHANGED <<outbox, tries>>
    /\ UNCHANGED <<apiVars, dispatched, parked, steps, tbVars, money, relayVars>>

\* redrive_fee_routes: a posted sweep without a route gets one.
RouteUnrouted(s) ==
    /\ row[s] = "posted" /\ row[RouteOf[s]] = "none"
    /\ RouteSwept(s, row)
    /\ UNCHANGED <<ver, late, claim, opened, dispatched, parked, steps, tbVars, money, relayVars, scan>>

\* Slip: only a route the ledger refused is taken up again.
ReviveRefused(q) ==
    /\ row[q] = "failed" /\ To[q] \in opened
    /\ row' = [row EXCEPT ![q] = "pending"]
    /\ Enqueue(<<q, 1>>)
    /\ UNCHANGED <<ver, late, claim, opened, dispatched, parked, steps, tbVars, money, relayVars, scan>>

\* revive_route: the destination exists now.
ReviveRoute(q) ==
    /\ row[q] = "missing" /\ To[q] \in opened
    /\ row' = [row EXCEPT ![q] = "pending"]
    /\ Enqueue(<<q, 1>>)
    /\ UNCHANGED <<ver, late, claim, opened, dispatched, parked, steps, tbVars, money, relayVars, scan>>

-----------------------------------------------------------------------------
Request ==
    \/ \E p \in Postings : LockClaim(p) \/ PassDeadline(p)
    \/ \E a \in Accounts : ReadLedger(a) \/ Record(a) \/ Rollback(a)
    \/ \E p \in Invoices : IssueInvoice(p) \/ CancelInvoice(p) \/ ExpireInvoice(p)

Environment ==
    \/ \E q \in Routes : OpenAccount(To[q])
    \/ \E a \in Accounts : Deposit(a) \/ ForeignDebit(a)

RelayStep(r) ==
    \/ AcquireLock(r) \/ NextBatch(r) \/ (\E i \in batch[r] : TakeRow(r, i)) \/ LostLock(r)
    \/ ReadState(r) \/ AppliedCheck(r) \/ WindowCheck(r) \/ LegTaken(r) \/ LegRefused(r)
    \/ RecordStep(r) \/ RecordEvent(r) \/ StampPosted(r) \/ StampFailed(r)
    \/ MarkDispatched(r) \/ Park(r) \/ ParkRow(r) \/ ParkUnrecorded(r)

RelayFault(r) ==
    \/ Unavailable(r) \/ LegUnanswered(r) \/ StampLost(r) \/ OldDispatch(r)
    \/ EventUnrecordable(r) \/ StampPostedUnrouted(r) \/ Crash(r) \/ DropLock(r)

ReaperStep(x) == Scan(x) \/ (\E p \in Postings : Redrive(x, p))
RouteRepair ==
    (\E s \in Sweeps : RouteUnrouted(s)) \/ (\E q \in Routes : ReviveRoute(q))

Next ==
    \/ Request \/ Environment \/ RouteRepair
    \/ \E r \in Relays : RelayStep(r) \/ RelayFault(r)
    \/ \E x \in Reapers : ReaperStep(x)
    \/ \E i \in parked : Unpark(i)

Spec == Init /\ [][Next]_vars

\* The relay's and the reaper's loops never stop; faults and unparks end.
Calm ==
    /\ \A r \in Relays : RelayFault(r) => RelayStep(r)
    /\ \A i \in parked : ~Unpark(i)
Fairness ==
    /\ <>[][Calm]_vars
    /\ \A r \in Relays : WF_vars(RelayStep(r))
    /\ \A x \in Reapers : WF_vars(ReaperStep(x))
    /\ \A s \in Sweeps : WF_vars(RouteUnrouted(s)) /\ WF_vars(ReviveRoute(RouteOf[s]))
FairSpec == Spec /\ Fairness

-----------------------------------------------------------------------------
(***************************************************************************)
(* Properties.                                                             *)
(***************************************************************************)
\* Types of the rows, the outbox, the ledger, the relays and the reapers.
TypeOK ==
    /\ row \in [Postings -> {"none", "open", "pending", "posted", "failed", "missing",
                             "cancelled", "expired"}]
    /\ ver \in [Postings -> 1..MaxVersion]
    /\ late \subseteq Postings
    /\ claim \in [Accounts -> [stage : {"free", "locked", "admitted"},
                               for : Postings \cup {NoPosting}, counted : SUBSET Postings]]
    /\ opened \subseteq Accounts
    /\ outbox \in Seq(Attempts)
    /\ dispatched \subseteq DOMAIN outbox /\ parked \subseteq DOMAIN outbox
    /\ tries \in Seq(0..MaxTries) /\ Len(tries) = Len(outbox)
    /\ steps \subseteq (DOMAIN outbox) \X Attempts
    /\ ledger \in Seq(Attempts) /\ refused \subseteq Attempts
    /\ deposited \in [Accounts -> Nat] /\ foreign \in [Accounts -> Nat]
    /\ money \subseteq Attempts
    /\ lock \subseteq Relays
    /\ at \in [Relays -> Labels]
    /\ cur \in [Relays -> {0} \cup (DOMAIN outbox)]
    /\ batch \in [Relays -> SUBSET (DOMAIN outbox)]
    /\ scan \in [Reapers -> SUBSET Postings]

\* A refused intent never moves money: a row stamped failed (and so shown to
\* its caller, its amount spendable again) has no leg on the ledger, whatever
\* is retried, replayed by the reaper or unparked by an operator.
RefusedNeverMoves ==
    \A p \in Postings \ Invoices :
        (\E t \in Attempts : t[1] = p /\ OnLedger(t)) => row[p] \in {"pending", "posted"}

\* An invoice is paid at most once: only the attempt its row waits for or was
\* stamped with is on the ledger, and a reopened, cancelled or expired invoice
\* has no payment there.
InvoicePaidOnce ==
    \A t \in Attempts : t[1] \in Invoices /\ OnLedger(t) =>
        row[t[1]] \in {"pending", "posted"} /\ ver[t[1]] = t[2]

\* A row reads posted only once its leg is on the ledger and the clients that
\* own its accounts have the money event.
PostedIsMovedAndAnnounced ==
    \A t \in Attempts : row[t[1]] = "posted" /\ ver[t[1]] = t[2] =>
        OnLedger(t) /\ (Announced(t) => t \in money)

\* A replayed event never collides with the first one's saga step, which
\* would hold up every row behind it for ever.
NeverWedged == \A r \in Relays : at[r] = "step" => ~Collides(r)

\* Everything recorded and not yet moved is covered, but for what other flows
\* took uncounted: two spends racing for one account, with the relay posting
\* between a guard's two reads, are never both admitted on the same money.
Promised(a) == {p \in Unapplied(a) : ~OnLedger(<<p, ver[p]>>)}
RecordedIsCovered ==
    \A a \in Accounts : Balance(a) + foreign[a] >= Total(Promised(a))

\* A recorded posting is decided: stamped, or the event of its attempt parked
\* for an operator.
EventuallyDecided ==
    \A p \in Postings :
        row[p] = "pending" ~> row[p] # "pending" \/ \E i \in parked : outbox[i] = <<p, ver[p]>>

\* A swept fee does not stay on the collector unrouted once its destination
\* exists: the route the relay could not make, or recorded as failed for a
\* missing account, is taken up again until the ledger decides it.
SweptFeesRouted ==
    \A s \in Sweeps :
        row[s] = "posted" /\ To[RouteOf[s]] \in opened
            ~> \/ row[RouteOf[s]] \in {"posted", "failed"}
               \/ \E i \in parked : outbox[i][1] = RouteOf[s]
=============================================================================
