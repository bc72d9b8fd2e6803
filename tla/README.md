# A verification development for the EV-invest money hub

The hub (`piggybank/core`) holds customers' USDT claims, moves them between accounts
and pays them out on chain. Money lives in TigerBeetle, decisions live in Postgres, and
nothing makes the two atomic: a command commits its row and its events in one Postgres
transaction, and a single-worker *relay* later carries the events to TigerBeetle, to
custody and from there to a chain. Everything that can go wrong goes wrong between those
steps. This directory models that machinery in TLA+, checks it with TLC and proves its
main safety properties with TLAPS.

## 1. The system

| part | state | operations | talks to |
|---|---|---|---|
| withdrawal commands (`domain/src/withdrawals.rs`, `application/withdrawals.rs`, `infrastructure/withdrawals.rs`) | `withdrawals` row: queued, processing, completed, failed, cancelled | open, dispatch, settle, fail, cancel | outbox (same transaction), ledger reads under the claim's lock |
| outbox and relay (`infrastructure/outbox.rs`, `relay.rs`) | rows in `seq` order with `dispatched_at`, `parked_at`, `compensated_at`, `attempts`; `saga_steps` | take the advisory lock, fetch a batch, probe, guard, apply legs, stamp | TigerBeetle, custody |
| ledger gateway (`infrastructure/ledger.rs`, `ports/ledger.rs`, `claims.rs`) | accounts and transfers with deterministic ids; pending, posted, voided | post, reserve, complete, linked chains, balances; unapplied debits | TigerBeetle |
| EVM custody (`infrastructure/custody.rs`, `evm_rpc.rs`) | `withdrawal_broadcasts`: nonce and signed bytes | stored row, forgotten send, fund check, sign and store, submit, discard | signer, node |
| TRON and TON custody | the same rows with an expiry or a seqno | re-sign after proven expiry, strict seqno queue | signer, node |
| withdrawal watchers, dispatcher, reaper | none of their own | settle a mined transfer, dispatch the backlog, cancel the abandoned, re-drive stale postings | the commands |
| deposits and sweep | scan cursor, `deposits` rows, gas nonces | scan, credit, sweep to the treasury | chain, outbox |
| fund shares (subscriptions, redemptions, issuance, NAV), fees, order book | their rows and cost-basis projections | subscribe, redeem, accrue, match | outbox |
| payments, approvals, consilium | orders, votes | propose, approve, execute | withdrawals, outbox |
| scope ledger (compartments, transfers, holds, charges, invoices, mandates, payouts, operations) | their rows, `money_events` | record, capture, release, pay, expire | outbox, event feed |
| bridge consumer, auth, signer policy | cursor and deferred events; refresh families; spend windows | pull, rotate, admit | concierge, clients, custody |

How they interact: commands never touch TigerBeetle to write; the relay never decides.
A watcher or an operator who learns something about the chain issues a command, which
becomes another outbox row behind the ones already there. The reads a command makes of
the ledger are stale by what the outbox still holds.

Hard behaviours, which the properties below are aimed at:

* a command commits while the relay is between a guard and the call the guard protects;
* rows are delivered at least once, out of order with respect to parked rows that an
  operator re-drives much later;
* a crash, or an answer that is lost, after any external call;
* two relays at once when the session that holds the advisory lock dies;
* an external effect (a transaction on the chain) that no rollback reaches;
* one row at the head of a single-file queue holding up all the others;
* a Postgres restore to a moment the chain and TigerBeetle have moved past.

What makes each part correct: a payout happens at most once and only for money that is
reserved; a claim is debited for good only for a transfer that landed, and every landed
transfer is debited in the end; a row marked done is done, a row marked parked can be
re-driven; two spends of a claim never both pass; every posting of the scope ledger is
applied exactly once or refused for good; units and cash move together; a rotated secret
is never honoured twice; a lifecycle event is never consumed without being applied.

## 2. Modules

| module | what it is |
|---|---|
| `PayoutContract` | the abstract specification: what a withdrawal promises its owner |
| `WithdrawalSaga` | withdrawals: the commands, the relay call by call, TigerBeetle, EVM custody, the chain |
| `ScopePostings` | the one-leg postings of the scope ledger: requests, the relay's posting discipline, the reaper's replays |
| `ScopeHolds` | holds under mandates: reserve, capture, fill, void, TTL, revoke, charge, the relay's legs and the hold feed |
| `ScopeOperations` | payouts and cross transfers that wait for concierge, the budgets of those that do not, the approval executor |
| `ScopeRegistry` | the pull of the scope stream, parked snapshots, and the moves the registry's row admits |
| `Payments` | payment orders: seats and consents, execution, the reserve, what concierge is told |
| `Consilium` | the owners' quorum; extends `Payments`, whose orders it decides |
| `Shares` | units of a product: registry row, marks, subscriptions, redemptions, issuance, projections |
| `Fees` | terms and their changes with notice, accrual, high-water mark, sweeper |
| `Book` | one order book: matching, escrow, trades, refusals, watchers |
| `Deposits`, `FeedScan` | deposits on an EVM rail (logs by block range) and on TRON and TON (an indexer's pages) |
| `GasStation` | gas top-ups: EVM nonces in memory, the TON seqno gate, back-off |
| `TronCustody`, `TonCustody` | payouts without nonces (expiry against the solidified head) and with a strict seqno queue |
| `Identity` | the bridge's mirror of users, and refresh families |
| `Signer` | keys, the KEK sentinel, spend windows, jetton pins |
| `Window` | the migration tool, the export and its import |
| `Cabinet` | one user's requests through the cabinet's gates and token slots |
| `Sums` | sums over finite sets and induction over Nat, as lemmas |
| `WithdrawalSagaProofs`, `ScopePostingsProofs`, `ScopeHoldsProofs`, `ScopeOperationsProofs`, `GovernanceProofs` (`Payments` and `Consilium`), `FundProofs` (`Fees` and `Shares`), `CustodyProofs` (`TronCustody` and `TonCustody`) | inductive invariants and theorems |
| `MCSagaScenes`, `MCWithdrawalSaga`, `MCPostScenes`, `MCScopePostings`, `MCGovernance`, `MCScopes`, `MCFund`, `MCEdge`, `MCTonCustody` | the instances TLC runs |

`Consilium` extends `Payments`: a request of kind payment carries an order through the same
executor the other seats use, so the two are composed over shared variables. The other parts
meet only through the ledger and the outbox. Where one module needs another's relay it models
the part that matters: `Payments`, `ScopeHolds`, `Shares` and `Book` take one row at a time, each
leg, projection and stamp a step of its own; the batch, the lock and the two replicas are
`WithdrawalSaga`'s and `ScopePostings`'.

The comment on each variable names the column, table or register it stands for; the comment on
each action or the operator's own name is the method's. The two modules the others build on in
detail first.

### WithdrawalSaga

One relay step is one external call, so every other actor can run, and a crash or a lost
answer can happen, between any two of them.

| variable | code |
|---|---|
| `wstate` | `withdrawals.state` (`WithdrawalState`) |
| `outbox`, `st`, `attempts`, `compensated` | the rows of `outbox` in `seq` order and their stamps |
| `steps` | `saga_steps`, read by the broadcast guard (`reserve_applied`) |
| `xfer` | TigerBeetle's transfers; balances are sums over it (`Available`, `WalletPosted`, `ClearingPosted`) |
| `funded`, `spent` | what other flows credited to and debited from a claim |
| `signs`, `bcast` | signatures made; the row of `withdrawal_broadcasts` |
| `chain`, `swept` | the fate of each signed transaction; the treasury's inflow |
| `lock`, `at`, `cur`, `leg`, `batch` | the advisory lock and each relay's position in `drain_batch` and `dispatch` |

| action | code |
|---|---|
| `OpenQueued`, `OpenDispatched` | `open_withdrawal` under the claim lock and `ClaimCovers` |
| `SweepDispatch`, `OperatorDispatch`, `Cancel`, `WatcherSettle`, `OperatorSettle`, `Fail`, `Unpark` | the dispatcher, the reaper, the watcher and the operator's RPCs |
| `AcquireLock`, `NextBatch`, `TakeRow`, `LostLock` | `run`, `acquire_outbox_lock`, `drain_batch` |
| `Check` (`SettleCovered`, `MayBroadcast`, `MayVoid`) | the Read-First guards at the top of `dispatch` |
| `LegTaken`, `LegRefused`, `LegNotFound`, `RecordStep` | the leg loop and the mapping of TigerBeetle's answers to outcomes |
| `MarkDispatched`, `Park` and their `StampLost` forms | the stamps, each of which may fail and is then only logged |
| `Custody`, `StoreTx`, `SendRefused`, `Submit`, `SubmitUnanswered`, `SubmitRejected`, `DiscardTx` | `ChainCustody::broadcast` call by call |
| `Mine`, `Revert`, `Evict`, `Resurface` | the chain (external) |
| `Crash`, `DropLock`, `Restore` | the process, the database session, the database |

Abstractions. Amounts are small naturals; a transfer id is the pair of withdrawal and
leg, which is what `tid` derives. Batches are not cut at the row limit. The spend guard's
two reads (unapplied debits, then the ledger) are one step here. The
treasury nonce is left out: transactions of different withdrawals do not compete. Reading
the chain's logs in `forgotten_send` either finishes or counts as an outage. `Revert`
happens when the treasury is short or under the fault of that name. A leg TigerBeetle
refused is answered from the balances of the moment when it comes again; the pinned server
(0.17.6, `flake.nix`) answers `id_already_failed` for an id refused for want of funds or for
a pending transfer it did not find, which the gateway maps to a conflict. The fault
`conflict` adds that answer, so the saga's behaviours include the server's and some more.

`Faults` selects what an instance is exposed to: `unavailable` (no answer from TigerBeetle,
Postgres, the signer or the node), `stamp_lost`, `refused` (signer, gas or node refuse),
`conflict` (TigerBeetle's other refusals), `evicted`, `reverted`, `crash`, `lock_drop`,
`restore`, `restore_pending`.

### ScopePostings

Compartment moves, scope transfers, payouts, charges and invoice payments differ in their
tables and are one thing to the relay (`Posting` in `relay.rs`): a row that is `pending`
until the relay has posted its one leg, then `posted`, or `failed` when it is refused. An
attempt `<<p, v>>` names a leg. `v` is the version of the invoice whose payment it is, from
which `invoice_pay_tid` derives the transfer id; the other kinds have one attempt.

| variable | code |
|---|---|
| `row`, `ver` | the state column of the posting's table (for an invoice its `state` and `ledger_state` as one) and the invoice's version |
| `late` | the clock is past a charge's `CHARGE_POSTING_WINDOW_SECS` or an invoice's expiry |
| `claim` | the claim lock (`lock_claim`) with what its holder has read so far |
| `outbox`, `dispatched`, `parked`, `tries` | outbox rows and stamps; `money_event_attempts` |
| `steps` | `saga_steps` with its unique `tb_transfer_id` |
| `ledger`, `refused`, `deposited`, `foreign` | TigerBeetle: legs in the order they were posted, ids used up by a refusal, what other flows credit and debit |
| `money` | `money_events` |
| `opened` | scope accounts that exist as the destination of a fee route |
| `lock`, `at`, `cur`, `batch`, `scan` | the relays and the reapers |

| action | code |
|---|---|
| `LockClaim`, `ReadLedger`, `Record`, `Rollback` | `record_move`, `record_transfer`, `record_payout`, `record_charge`, `pay_invoice`: the lock and the read of unapplied debits, the read of the ledger, the commit of row and event |
| `IssueInvoice`, `CancelInvoice`, `ExpireInvoice`, `PassDeadline` | `record_invoice`, `cancel_invoice`, `expire_one`, the clock |
| `ReadState`, `AppliedCheck`, `WindowCheck` | the checks of `dispatch` before a posting's leg |
| `LegTaken`, `LegRefused`, `LegUnanswered`, `RecordStep` | the leg, TigerBeetle's answer or its loss, the saga step |
| `RecordEvent`, `EventUnrecordable`, `ParkUnrecorded` | `record_relayed` and its bounded retries |
| `StampPosted`, `StampPostedUnrouted`, `StampFailed` | the posting's stamps; a sweep's stamp makes its route in a savepoint |
| `MarkDispatched`, `Park`, `ParkRow`, `StampLost` | the outbox stamps; a park is two statements |
| `Scan`, `Redrive`, `RouteUnrouted`, `ReviveRoute` | the reaper's sweep |
| `OldDispatch` | a relay of a build that does not know the event's kind (external) |
| `Unpark`, `Deposit`, `ForeignDebit`, `OpenAccount` | operators and other flows |

Abstractions. A payout's linked chain is one leg: it applies whole or not at all. The limits
an admission checks besides the balance only narrow it. A sweep is admitted once its route's
destination exists; recorded without it, as `missing` needs, only where older builds are
around. The ages after which the reaper acts are not modelled: it may act at once. Parks
for "retries exhausted" and "applied check" do not occur for a posting: `transfer_exists`
and `post` report an unknown outcome as `Unavailable`, which is retried without bound, and a
posting has no pending transfer to be missing.

An id TigerBeetle has refused for want of funds answers `id_already_failed` for good; the
gateway maps it to a conflict and the relay parks the event. The model remembers such ids in
`refused`, because two things turn on it: a refusal whose answer or stamp was lost ends as a
parked event rather than a failed row, and a second relay cannot post an attempt the first
one was refused. The fault `conflict` is any other status.

### Payments and Consilium

An order is a row (`pstate`, `late`), a seat (`pins`, `answer`, `tries`, `burned` for an
investor; `appr`, `known`, `execBy`, `reported`, `withdrawn` for concierge; a consilium
otherwise), its outbox rows (`row`), its legs (`xfer`, `refused`, `step`), the claim's available
amount (`free`) and the withdrawal it may become (`wd`). Executors (`at`, `job`, `out`,
`round`) are the sweeper, an inline caller or an approval round: `execute` reads, acts, and
records under the order's lock, each a step.

| action | code |
|---|---|
| `OpenPayment`, `ProposeTaken`, `ProposeStored`, `ProposeRefused`, `CloseUnproposed` | `payments::open`, `payment_approvals::propose_on_open` and the sweep of what was never proposed |
| `SubmitConsent`, `SubmitWrong`, `AnswerInvalid`, `AnswerSessionConsent`, `CancelPayment`, `ExpirePayment` | the seats and the commands, with `pins_moved` and the attempts of a code |
| `SweepPayment`, `ExecuteReads`, `SettleOnTheLedger`, `CreateWithdrawal`, `RefindWithdrawal`, `RecordExecution`, `RecordVoid`, `RecordOverClosed`, `ExecutorDies` | `execute` and `record_execution`, and the retry that finds the withdrawal the first try made |
| `PullApproved`, `CarryOut`, `Reread`, `RecordConciergeApproval`, `Report`, `ReportEnded`, `WithdrawDead` | the approval rounds |
| `RelayReserve`, `RelaySettle`, `RelayRelease`, `ParkPayment`, `UnparkPayment` | `plan_payment` in `relay.rs` |

In `Consilium` a request has a state, the roster of its opening, ballots, attempts of codes,
invitation mails and the two row locks (`mailLock`, `seatLock`) that closing and mailing take.

| action | code |
|---|---|
| `OpenRequest`, `OpenQuorum`, `OpenOrder`, `OpenOrderFails`, `UndoQuorum` | opening; for a payment the quorum is committed before the order is written |
| `SubmitVote`, `SubmitWrongCode` | `submit`: the tally is of the roster that still stands |
| `CloseStarts`, `CloseLocks`, `CloseEnds`, `CloseCommits`, `CloseRollsBack` | expiry, roster change, cancel and verdict: row locks one by one, then the commit or the rollback |
| `DeliverLocks`, `Deliver` | the mailer |
| `ExecuteChecks`, `ExecutePayment`, `ExecuteEffect`, `RecordConsilium`, `RunnerDies` | `execute` and its record, transactions apart |
| `ChangeRoster`, `CoolingLifts`, `WindowCloses` | the bridge's journal of the owners, the clock |

Rows of different orders are delivered in any order, which only adds behaviours. Concierge is
external: it takes, decides, loses answers. Mail and codes are events without contents.

### ScopeHolds, ScopeOperations, ScopeRegistry

`ScopeHolds` keeps a hold's row (`hstate`, `captured`, `version`, `standing`), its captures
(`capRows`), mandates and the clocks that end them, the callers' open transactions (`task`:
read, then commit, with the locks held between), the outbox `rows` and the ledger per hold
(`reserved`, `voided`, `taken`; `free` is the compartment). `ReserveReads` to `ReserveCommits`,
`ChargeReads` to `ChargeCommits`, `FillReads` to `FillCommits` and `RevokeLocks` to
`RevokeCommits` are the two halves of those calls; `Capture`, `Void`, `ExpireDueHold`, `Grant`
commit in one. `RelayReserve`, `ParkRefusedReserve`, `RelayCapture`, `RelayRelease`,
`RelayAnnounce`, `ParkUnreserved`, `ParkConflict`, `ParkUnrecorded` (the legs are on the ledger, the
money event cannot be recorded) are the relay's steps on a row, `UnparkRow` the operator's.

`ScopeOperations` keeps an operation's row and progress (`ostate`, `oappr`, `olevel`, `oflag`),
the payouts it or a client alone recorded, the outflow a holder of the budget lock has read
(`inHand`), concierge's approvals, and the executors' registers (`carry`). The executor's
`propose_due`, `carry_out`, `settle_decided` and `expire_unopened` are cut at every call to
concierge; two executors overlap during a deploy.

`ScopeRegistry` follows one stream behind a cursor (`Acquire`, `BeginCycle`, `Check`, `Pull`,
`ApplyOne`, `AdvanceCursor`, `ReplayOne`, `EndCycle`) under an advisory lock that may be lost,
with snapshots an older build cannot read parked, and a stream that is restored and shorter
(`Rewind`). A move (`Ask`, `LockAndSum`, `Admit`, `PostMove`, `MarkPosted`) decides against the
row it holds for share.

### Shares, Fees, Book

`Shares`: a request (`SubscribeReads`, `SettleReads`, `RetireReads`, `SettleFeesReads`) reads the
registry, the marks and the ledger unlocked, and records later; the relay moves leg by leg
(`RelayLegMoves`), projects once per event (`Project`, keyed by the saga step of leg 100) and
stamps (`RelayFinishes`). Prices and units are small integers; bought units are the floor of
cash over price, which is what makes rounding against the fund visible. A charge reads what is free
on the ledger (`ChargeReads`) and writes its row, its event and the position in one transaction if the
position's clock has not moved (`ChargeUnits`), the position at most down to zero; `clamped` remembers
the holders a charge or a retirement was clamped for.

`Fees`: a sweeper reads terms, then the position, then writes on the condition that the
position's clock has not moved (`SweepStarts`, `ReadPolicy`, `ReadPosition`, `Charge`);
`TopUp` and `Exit` carry the accrued fee under the position's lock; `Schedule`, `AwaitConsilium`,
`ScheduleApproved`, `RejectChange`, `CancelChange`, `Acknowledge`, `Promote`, `DeliverNotice` are
a change of terms and its mails. A tick is the unit of time, and the fee of a tick one number.

`Book`: `Place` reads balances unlocked; matching by price and age and the insertion of the
order with its fills are one transaction; the relay escrows, settles trades and releases, and an
order the ledger would not escrow is taken off the book by a step of its own.

### Deposits, FeedScan, GasStation

`Deposits` runs the watcher (a chunk of a block range, its logs, its rows, its cursor), the sweep
(its mark before the transaction, the transaction, the mark on the deposits) and the custody
migration over a chain that may reorganise above `DepConfirmations`, a logs endpoint that prunes
and a database whose asynchronous commits a crash may lose. `scan_range` can also leave the cursor
alone (`CursorPolicy::Leave`, a backfill), which nothing in the repository calls; it is left out.
`DepPause` keeps the two calls of a sweep closer together than a deposit takes to become final:
`SweptIsMoved` rests on it, the code only on the calls being quick. `FeedScan` is the TRON and TON
watermark with its look-back. `GasStation` is the in-memory nonce allocator over a node that may
lag, and the TON gate, all of it forgotten by a restart.

### TronCustody, TonCustody

`TronCustody` has two kinds of drivers (the relay's broadcast and the watcher's check) that read
the row, the solidified head and the receipt in separate calls from nodes `TronLag` apart, then
sign and swap the stored row by compare-and-swap. `TonCustody` has the relay that signs at the
next free seqno and the watcher that sends the one whose turn it is, re-signs an expired one at
the same seqno and settles by amount. The watcher's reads are outrun in two ways, both of
which `edge` reaches: a scan reads a row between its `store_tx` and its first send, which is refused and the row
discarded (`nForgotten`), and the feed shows a transfer that left after the scan began, with which
something is settled (`nAhead`). These history variables record where it happened. The properties are
stated of every withdrawal with its own condition in them (`Kept`, `AsRead`), so they also say that
nothing else can break them; TLC finds each of them violated when its condition is dropped.

### Identity, Signer, Window, Cabinet

`Identity` puts the bridge (pull, apply under the subject's lock, park, replay, advance) and the
auth plane's refresh families (sign-in, presentation, look-up, rotation, revocation in the
process and in Redis) around one users row. `Signer` is its sequence of database and backend
calls per signing request and per key command, with the KEK sentinel at boot. `Window` is the
tool's commands, each of its writes a step, the export in its snapshot and the hub that goes on
writing. `Cabinet` is the route table (which gate, which RPC), the cached banking pair in its
slots and the hub's gates in front of each RPC.

## 3. Runs

Each run asks one question of one part of the system. An instance that explored every part of a
module with every fault at once would not finish, so a run is a set of *scenes*: a variable
`scene`, chosen initially and never changed, says which small instance a behaviour belongs to.
The headers of the MC modules list them.

| run | scenes | shows |
|---|---|---|
| `saga_safe` | one withdrawal under every fault of the calls, the stamps, the node and the chain; two over a claim that covers one; two landed over a rail that covers one | `SendBacked`, `AtMostOnePayout`, `SettledOnlyPaid`, `DispatchedMeansApplied`; what was admitted is reserved (`AdmittedIsReserved`), a settle whose first leg is posted goes on to its end unless an earlier row took the liquidity (`HalfSettledIsOvertaken`) |
| `saga_live` | two replicas, outages, conflicts, crashes, evictions, under fairness | every row leaves the queue, a landed transfer is accounted for, the saga implements `PayoutContract` |
| `post_safe` | a move and a charge over an account that covers one; an invoice with two payment attempts and older builds; a fee sweep and its route, two relays, the lock lost under a holder | nothing refused moves, what is recorded stays covered, an invoice is paid once, a row reads posted only with its leg and its event |
| `post_live` | a sweep and its route, under fairness | every posting is decided, swept fees are routed, a replay never collides on its saga step |
| `governance` | an order decided by concierge, by an investor (by mail and in a session), by three owners; a fee policy decided by the owners | money follows the order, every party learns the end that happened, nothing takes effect without a quorum that stands, consents are fresh, no two commands wait for each other's row locks |
| `scopes` | a hold and a charge on one mandate; a hold while mandates change; two holds filled under one cap; payouts and a cross transfer with two executors; a freeze and a blocked recipient | clearing equals what is held, nothing is paid without its approval or its budget, the feed tells each event once, in order but for rows an operator put back, draws and fills stay within the caps |
| `fund` | a dearer and a waived change of terms, moving marks; subscription, redemptions, charge; keys; valuations; a product that shuts; orders that cross, units that leave, a book that closes | a period is charged once at terms in force, units match cash, the escrow is what open orders need, notices precede dearer terms, priority is kept |
| `edge` | TRON and TON payouts, two EVM relays with a restore; deposits with pruned and reorganised logs, with indexers; gas nonces and the gate; the bridge, sessions, replays; the signer's boot, keys, spends, pins; the scope stream followed, parked, rewound; the window's commands; the cabinet's tokens, rate and gates | one transfer of a TRON payout pays, chain money is kept, only the entitled act, two books agree, decisions stand |
| `half_parked` | violation of `ParkedMeansUntouched` | a parked settle may have its first leg on the ledger, against the comment at `relay.rs:686` and PATTERNS.md |
| `restore_pending` | violation of `AtMostOnePayout` | a restore over a send still in the mempool leads to a second payout |
| `bounced_settled` | violation of `SettledOnlyOwn` | a bounced TON withdrawal is settled with the transfer of a sibling of its amount that left between two reads of the watcher, against its doc |
| `orphaned_quorum` | violation of `QuorumOutlivesNoOrder` | a consilium whose order failed to be written can neither be cancelled, nor expire, nor be voted down |

Also observed while modelling, read off the code and kept out of the runs:

* a fail is accepted while a broadcast row exists (`withdrawals.rs:257` looks at the state
  only) and its void then parks; `RUNBOOK-withdrawals.md:12-14` says it is refused;
* a relay that loses the lock after the window check (`relay.rs:636`) can post a charge that
  another relay has meanwhile refused as expired, against the doc at `scope_charges.rs:211`.
  `RefusedNeverMoves` therefore does not hold under `lock_drop`, and is stated without it;
* two concurrent requests pass the solvency check twice, say `relay.rs:699-702` and
  `piggybank/core/PATTERNS.md:1356-1358`; since the check runs under the claim's lock and counts what is
  recorded and not applied (`withdrawals.rs` over `claims.rs`), they do not (`AdmittedIsReserved`), and a
  reserve parks only when another flow takes the money (`MaxForeign`);
* a money event recorded after an unpark (`relay.rs:566`) carries the balances of that later
  moment, where `money_events.rs:5-7` says those right after the posting; and of a hold it is told
  after the events of later versions that passed the parked row, so the client's stream is not in the
  order of the versions. `FeedInOrder` allows exactly that and `ParkUnrecorded` reaches it;
* the replay of stale invoice payments asks for any undispatched event of the invoice
  (`scope_invoices.rs:481`): the parked event of an earlier, refused attempt, which nobody need ever
  unpark, hides a later attempt that an older build dispatched without posting, where the doc at
  `scope_invoices.rs:472` says every such payment is enqueued again;
* a crash between `mark_parked` and `mark_failed` (`relay.rs:546`) leaves a parked posting
  pending, against the comment at `relay.rs:542-543`; an unpark still resolves it;
* two planes revoke by counters of their own and a token is compared with the greater
  (`users.rs:47`): a revocation on the plane whose counter is behind invalidates nothing, where
  `ports/mod.rs:140-143` says either one does; `RevokedNeverRefreshes` speaks of the greater;
* in Redis a family issued between the two halves of `revoke_user` (`management.rs:462-473`) stays and is
  in no index, so a later replay of its secret that ends in `revoke_user` does not reach it;
  `ReplayedSecretEndsFamily` is checked over the store in the process, `SecretBuysOnce` over both;
* of two overlapping rotations of a dead signer key the second archives the healthy key the first
  has just minted (`service.rs:695`, `secrets.rs:394`), where the comment at `service.rs:685-687`
  keeps rotation to dead keys;
* a frozen user may still unwind, says `services/book.rs:5-6`; no token is issued while the user is
  frozen (`auth/src/service.rs:221`), so only while an earlier token lasts;
* when the discard of a refused TON message fails (`ton_custody.rs:427`) its row stays, and the
  watcher sends the message of a parked withdrawal at its turn;
* a scan of the TON watcher that falls between a first send's `store_tx` and its `submit`
  (`ton_custody.rs:408-409`) reads the row, and when that send is refused and its row deleted
  (`ton_custody.rs:436`) sends the bytes all the same: the message "never entered the network" in the
  comment at `ton_custody.rs:427-428`, and an unpark while the scan lasts signs a second one.
  `TonOnePayout` fails of such a withdrawal, and is checked and proved of every other (`Kept`);
* when two first sends of a TRON withdrawal overlap, the second's `store_tx` writes nothing and
  its own bytes are sent all the same (`tron_custody.rs:365-366`), against the comment there;
  `TronPaysOnce` is checked and proved with one relay draining;
* a charge between a mint's ledger leg and its projection takes units that the position does not show
  yet, and the position is clamped at zero (`fees.rs:277`); so are units an operator retires after a
  charge or a settled redemption that the ledger has not applied yet (`ProjectHolderPosition`). What is
  projected later leaves the position ahead of the ledger for good: the comment at `fees.rs:273-276`
  leaves it to the next sweep, which prices by the ledger and does not put the position right. The
  scenes `exits` and `keys` reach both; `ProjectionFollowsLedger` tells such holders apart by `clamped`.
  (A fill of the book clamps too, `relay.rs:860-867` and `relay.rs:921-931`; `Book` keeps no position.)
* a sweep mined from an address that the custody migration has meanwhile retired is reported as
  money from outside (`deposit_watcher.rs:588`): only an alert, no row follows from it.

Bounds, and why they are enough for the questions asked. The guards, the custody protocol
and the stamps are per withdrawal, so one withdrawal with every fault explores them
(`MaxSigns = 2` lets a second signature happen if the code allows one; `MaxAttempts` is 2,
the bound of 25 scaled down so that both sides of it are reached). Two withdrawals are what
contention over a claim or a rail needs. Gross 3 and fee 1 tell gross, net and fee apart.
`MaxForeign = 1` lets an admitted reserve be refused by the ledger after all (a parked debit
of another flow re-driven), which is how the guards against an unapplied reserve are reached.

For the postings: every amount is 2 and the contended account starts with 2, so it covers
one of two; one unit debited by another flow makes an admitted posting fail, and one unit
deposited makes a refused one affordable again, which is when a stale event could do harm.
`MaxVersion = 6` is issue, pay, fail, pay, and a refusal of that. `MaxEvents` stops older
builds from dispatching for ever, which the reaper would answer with new events for ever.
`MaxTries = 2`, in `post_live`, reaches both sides of the bound on money events; it is 1 elsewhere.

Governance: three owners and `MinOwners = 3` make one departure void a quorum; two executors or
two runners are what overlaps during a deploy; `MaxCodeAttempts = 2` has a wrong code both
before and at the limit. Scopes: two holds of one unit under a fill cap of one, one of two units
that is captured in parts, a charge that competes with it, budgets that admit one request of two.
Fund: the horizon of three ticks holds a promotion, a charge before and one after it; two
redemptions and a charge compete for the units of one investor; four orders hold two prices' worth
of crossing, one post-only and one market order. Edge: a block range of 2 over a chain of 4 blocks is
more than one chunk; a TRON lag and margin of 2 over a window of 1 makes a proof of death both
possible and premature; two TON withdrawals of one amount over
two seqnos, with a window and a clock of 1, let a message expire once, a sibling bounce and a
seqno be given out twice; a page and a pull limit of 2 over three events cut a page in the middle;
a spend cap of 2 with amounts 1 and 2 is crossed by the second request. Bounds on clocks
(`TronMaxTime`, `TonMaxTime`, `FeedMaxTime`, `Horizon`, `SigMaxTime`, `RegMaxTime`, `CabMaxTime`) only end the run.

Deadlock checking stays on wherever the relay and the environment always have a step. It
is off where an instance may simply finish: every request decided, every row dispatched
or parked, every clock at its bound.

Fairness. The live runs use `LiveSpec`: the steps of `Next` that change something, with weak fairness of each relay's own steps (the loop in `Relay::run` never exits before
shutdown) and of the watcher's settle (`WithdrawalWatcher::run` polls for ever), and with
faults and operator re-drives that come to an end (`Calm`): with an outage that never ends, or an
operator who unparks for ever, no row need ever leave the queue, and the code does not claim
otherwise. Nothing is assumed of the chain, of deposits, of dispatchers or of operators. For
the postings the same holds of each relay, of each reaper (`Reaper::run` sweeps at an interval
for ever) and of its repair of fee routes. The other runs assume no fairness and state no liveness.

Each property of a passing run has a mutant: the operator just above the definition it
replaces, commented *Slip*, is what a plausible bug would make of it, and TLC finds the
property violated.

## 4. Proofs

All proofs are checked by TLAPS for every value of the constants that meets the assumptions
named in the modules; the instances of section 3 are one such value each, and TLC evaluates the
assumptions there. Each theorem follows the same path: an inductive invariant, one lemma per
action that it is kept, and the property as a consequence.

| theorems | of | hypothesis besides the assumptions |
|---|---|---|
| `Invariant`, `TypeCorrect`, `SendIsBacked`, `OnePayout`, `SettledIsPaid`, `DispatchedIsApplied` | `WithdrawalSaga` | `Undisturbed`: the lock is not lost under a holder, Postgres is not restored |
| `Refinement` | `WithdrawalSaga` implements `PayoutContract` | `Undisturbed` |
| `PostingInvariant`, `PostingTypes`, `RefusedStaysRefused`, `PaidOnce`, `PostedIsAnnounced`, `NoWedge`, `RecordedCovered` | `ScopePostings` | `LockKept`: the lock is not lost under a holder |
| `HoldsInvariant`, `HoldTypesCorrect`, `HoldsAgree`, `CapsHold` | `ScopeHolds` | none, under every fault |
| `OperationsInvariant`, `OperationsTypes`, `PaidByRight`, `EndsTold` | `ScopeOperations` | none, under every fault (types: at least one operation) |
| `FeesInvariant`, `FeesChargedOnce`, `FeesNoticesFollow` | `Fees` | none |
| `SharesInvariant`, `SharesTypes`, `UnitsCash` | `Shares` | none, under every fault |
| `PayInvariant`, `PayTypes`, `OrderMoney`, `EndKnown`, `ConsentStands` | `Payments` | none, under every fault |
| `GovernanceInvariant`, `GovernanceTypes`, `QuorumHolds`, `FreshConsent`, `GovernedMoney`, `GovernedEnd` | `Consilium` over `Payments` | none, under every fault |
| `TronInvariant`, `TronTypes`, `OneTronTransfer` | `TronCustody` | `OneDrainer`: one session drains the outbox, beside the watcher |
| `TonInvariant`, `OneTonTransfer`, `TonNoGap`, `TonDiscardsUnsent`, `TonSettlesItsOwn` | `TonCustody` | `OneTonDrainer`: the same; no restriction on what the watcher reads when |

### The saga

None of the properties is inductive. The invariant `IInv` adds what each rests on:

* `OneDrainer`: a relay past `acquire` holds the lock, so at most one is inside a row;
* `RowsMatch`: which events exist for which state of the withdrawal, each at most once;
* `LedgerMatches`: a completion on the ledger implies the state that queued it (a settle
  only of a completed withdrawal, a void only of a failed or cancelled one), and a fail's
  void implies that no broadcast row exists;
* `StoredOnly`: only the stored transaction is on its way; one that was discarded never
  reached the node;
* per relay, `InHand` and `LegsBehind`: the row in hand is queued in the relay's batch and
  the legs before the current one are on the ledger and in `saga_steps`;
* per relay, `GuardHolds`: what `Check` found is still true at each later label. This is
  the core of the argument: a `Fail` may commit after `MayBroadcast` was read, but its
  void is a later row, and this relay, the only one, is still inside the broadcast; by the
  time the void is in hand, the broadcast row is there and `MayVoid` is false.

`Refinement` maps the transfers to the fate of the gross and the chain to sent and paid; the
extra invariant `ResolvedHeld` says a resolved reservation was placed and resolved one way only.

### The postings

`IInv` adds to the types:

* `VersionFits`: only an invoice is ever open, and an open or pending one has room under
  the bound for the versions ahead of it;
* `ClaimFits`: the request that holds a claim still finds its row as it did under the lock,
  since every other writer of that row takes the same lock or looks for another state;
* `AttemptAgrees`: an attempt on the ledger is the one its row waits for or was stamped
  with; a saga step exists only for an attempt on the ledger; a posted row has both its leg
  and its event;
* `RelayFits`: what a relay's checks established still holds at each later label. Nobody but
  the one relay stamps a row `posted` or `failed`, so a row found `pending` stays so, and a
  leg found absent stays absent, until this relay acts. This is what
  losing the lock breaks (section 3).

`RecordedCovered` is about sums, and its invariant is `Covered` over `IInv`. `Slack(a)` is what an
account holds, foreign debits left out, less `Due(a)`: the debits recorded and not on the ledger
and, of a fee collector, the routes of all sweeps that reached it, made or not (a sweep and its route
move one amount, by `CollectorAssumption`, which is `ScopeTransfer::restore`). Then

* `Slack` is never negative, and no step but a request's commit lowers it;
* a claim's holder that has read the unapplied debits has counted all that is due, because whoever
  would record another debit of that account needs the same lock; the relay may apply some
  meanwhile, which the second read, of the ledger, then shows;
* so what is admitted is within `Slack`, and stays so until it is recorded.

### The holds

`HoldsInv` has these parts.

* `Story`: the rows of a hold, in the order of the outbox, are its versions, one row each; every row
  starts from what the one before left (`RowFollows`), and the last one agrees with the hold's own
  columns. This is what the lock on the hold's row buys, since every writer takes it.
* `Books`: the ledger has a row's legs only when it has those of all earlier rows of that hold, and
  then the relay has come past each of them: it is stamped done, or was parked because its money
  event could not be recorded. A reservation stands for a row with something left, the
  reservation of every earlier version is released, and the amounts moved add up to what the last
  row applied says was captured. A relay that crashed between two legs, or had its answer lost,
  comes back to the same row; a row parked before its legs keeps every later one of its hold off the
  ledger, because the reservation that the later one releases does not exist.
* `Told`: whatever was sent to the client is a row the ledger has, or the one refusal, and `FeedInOrder`:
  an event is told after one of a later version only if its row was unparked.
* `DoneIsTold`: a row stamped done has been told, because the event comes before the stamp.
* `Drawing`: at most one caller holds the mandate's lock; what it has read of the holds and charges
  drawn on the mandate still bounds what is drawn when it commits, and the same of a fill under the
  user's fill cap.

`HoldsAgree` compares a hold whose events are through with the ledger: its last row is on the
books by then, and `Books` says what that means. `CapsHold` rests on *easing*: no step but a commit
of the lock's holder adds a draw or a fill (`Eased`), so a sum read under the lock only
falls until the holder adds its own amount, which it compared with the cap against that sum.
`HoldsAssumption` asks for finitely many holds and charges, positive amounts, at least one mandate
and caps that are not below the cap of one operation.

### Payments and the consilium

`PayInv` relates an order's parts: `RowsFit` (the outbox rows are the ones of the states it went
through), `LedgerFits` (a delivered row has its legs, a parked one its id refused for good, nothing
settles unreserved), `WithdrawalFits` (a queued withdrawal of an order that has not executed is
in the hands of its creator, or its creator died), `SeatFits` and `ExecutorFits` (what an executor
holds still stands). The argument for executors is one lemma: `Keeps(o)` lists what no step of
anybody takes back of an order (it stays past approval, its end stays, transfers stay), and
`ExecutorFits` depends on nothing else, so an executor at rest keeps it whoever moves.

`ConInv` adds the consilium's: `BallotFits`, `OutcomeFits`, `LocksFit`, `RunnerFits`. A carried
request has approvals of more than half of the roster it was opened over; the tally is a
cardinality, and the proof uses that a vote adds one seat and that withdrawn seats are not counted.
`NoLockCycle` follows from `LocksFit`: every transaction takes the mail's lock before the seats'.
`OutcomeFits` needs what an order can still become, so the order's life in `Payments` is stated
as a lemma of its steps and cited for each step of the composition.

### Scope operations

`OperationsInv` has three parts. `OpTypes` is the types. `BudgetInv` is about sums: one executor or
client holds the budget's lock (`OneHolder`), what it has read of the outflow is at least what has left
since (`HandFits`), so what it admits is within the budget when it commits (`BudgetHeld`), and every
payout that waits for nobody was admitted that way (`RequestsAreCovered`). An operation's fall from
pending only lowers the outflow; a rise is a commit under the lock. `RowsInv` follows one operation:
its row only moves along the states of `OpFits`, what concierge has approved is an approval opened for
it, over its own payload, and never changes (`Truth`), and an executor about to carry out holds
exactly that approval (`CarrierFits`), however long ago it read the row and whoever else is at it.
`PaidByRight` and `EndsTold` read off those parts.

### Fees

A sweep reads the terms and later prices a window of ticks with them. The invariant says that, as
long as the clock of the position stands where the sweep found it, those terms were in force at every
tick of that window (`InForce`, `SweepInv`): a promotion either charges the position up to
`effective_from` at the old terms, which moves its clock and makes the sweep's write fail, or
leaves a window both terms govern. `BilledRight` then says of every tick behind the clock that it was
billed at a fee in force at it, `AccountInv` that what is owed and taken is the sum of the ticks billed
and the gains above the mark. A holder whose position moved within the
very tick a sweep read it in, or was stamped backwards, is `overtaken` (the write compares clocks
only) and left out. `FeesNoticesFollow` rests on `NoticeInv`.

### Shares

A holder's units live in the ledger and, projected, in a position, and each is written by steps of
its own: a row commits with its event, the relay applies the event's legs one by one, projects, and
stamps. `UnitsInv` says which rows and events there are for each other (`RowsTold`, `EventFits`), which
legs for each row (`LegsFit`: mint after cash, payout after burn), that the units behind pending
burns are there (`UnitsCover`), and, in `GapFits`, by how much a position is ahead of the ledger: by
`Ahead`, the sum over rows of what each has in the one and not in the other. A subscription weighs its
units once it is projected and no longer once it is minted; a completed redemption weighs against the position until its
burn is posted; a charge, until it is clawed back. Every step of the relay changes one term of one
sum and one of the two balances by the same amount. When nothing is unsettled each term is zero
(`SettledIsLevel`), so position and ledger agree.

They do so exactly for a holder whose projection was never clamped: a charge (`ChargeUnits`) and a
retirement (`Retired`) stop at zero and then take less from the position than from the ledger. What
holds of every holder is that a settled position is never short of the ledger. `UnitsCash` says both,
with no hypothesis on what is charged or retired.
`SharesAssumption` asks for finitely many investors and requests, for identifiers of subscriptions and
issuances that differ, and for the positive units and cash that the requests' zero checks demand
(`redemptions.rs:93`, `subscriptions.rs:49`, `issuance.rs:373`).

### TRON

Only the stored transaction can still land (`OnlyTheRowLands`). A row is replaced by a driver that
found the stored transaction dead, and it is dead for good: its expiration has passed, it is in no
block, and by the margin the node that had no receipt had every block that could have taken it. A
driver that read the row long ago holds the stored transaction or a dead one, which no node takes
(`DriversFit`). `TronAssumption` says what this needs: the lag of the nodes is within the margin.

### TON

`TonInv` joins the rows, the wallet and what the two drivers hold. Of a withdrawal that is `Kept` (its
row was not discarded after a scan had read it), what the wallet took, what the network holds and what
a scan has in hand is stored, at the seqno it was signed at (`RowFits`). A relay that signs is alone
with its withdrawal until a scan reads the row (`Solo`, `DrainerFits`): a refused first send that no scan
read deletes a row of which nothing is anywhere else, and one that a scan did read ends `Kept`.
One payout per withdrawal follows: the wallet takes each seqno once, and a withdrawal has one. While no
withdrawal is forgotten (`QueueFits`), no two stored messages share a seqno, none is missing from the
wallet's own upward and the relay holds the next; one forgotten message takes a seqno that the relay gives
out again, so this part is about the whole queue and not about one withdrawal.

That settled withdrawals have transfers of their amount one to one holds without a condition
(`RefsFit`): a transfer used by one is not offered to another. That a settled withdrawal's own
transfer left (`TonSettlesItsOwn`) is a counting argument (`ReadyLeft`), as long as nothing of its amount
was outrun (`AsRead`). Take the transfers of one amount up to where the scan began, and the settled sends of
that amount. Each of those has a transfer of its own and one it was settled with, all distinct
(`RefsFit`), so either way of striking them off leaves as many transfers. What is left after striking
off their own was made by sends that are still being processed, so the scan has them and counts them
as advanced (`ScanIsBehind`). `plan_settlements` asks for as many unused transfers as there are such
siblings, and each of them was settled with one from before the scan began; the transfers left map into
the siblings one to one, so onto them, and each sibling's transfer left. Where a settle did use a newer
transfer, `bounced_settled` shows what happens; where a row was discarded after a scan had read it, its
transfer counts for a sibling that bounced. The code excludes neither.

### Sums

The modules add amounts up with functions defined by recursion over subsets. `Sums` proves
by induction over the size of the set, stated for a set of numbers rather than for a predicate,
that such a function exists and what it does when an element is added, removed or changed, when all
are compared, and when a set is split. `RecordedCovered`, `OrderMoney`,
`HoldsAgree`, `CapsHold`, `PaidByRight`, `FeesChargedOnce` and `UnitsCash` rest on it.

### Only model-checked

* Liveness: `QueueDrains`, `PaidIsAccounted`, `EventuallyDecided`, `SweptFeesRouted`.
* The saga over sums of amounts: `AdmittedIsReserved` and `HalfSettledIsOvertaken` are stated for instances
  without debits of other flows and without refusals, which are not assumptions of the module.
* Everything under `lock_drop` and `restore`, where `OneDrainer` does not hold. `SendBacked` does
  fail under `lock_drop`: the code's comment on the fence calls this a residual.
* Of `fund`: the book's `BookMatchesEscrow` and `PriorityKept`, which compare with a sorted sequence
  and a fold over fills, and `FundTypeOK`, which joins the types of three modules (those of `Shares` are a theorem).
* Of `edge`: everything except `TronPaysOnce` and the TON part of `ChainMoneyIsKept`. Its properties join the invariants of several modules
  that share nothing (`ChainMoneyIsKept`, `OnlyTheEntitledAct`, `TwoBooksAgree`, `DecisionsStand`).
* `ScopesTypeOK` joins the types of three modules; those of `ScopeHolds` and `ScopeOperations` are
  theorems, those of `ScopeRegistry` are only checked.

## 5. Not modelled, and the plan

Not modelled: admission rules in front of an opening (KYC, velocity) where they only narrow it;
alerts, logging, reports; the reconciliation read paths; cryptography and byte encodings of
the signer; field-by-field translation in the cabinet's routes and its frontend; configuration;
generated wire types. The nonce shared by EVM withdrawals is not part of the saga: a transaction
replaced by another one's is an eviction there.

Plan: an invariant of `Book` (`BookMatchesEscrow`); an abstract atomic transfer as
the specification of a posting, and its refinement; `InvoicePaidOnce` without `LockKept`, from
the used-up ids alone; in the saga the guard's two reads as two steps.
