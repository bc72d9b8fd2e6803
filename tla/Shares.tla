------------------------------- MODULE Shares -------------------------------
(***************************************************************************)
(* Units of one product: the registry row that admits money, the marks     *)
(* that price it, subscriptions, redemptions, units issued or retired by   *)
(* an operator, and the settling of the fee class.  A request reads the    *)
(* registry, the marks and the ledger unlocked and then records a row and  *)
(* an outbox event; the relay moves cash and units leg by leg and projects *)
(* each holder's units and cost basis once per event.                      *)
(*                                                                         *)
(* Cash, units and prices are small numbers; units bought are the floor of *)
(* cash over price, as in Shares::from_cash.                               *)
(***************************************************************************)
EXTENDS Integers, FiniteSets, Sequences, FiniteSetsExt

CONSTANTS
    Investors,    \* users that may hold units
    Subs,         \* subscription requests
    SubOf,        \* [Subs -> [user, cash]]
    Reds,         \* redemption requests
    RedOf,        \* [Reds -> [user, units]]
    Issues,       \* operator's issuance requests
    IssueOf,      \* [Issues -> [user, units, source, key, basis]]
    Dues,         \* fee charges: [Dues -> [user, units]]
    DueOf,
    Payouts,      \* settlements of the fee class
    PayoutUnits,  \* [Payouts -> Nat]
    Aums,         \* AUM figures an operator may post
    MaxMovePct,   \* MAX_NAV_MOVE_PCT
    StartCash, StartUnits,  \* [Investors -> Nat]
    StartFund,    \* ServiceClaim at the start
    UnitCaps,     \* caps an operator may set; the first is one of them
    Desks,        \* requests in flight at once
    ShareFaults   \* subset of {"lost", "unpark", "other", "shut", "stale"}

ASSUME SharesAssumption ==
    /\ IsFiniteSet(Investors) /\ IsFiniteSet(Subs) /\ IsFiniteSet(Reds) /\ IsFiniteSet(Issues) /\ IsFiniteSet(Dues)
    /\ Subs \cap Issues = {}
    /\ \A s \in Subs : SubOf[s].user \in Investors /\ SubOf[s].cash \in Nat
    /\ \A r \in Reds : RedOf[r].user \in Investors /\ RedOf[r].units \in Nat \ {0}
    /\ \A i \in Issues : /\ IssueOf[i].user \in Investors /\ IssueOf[i].source \in {"mint", "retire"}
                         /\ IssueOf[i].units \in Nat \ {0} /\ IssueOf[i].basis \in Nat
    /\ \A k \in Dues : DueOf[k].user \in Investors /\ DueOf[k].units \in Nat
    /\ \A p \in Payouts : PayoutUnits[p] \in Nat
    /\ StartCash \in [Investors -> Nat] /\ StartUnits \in [Investors -> Nat] /\ StartFund \in Nat
    /\ Aums \subseteq Nat

VARIABLES
    product,     \* allocations row: [state, access, cap, backing]
    invited,     \* investors with an 'invest' grant
    marks,       \* fund_valuations, oldest first: [nav, by]
    staleMark,   \* the latest mark is older than MAX_NAV_AGE_SECS
    cooled,      \* marks older than the redeem cooldown
    cash, fund,  \* UserClaim, ServiceClaim
    units, fee,  \* UserShares, FeeShares: posted
    burn,        \* [Reds -> ...]: the pending burn of a redemption
    legsDone,    \* ledger transfers created: <<id, leg>>
    bought,      \* [Subs -> units] fixed when recorded, 0 before
    red, redCash,  \* redemptions.state and cash
    issued,      \* unit_issuances.state
    dueRow,      \* fee charges recorded
    paidFees,    \* [Payouts -> cash] fixed when recorded
    pos,         \* fund_positions: [units, basis]
    clamped,     \* history: holders a projection of whom was clamped at zero
    marked,      \* saga_steps rows of leg 100
    outbox,      \* money events in order: [kind, id, st]
    desk         \* registers of the requests in flight

registryVars == <<product, invited>>
markVars     == <<marks, staleMark, cooled>>
bookVars     == <<cash, fund, units, fee, burn, legsDone>>
rowVars      == <<bought, red, redCash, issued, dueRow, paidFees>>
sharesVars == <<registryVars, markVars, bookVars, rowVars, pos, clamped, marked, outbox, desk>>

AllocationStates == {"draft", "open", "closed"}
AllocationAccesses == {"view", "invest"}
RedemptionStates == {"none", "queued", "completed", "failed", "cancelled"}
Desk == [at |-> "idle", op |-> "none", price |-> 0, covered |-> FALSE]

SharesInitWith(state) ==
    /\ product = [state |-> state, access |-> "view", cap |-> Max(UnitCaps), backing |-> "cash"]
    /\ invited = Investors
    /\ marks = <<>> /\ staleMark = FALSE /\ cooled = {}
    /\ cash = StartCash /\ fund = StartFund /\ units = StartUnits /\ fee = 0
    /\ burn = [r \in Reds |-> "none"] /\ legsDone = {}
    /\ bought = [s \in Subs |-> 0]
    /\ red = [r \in Reds |-> "none"] /\ redCash = [r \in Reds |-> 0]
    /\ issued = [i \in Issues |-> "none"] /\ dueRow = {} /\ paidFees = [p \in Payouts |-> 0]
    /\ pos = [u \in Investors |-> [units |-> StartUnits[u], basis |-> StartUnits[u]]]
    /\ clamped = {} /\ marked = {} /\ outbox = <<>> /\ desk = [d \in Desks |-> Desk]
SharesInit == SharesInitWith("open")

-----------------------------------------------------------------------------
(***************************************************************************)
(* Ledger reads.                                                           *)
(***************************************************************************)
BurnsPending(u) ==
    MapThenSumSet(LAMBDA r : RedOf[r].units, {r \in Reds : burn[r] = "pending" /\ RedOf[r].user = u})
FreeUnits(u) == units[u] - BurnsPending(u)
IssuedSupply == MapThenSumSet(LAMBDA u : units[u], Investors) + fee
\* Inflow is never pending here: a mint posts at once.
IssuedUnits == IssuedSupply

Queued(kinds) == {i \in DOMAIN outbox : outbox[i].kind \in kinds /\ outbox[i].st = "queued"}
\* The spend guard's view: money events of the user not yet on the ledger.
Unspent(u) == cash[u] - MapThenSumSet(LAMBDA i : SubOf[outbox[i].id].cash,
                  {i \in DOMAIN outbox : /\ outbox[i].kind = "subscribed" /\ outbox[i].st # "done"
                                         /\ SubOf[outbox[i].id].user = u
                                         /\ <<outbox[i].id, "cash">> \notin legsDone})

Append1(kind, id) == outbox' = Append(outbox, [kind |-> kind, id |-> id, st |-> "queued"])

-----------------------------------------------------------------------------
(***************************************************************************)
(* The registry row.                                                       *)
(***************************************************************************)
EnsureSubscribable(u) == product.state = "open" /\ (product.access = "invest" \/ u \in invited)
EnsureRedeemable == product.state # "draft"
EnsureCashBacked == product.backing = "cash"
EnsureCapacity(minting) == IssuedUnits + minting <= product.cap
RequireRedeemable == EnsureRedeemable /\ EnsureCashBacked

Transition(to) ==
    /\ "shut" \in ShareFaults
    /\ to # product /\ product' = to
    /\ UNCHANGED <<invited, markVars, bookVars, rowVars, pos, clamped, marked, outbox, desk>>
OpenProduct == Transition([product EXCEPT !.state = "open"])
CloseProduct == Transition([product EXCEPT !.state = "closed"])
SetAccess(a) == Transition([product EXCEPT !.access = a])
SetUnitCap(c) == c > 0 /\ Transition([product EXCEPT !.cap = c])
SetBacking(b) == Transition([product EXCEPT !.backing = b])
GrantAccess(u) ==
    /\ "shut" \in ShareFaults
    /\ u \notin invited /\ invited' = invited \union {u}
    /\ UNCHANGED <<product, markVars, bookVars, rowVars, pos, clamped, marked, outbox, desk>>
RevokeAccess(u) ==
    /\ "shut" \in ShareFaults
    /\ u \in invited /\ invited' = invited \ {u}
    /\ UNCHANGED <<product, markVars, bookVars, rowVars, pos, clamped, marked, outbox, desk>>

-----------------------------------------------------------------------------
(***************************************************************************)
(* Marks.                                                                  *)
(***************************************************************************)
SeedNav == 1
CurrentNav == IF marks = <<>> THEN SeedNav ELSE marks[Len(marks)].nav
DealingNav == CurrentNav
MayDeal == ~(staleMark /\ marks # <<>>)
FromAum(aum, supply) == aum \div supply
NavMoveExceeds(prev, new) == (IF prev > new THEN prev - new ELSE new - prev) * 100 > prev * MaxMovePct
\* The mark in force when the rolling window began; at worst the first one.
Anchor == LET aged == {i \in DOMAIN marks : i \in cooled}
          IN  marks[IF aged = {} THEN 1 ELSE Max(aged)].nav
RecentPoster(u) == \E i \in DOMAIN marks : marks[i].by = u /\ i \notin cooled

GuardPasses(derived) ==
    marks # <<>> => ~NavMoveExceeds(CurrentNav, derived) /\ ~NavMoveExceeds(Anchor, derived)

\* The guard is judged on one reading of the supply ...
PostValuationReads(d, aum, u) ==
    /\ desk[d].at = "idle" /\ Len(marks) < Cardinality(Aums)
    /\ IssuedSupply > 0 /\ FromAum(aum, IssuedSupply) > 0
    /\ GuardPasses(FromAum(aum, IssuedSupply))
    /\ desk' = [desk EXCEPT ![d] = [at |-> "value", op |-> u, price |-> aum, covered |-> FALSE]]
    /\ UNCHANGED <<registryVars, markVars, bookVars, rowVars, pos, clamped, marked, outbox>>

\* ... and the mark is derived from another.
RecordValuation(d) ==
    /\ desk[d].at = "value"
    /\ desk' = [desk EXCEPT ![d] = Desk]
    /\ IF IssuedSupply > 0 /\ FromAum(desk[d].price, IssuedSupply) > 0
       THEN /\ marks' = Append(marks, [nav |-> FromAum(desk[d].price, IssuedSupply), by |-> desk[d].op])
            /\ staleMark' = FALSE
       ELSE UNCHANGED <<marks, staleMark>>
    /\ UNCHANGED <<registryVars, cooled, bookVars, rowVars, pos, clamped, marked, outbox>>

MarkAges ==
    /\ "stale" \in ShareFaults /\ marks # <<>>
    /\ \/ staleMark' = TRUE /\ UNCHANGED cooled
       \/ cooled' = DOMAIN marks /\ UNCHANGED staleMark
    /\ <<staleMark, cooled>>' # <<staleMark, cooled>>
    /\ UNCHANGED <<registryVars, marks, bookVars, rowVars, pos, clamped, marked, outbox, desk>>

-----------------------------------------------------------------------------
(***************************************************************************)
(* Subscriptions.                                                          *)
(***************************************************************************)
FromCash(c, price) == c \div price

SubscribeReads(d, s) ==
    /\ desk[d].at = "idle" /\ bought[s] = 0
    /\ EnsureSubscribable(SubOf[s].user)
    /\ cash[SubOf[s].user] >= SubOf[s].cash
    /\ MayDeal /\ FromCash(SubOf[s].cash, DealingNav) > 0
    /\ EnsureCapacity(FromCash(SubOf[s].cash, DealingNav))
    /\ desk' = [desk EXCEPT ![d] = [at |-> "subscribe", op |-> s, price |-> DealingNav, covered |-> TRUE]]
    /\ UNCHANGED <<registryVars, markVars, bookVars, rowVars, pos, clamped, marked, outbox>>

\* Under the user's lock the guard is asked again; units are fixed now.
OpenSubscription(d) ==
    LET s == desk[d].op
    IN  /\ desk[d].at = "subscribe"
        /\ desk' = [desk EXCEPT ![d] = Desk]
        /\ IF Unspent(SubOf[s].user) >= SubOf[s].cash /\ bought[s] = 0
           THEN /\ bought' = [bought EXCEPT ![s] = FromCash(SubOf[s].cash, desk[d].price)]
                /\ Append1("subscribed", s)
           ELSE UNCHANGED <<bought, outbox>>
        /\ UNCHANGED <<registryVars, markVars, bookVars, red, redCash, issued, dueRow, paidFees, pos, clamped, marked>>

-----------------------------------------------------------------------------
(***************************************************************************)
(* Units issued and retired by an operator.                                *)
(***************************************************************************)
\* An issuance recorded under the request's idempotency key.
FindByKey(i) == {j \in Issues : issued[j] # "none" /\ IssueOf[j].key = IssueOf[i].key}

MintReads(d, i) ==
    /\ desk[d].at = "idle" /\ IssueOf[i].source = "mint" /\ FindByKey(i) = {}
    /\ MayDeal /\ EnsureCapacity(IssueOf[i].units)
    \* the product is marked in kind in a transaction of its own
    /\ product' = [product EXCEPT !.backing = "in_kind"]
    /\ desk' = [desk EXCEPT ![d] = [at |-> "issue", op |-> i, price |-> DealingNav, covered |-> FALSE]]
    /\ UNCHANGED <<invited, markVars, bookVars, rowVars, pos, clamped, marked, outbox>>

RetireReads(d, i, force) ==
    /\ desk[d].at = "idle" /\ IssueOf[i].source = "retire" /\ FindByKey(i) = {}
    /\ product.state = "closed" \/ force
    /\ MayDeal /\ FreeUnits(IssueOf[i].user) >= IssueOf[i].units
    /\ desk' = [desk EXCEPT ![d] = [at |-> "issue", op |-> i, price |-> DealingNav, covered |-> FALSE]]
    /\ UNCHANGED <<registryVars, markVars, bookVars, rowVars, pos, clamped, marked, outbox>>

\* INSERT ... ON CONFLICT (service, idempotency_key) DO NOTHING.
InsertUnderKey(i) == FindByKey(i) = {}

Issue(d) ==
    LET i == desk[d].op
    IN  /\ desk[d].at = "issue"
        /\ desk' = [desk EXCEPT ![d] = Desk]
        /\ IF InsertUnderKey(i)
           THEN issued' = [issued EXCEPT ![i] = "queued"] /\ Append1("issued", i)
           ELSE UNCHANGED <<issued, outbox>>
        /\ UNCHANGED <<registryVars, markVars, bookVars, bought, red, redCash, dueRow, paidFees, pos, clamped, marked>>

-----------------------------------------------------------------------------
(***************************************************************************)
(* Redemptions.                                                            *)
(***************************************************************************)
RequestReads(d, r) ==
    LET u == RedOf[r].user
    IN  /\ desk[d].at = "idle" /\ red[r] = "none"
        /\ RequireRedeemable /\ ~RecentPoster(u)
        /\ FreeUnits(u) >= RedOf[r].units
        /\ MayDeal
        /\ desk' = [desk EXCEPT ![d] = [at |-> "request", op |-> r, price |-> DealingNav,
                                        covered |-> fund >= RedOf[r].units * DealingNav]]
        /\ UNCHANGED <<registryVars, markVars, bookVars, rowVars, pos, clamped, marked, outbox>>

\* The request is recorded; a covered one goes on to settle in its own transaction.
OpenRedemption(d) ==
    LET r == desk[d].op
    IN  /\ desk[d].at = "request" /\ red[r] = "none"
        /\ red' = [red EXCEPT ![r] = "queued"]
        /\ Append1("requested", r)
        /\ desk' = [desk EXCEPT ![d] = IF desk[d].covered THEN [@ EXCEPT !.at = "tosettle", !.price = 0] ELSE Desk]
        /\ UNCHANGED <<registryVars, markVars, bookVars, bought, redCash, issued, dueRow, paidFees, pos, clamped, marked>>

SettleReads(d, r) ==
    /\ \/ desk[d].at = "idle" /\ red[r] # "none"
       \/ desk[d].at = "tosettle" /\ desk[d].op = r
    /\ red[r] # "completed" /\ ~RecentPoster(RedOf[r].user) /\ MayDeal
    /\ desk' = [desk EXCEPT ![d] = [at |-> "settle", op |-> r, price |-> DealingNav, covered |-> FALSE]]
    /\ UNCHANGED <<registryVars, markVars, bookVars, rowVars, pos, clamped, marked, outbox>>

\* Slip: a redemption that already ended is settled.
SettlesAnything(r) == red[r] # "completed"
\* Redemption::settle: only a queued one.
Settles(r) == red[r] = "queued"

\* reduce_cost_basis: pro rata over the projected units, truncated.
ReduceCostBasis(p, n) == [units |-> p.units - n, basis |-> (p.basis * (p.units - n)) \div p.units]

\* The row is read again under its lock; a projection behind the ledger refuses.
SettleRedemption(d) ==
    LET r == desk[d].op
        u == RedOf[r].user
        n == RedOf[r].units
    IN  /\ desk[d].at = "settle"
        /\ desk' = [desk EXCEPT ![d] = Desk]
        /\ IF Settles(r) /\ pos[u].units >= n
           THEN /\ red' = [red EXCEPT ![r] = "completed"]
                /\ redCash' = [redCash EXCEPT ![r] = n * desk[d].price]
                /\ pos' = [pos EXCEPT ![u] = ReduceCostBasis(@, n)]
                /\ Append1("settled", r)
           ELSE UNCHANGED <<red, redCash, pos, outbox>>
        /\ UNCHANGED <<registryVars, markVars, bookVars, bought, issued, dueRow, paidFees, clamped, marked>>

EndRedemption(r, to) ==
    /\ red[r] = "queued"
    /\ red' = [red EXCEPT ![r] = to]
    /\ Append1(to, r)
    /\ UNCHANGED <<registryVars, markVars, bookVars, bought, redCash, issued, dueRow, paidFees, pos, clamped, marked, desk>>
CancelRedemption(r) == EndRedemption(r, "cancelled")
FailRedemption(r) == EndRedemption(r, "failed")

DeskGivesUp(d) ==
    /\ desk[d].at \in {"subscribe", "issue", "request", "tosettle", "settle", "value", "charge", "fees"}
    /\ desk' = [desk EXCEPT ![d] = Desk]
    /\ UNCHANGED <<registryVars, markVars, bookVars, rowVars, pos, clamped, marked, outbox>>

-----------------------------------------------------------------------------
(***************************************************************************)
(* Fees in units: the charge on a position and the settling of the class.  *)
(***************************************************************************)
\* The accrual clock of a holder's position: each charge moves it.
AccrualClock(u) == Cardinality({k \in dueRow : DueOf[k].user = u})

\* What may be taken is what the ledger has free; the position is not asked.
ChargeReads(d, k) ==
    /\ desk[d].at = "idle" /\ k \notin dueRow /\ MayDeal
    /\ FreeUnits(DueOf[k].user) >= DueOf[k].units
    /\ desk' = [desk EXCEPT ![d] = [at |-> "charge", op |-> k, price |-> AccrualClock(DueOf[k].user), covered |-> FALSE]]
    /\ UNCHANGED <<registryVars, markVars, bookVars, rowVars, pos, clamped, marked, outbox>>

\* advance_position: the units projected fall by the charge, at most to zero.
ClampedLess(n, m) == IF n >= m THEN n - m ELSE 0

\* charge: the row, the position and the event under the position's lock, unless
\* its clock has moved since it was read.
ChargeUnits(d) ==
    LET k == desk[d].op
        u == DueOf[k].user
    IN  /\ desk[d].at = "charge"
        /\ desk' = [desk EXCEPT ![d] = Desk]
        /\ IF k \notin dueRow /\ AccrualClock(u) = desk[d].price
           THEN /\ dueRow' = dueRow \union {k}
                /\ pos' = [pos EXCEPT ![u].units = ClampedLess(@, DueOf[k].units)]
                /\ clamped' = clamped \union {v \in {u} : pos[v].units < DueOf[k].units}
                /\ Append1("charged", k)
           ELSE UNCHANGED <<dueRow, pos, clamped, outbox>>
        /\ UNCHANGED <<registryVars, markVars, bookVars, bought, red, redCash, issued, paidFees, marked>>

QueuedRedemptionCash(price) ==
    MapThenSumSet(LAMBDA r : RedOf[r].units * price, {r \in Reds : red[r] = "queued"})

SettleFeesReads(d, p) ==
    /\ desk[d].at = "idle" /\ paidFees[p] = 0
    /\ PayoutUnits[p] <= fee /\ MayDeal
    /\ fund >= PayoutUnits[p] * DealingNav + QueuedRedemptionCash(DealingNav)
    /\ desk' = [desk EXCEPT ![d] = [at |-> "fees", op |-> p, price |-> DealingNav, covered |-> TRUE]]
    /\ UNCHANGED <<registryVars, markVars, bookVars, rowVars, pos, clamped, marked, outbox>>

SettleFees(d) ==
    LET p == desk[d].op
    IN  /\ desk[d].at = "fees" /\ paidFees[p] = 0
        /\ desk' = [desk EXCEPT ![d] = Desk]
        /\ paidFees' = [paidFees EXCEPT ![p] = PayoutUnits[p] * desk[d].price]
        /\ Append1("fees_settled", p)
        /\ UNCHANGED <<registryVars, markVars, bookVars, bought, red, redCash, issued, dueRow, pos, clamped, marked>>

-----------------------------------------------------------------------------
(***************************************************************************)
(* The relay.                                                              *)
(***************************************************************************)

\* plan_subscription, plan_issuance, plan_redemption, plan_fee.
PlanShares(e) ==
    CASE e.kind = "subscribed" -> <<"cash", "mint">>
      [] e.kind = "issued" -> IF IssueOf[e.id].source = "mint" THEN <<"issue">> ELSE <<"retire">>
      [] e.kind = "requested" -> <<"reserve">>
      [] e.kind = "settled" -> <<"burn", "payout">>
      [] e.kind \in {"failed", "cancelled"} -> <<"void">>
      [] e.kind = "charged" -> <<"clawback">>
      [] e.kind = "fees_settled" -> <<"fee_burn", "fee_payout">>

NextEvent(i) == i \in Queued({"subscribed", "issued", "requested", "settled", "failed", "cancelled", "charged", "fees_settled"})
                /\ \A j \in 1..(i - 1) : outbox[j].st # "queued"
LegOf(i) == LET e == outbox[i]
                undone == {k \in DOMAIN PlanShares(e) : <<e.id, PlanShares(e)[k]>> \notin legsDone}
            IN  IF undone = {} THEN 0 ELSE Min(undone)
StampEvent(i, st) == outbox' = [outbox EXCEPT ![i].st = st]

\* What a leg asks of the ledger: whom it debits and whether it is covered.
Covered(leg, id) ==
    CASE leg = "cash" -> cash[SubOf[id].user] >= SubOf[id].cash
      [] leg = "retire" -> FreeUnits(IssueOf[id].user) >= IssueOf[id].units
      [] leg = "reserve" -> FreeUnits(RedOf[id].user) >= RedOf[id].units
      [] leg = "payout" -> fund >= redCash[id]
      [] leg = "clawback" -> FreeUnits(DueOf[id].user) >= DueOf[id].units
      [] leg = "fee_burn" -> fee >= PayoutUnits[id]
      [] leg = "fee_payout" -> fund >= paidFees[id]
      [] OTHER -> TRUE
\* Pending burns a completion needs; posted or voided ones answer as done.
FoundPending(leg, id) == leg \in {"burn", "void"} => burn[id] # "none"
\* The liquidity pre-check parks a payout before any of its legs.
Liquid(i) ==
    LET e == outbox[i]
    IN  CASE e.kind = "settled" -> <<e.id, "payout">> \in legsDone \/ Covered("payout", e.id)
          [] e.kind = "fees_settled" -> <<e.id, "fee_payout">> \in legsDone \/ Covered("fee_payout", e.id)
          [] OTHER -> TRUE

\* What a leg does once the ledger takes it.
Move(leg, id) ==
    /\ cash' = CASE leg = "cash" -> [cash EXCEPT ![SubOf[id].user] = @ - SubOf[id].cash]
                 [] leg = "payout" -> [cash EXCEPT ![RedOf[id].user] = @ + redCash[id]]
                 [] OTHER -> cash
    /\ fund' = CASE leg = "cash" -> fund + SubOf[id].cash
                 [] leg = "payout" -> fund - redCash[id]
                 [] leg = "fee_payout" -> fund - paidFees[id]
                 [] OTHER -> fund
    /\ units' = CASE leg = "mint" -> [units EXCEPT ![SubOf[id].user] = @ + bought[id]]
                  [] leg = "issue" -> [units EXCEPT ![IssueOf[id].user] = @ + IssueOf[id].units]
                  [] leg = "retire" -> [units EXCEPT ![IssueOf[id].user] = @ - IssueOf[id].units]
                  [] leg = "burn" /\ burn[id] = "pending" -> [units EXCEPT ![RedOf[id].user] = @ - RedOf[id].units]
                  [] leg = "clawback" -> [units EXCEPT ![DueOf[id].user] = @ - DueOf[id].units]
                  [] OTHER -> units
    /\ fee' = CASE leg = "clawback" -> fee + DueOf[id].units
                [] leg = "fee_burn" -> fee - PayoutUnits[id]
                [] OTHER -> fee
    /\ burn' = CASE leg = "reserve" -> [burn EXCEPT ![id] = "pending"]
                 [] leg = "burn" /\ burn[id] = "pending" -> [burn EXCEPT ![id] = "posted"]
                 [] leg = "void" /\ burn[id] = "pending" -> [burn EXCEPT ![id] = "void"]
                 [] OTHER -> burn

RelayLegMoves(i) ==
    LET e == outbox[i]
        leg == PlanShares(e)[LegOf(i)]
    IN  /\ NextEvent(i) /\ LegOf(i) # 0 /\ Liquid(i)
        /\ Covered(leg, e.id) /\ FoundPending(leg, e.id)
        /\ Move(leg, e.id)
        /\ legsDone' = legsDone \union {<<e.id, leg>>}
        /\ UNCHANGED <<registryVars, markVars, rowVars, pos, clamped, marked, outbox, desk>>

\* Short, refused, or a completion whose pending transfer never came.
RelayParks(i) ==
    LET e == outbox[i]
        leg == PlanShares(e)[LegOf(i)]
    IN  /\ NextEvent(i) /\ LegOf(i) # 0
        /\ ~Liquid(i) \/ ~Covered(leg, e.id) \/ ~FoundPending(leg, e.id)
        /\ StampEvent(i, "parked")
        /\ UNCHANGED <<registryVars, markVars, bookVars, rowVars, pos, clamped, marked, desk>>

Basis(e) == IF e.kind = "subscribed" THEN SubOf[e.id].cash ELSE IssueOf[e.id].basis
Added(e) == IF e.kind = "subscribed" THEN bought[e.id] ELSE IssueOf[e.id].units
Retired(p, n) ==
    [units |-> IF p.units > n THEN p.units - n ELSE 0,
     basis |-> IF p.units > n THEN (p.basis * (p.units - n)) \div p.units ELSE 0]
ProjectHolderPosition(p, e) ==
    IF e.kind = "issued" /\ IssueOf[e.id].source = "retire"
    THEN Retired(p, Added(e))
    ELSE [units |-> p.units + Added(e), basis |-> p.basis + Basis(e)]

\* project_subscription, project_issuance: the marker and the position in one transaction.
Project(e) ==
    IF e.kind \notin {"subscribed", "issued"} \/ e.id \in marked
    THEN UNCHANGED <<pos, clamped, marked, issued>>
    ELSE /\ pos' = [pos EXCEPT ![IF e.kind = "subscribed" THEN SubOf[e.id].user ELSE IssueOf[e.id].user] =
                         ProjectHolderPosition(@, e)]
         /\ clamped' = clamped \union {u \in Investors : /\ e.kind = "issued" /\ IssueOf[e.id].source = "retire"
                                                        /\ u = IssueOf[e.id].user /\ pos[u].units < IssueOf[e.id].units}
         /\ marked' = marked \union {e.id}
         /\ issued' = IF e.kind = "issued" THEN [issued EXCEPT ![e.id] = "applied"] ELSE issued

\* Every leg applied: project, then stamp; the stamp may be lost.
RelayFinishes(i) ==
    /\ NextEvent(i) /\ LegOf(i) = 0
    /\ Project(outbox[i])
    /\ StampEvent(i, "done") \/ ("lost" \in ShareFaults /\ UNCHANGED outbox)
    /\ UNCHANGED <<registryVars, markVars, bookVars, bought, red, redCash, dueRow, paidFees, desk>>

UnparkEvent(i) ==
    /\ "unpark" \in ShareFaults
    /\ i \in DOMAIN outbox /\ outbox[i].st = "parked"
    /\ StampEvent(i, "queued")
    /\ UNCHANGED <<registryVars, markVars, bookVars, rowVars, pos, clamped, marked, desk>>

\* Money of other flows comes to the fund.
FundTopUp ==
    /\ "other" \in ShareFaults /\ fund = 0
    /\ fund' = StartFund + 1
    /\ UNCHANGED <<registryVars, markVars, cash, units, fee, burn, legsDone, rowVars, pos, clamped, marked, outbox, desk>>

SharesRelay == \E i \in DOMAIN outbox : RelayLegMoves(i) \/ RelayParks(i) \/ RelayFinishes(i)

SharesNext ==
    \/ OpenProduct \/ CloseProduct
    \/ \E a \in AllocationAccesses : SetAccess(a)
    \/ \E c \in UnitCaps : SetUnitCap(c)
    \/ \E b \in {"cash", "in_kind"} : SetBacking(b)
    \/ \E u \in Investors : GrantAccess(u) \/ RevokeAccess(u)
    \/ \E d \in Desks :
        \/ \E a \in Aums, u \in Investors : PostValuationReads(d, a, u)
        \/ RecordValuation(d)
        \/ \E s \in Subs : SubscribeReads(d, s)
        \/ OpenSubscription(d)
        \/ \E i \in Issues : MintReads(d, i) \/ \E f \in BOOLEAN : RetireReads(d, i, f)
        \/ Issue(d)
        \/ \E r \in Reds : RequestReads(d, r) \/ SettleReads(d, r)
        \/ OpenRedemption(d) \/ SettleRedemption(d)
        \/ \E p \in Payouts : SettleFeesReads(d, p)
        \/ \E k \in Dues : ChargeReads(d, k)
        \/ ChargeUnits(d) \/ SettleFees(d) \/ DeskGivesUp(d)
    \/ MarkAges
    \/ \E r \in Reds : CancelRedemption(r) \/ FailRedemption(r)
    \/ SharesRelay
    \/ \E i \in DOMAIN outbox : UnparkEvent(i)
    \/ FundTopUp

SharesSpec == SharesInit /\ [][SharesNext]_sharesVars

-----------------------------------------------------------------------------
(***************************************************************************)
(* Properties.                                                             *)
(***************************************************************************)
\* The rows, the ledger and the registers hold values of their types; no
\* balance, position or supply is ever negative.
SharesTypeOK ==
    /\ product.state \in AllocationStates /\ product.access \in AllocationAccesses
    /\ \A u \in Investors : cash[u] >= 0 /\ FreeUnits(u) >= 0 /\ pos[u].units >= 0 /\ pos[u].basis >= 0
    /\ fund >= 0 /\ fee >= 0
    /\ red \in [Reds -> RedemptionStates]
    /\ burn \in [Reds -> {"none", "pending", "posted", "void"}]
    /\ issued \in [Issues -> {"none", "queued", "applied"}]
    /\ marked \subseteq Subs \union Issues

\* A redemption is paid only once its units are burned, and a voided burn is
\* never followed by a payout: the ledger answers a settle of a voided burn
\* as if it had been applied, so only the row's state stands in the way.
PaidIsBurned ==
    \A r \in Reds : <<r, "payout">> \in legsDone => burn[r] = "posted" /\ red[r] = "completed"

\* No unit of a subscription exists before its cash is with the fund, however
\* the relay stops between the two legs.
NoUnitsUnpaid == \A s \in Subs : <<s, "mint">> \in legsDone => <<s, "cash">> \in legsDone

\* One idempotency key issues or retires units once, whoever races on it.
KeyIssuesOnce ==
    \A i, j \in Issues :
        IssueOf[i].key = IssueOf[j].key /\ i # j => ~(issued[i] # "none" /\ issued[j] # "none")

\* Events that change both a position and the ledger, not all of which is done.
Unsettled == {i \in DOMAIN outbox : outbox[i].st # "done" /\ outbox[i].kind \in {"subscribed", "issued", "settled", "charged"}}

\* Once nothing that moves units is left to do, the projection of a holder is not
\* short of the ledger, and is exactly the ledger's unless a charge or a retirement
\* that overtook the projection of a mint was clamped at zero: each event was
\* projected exactly once, also when the relay stopped between a leg, the
\* projection and its stamp.
ProjectionFollowsLedger ==
    Unsettled = {} => \A u \in Investors : pos[u].units >= units[u] /\ (u \notin clamped => pos[u].units = units[u])

\* A holder without units has no cost basis left, and the basis never grows
\* past what was paid for units.
BasisFollowsUnits ==
    \A u \in Investors :
        /\ pos[u].basis <= StartUnits[u] + MapThenSumSet(LAMBDA s : SubOf[s].cash, {s \in Subs : SubOf[s].user = u})
                           + MapThenSumSet(LAMBDA i : IssueOf[i].basis, {i \in Issues : IssueOf[i].user = u})
        /\ pos[u].units = 0 /\ dueRow = {} => pos[u].basis = 0

\* The units of an ended redemption are free again or gone: with its events
\* delivered, no burn stays pending behind a redemption that is over.
EndedHoldsNothing ==
    \A r \in Reds :
        (red[r] \in {"completed", "failed", "cancelled"} /\ \A i \in DOMAIN outbox : outbox[i].id = r => outbox[i].st = "done")
            => burn[r] = (IF red[r] = "completed" THEN "posted" ELSE "void")

\* Units and cash are exchanged whole: paid units are burned, minted units are paid, a key
\* issues once, and the projected position follows the ledger.
UnitsMatchCash ==
    /\ PaidIsBurned /\ NoUnitsUnpaid /\ KeyIssuesOnce /\ EndedHoldsNothing
    /\ ProjectionFollowsLedger /\ BasisFollowsUnits
=============================================================================
