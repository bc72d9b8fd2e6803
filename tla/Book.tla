-------------------------------- MODULE Book --------------------------------
(***************************************************************************)
(* The order book of one product.  An order is checked against balances    *)
(* read unlocked, then matched by price and time under the book's lock and *)
(* recorded with its fills in one transaction; the relay escrows, settles  *)
(* and releases on the ledger afterwards, and takes an order the ledger    *)
(* would not escrow off the book.  Subscribers are woken by revision.      *)
(***************************************************************************)
EXTENDS Integers, FiniteSets, Sequences, FiniteSetsExt
LOCAL INSTANCE SequencesExt

CONSTANTS
    Traders,
    Orders,       \* order requests, each with its client order id
    OrderOf,      \* [Orders -> [user, side, kind, tif, price, size]]
    FeePct,       \* taker fee in percent
    SlipPct,      \* market slippage in percent
    StartClaim, StartHeld,   \* [Traders -> Nat]
    Placers,      \* requests in flight at once
    Watchers,     \* WatchBook subscribers
    BookFaults    \* subset of {"lost", "close", "spend"}

VARIABLES
    bookOpen,     \* book_open of the policy
    ord,          \* book_orders
    trades,       \* book_trades, in order
    claim, escrow,       \* UserClaim, BookCash
    freeUnits, escrowUnits,   \* UserShares, BookShares
    venueFees,    \* what the fee payee received
    applied,      \* ledger transfers created
    tpos,         \* units of fund_positions
    projected,    \* saga_steps rows of leg 100
    queue,        \* the book's outbox rows: [kind, id, st]
    toReject,     \* orders whose lock parked, mark_rejected still to run
    revision,     \* book_revisions
    placer,       \* registers of the requests
    told,         \* revisions announced through BookFeed
    watch         \* [Watchers -> [woken, saw]]

orderVars  == <<bookOpen, ord, trades>>
escrowVars == <<claim, escrow, freeUnits, escrowUnits, venueFees, applied>>
feedVars   == <<told, watch>>
bookAll == <<orderVars, escrowVars, tpos, projected, queue, toReject, revision, placer, feedVars>>

OrderStates == {"none", "open", "partially_filled", "filled", "cancelled", "rejected"}
IsResting(o) == ord[o].state \in {"open", "partially_filled"}
Opposite(side) == IF side = "buy" THEN "sell" ELSE "buy"
NoOrder == [state |-> "none", filled |-> 0, notional |-> 0, paid |-> 0, reserved |-> 0, price |-> 0, seq |-> 0]
IdlePlacer == [at |-> "idle", o |-> "none", price |-> 0, reserved |-> 0, resting |-> <<>>, rev |-> 0]

BookInitWith(state) ==
    /\ bookOpen = state
    /\ ord = [o \in Orders |-> NoOrder] /\ trades = <<>>
    /\ claim = StartClaim /\ escrow = [u \in Traders |-> 0]
    /\ freeUnits = StartHeld /\ escrowUnits = [u \in Traders |-> 0]
    /\ venueFees = 0 /\ applied = {} /\ tpos = StartHeld /\ projected = {}
    /\ queue = <<>> /\ toReject = {} /\ revision = 0
    /\ placer = [p \in Placers |-> IdlePlacer]
    /\ told = {} /\ watch = [w \in Watchers |-> [woken |-> TRUE, saw |-> 0]]
BookInit == BookInitWith(TRUE)

-----------------------------------------------------------------------------
(***************************************************************************)
(* The policy and the order.                                               *)
(***************************************************************************)
EnsureTradable == bookOpen
TakerFee(notional) == (notional * FeePct) \div 100
BuyReserve(size, price) == price * size + TakerFee(price * size)
\* The worst price a market order takes, rounded outwards to the tick.
MarketLimit(side, best) ==
    IF side = "buy" THEN (best * (100 + SlipPct) + 99) \div 100 ELSE (best * (100 - SlipPct)) \div 100
Resting(side) == {o \in Orders : IsResting(o) /\ OrderOf[o].side = side}
BestPrice(side) == LET ps == {ord[o].price : o \in Resting(side)}
                   IN  IF side = "buy" THEN Max(ps) ELSE Min(ps)
Left(o) == OrderOf[o].size - ord[o].filled

\* Order::fill
FillOrder(r, o, size, price, paid) ==
    [r EXCEPT !.filled = @ + size, !.notional = @ + price * size, !.paid = @ + paid,
              !.state = IF r.filled + size = OrderOf[o].size THEN "filled" ELSE "partially_filled"]
\* Slip: the taker's fee is given back with the rest.
ReleaseWithFee(o, r) ==
    IF OrderOf[o].side = "sell" THEN r.reserved - r.filled ELSE r.reserved - r.notional
\* Order::release: what an order that is over has left of its escrow.
ReleaseOf(o, r) ==
    IF OrderOf[o].side = "sell" THEN r.reserved - r.filled ELSE r.reserved - r.notional - r.paid
Releases(o, r) == r.state \in {"filled", "cancelled"} /\ ReleaseOf(o, r) > 0

-----------------------------------------------------------------------------
(***************************************************************************)
(* Matching: PriceTimeEngine over the opposite side, best first.           *)
(***************************************************************************)
Crosses(side, limit, price) == IF side = "buy" THEN price <= limit ELSE price >= limit

\* Slip: newest first at one price.
BetterByAge(a, b) ==
    \/ ord[a].price # ord[b].price /\ (IF OrderOf[a].side = "sell" THEN ord[a].price < ord[b].price
                                                                  ELSE ord[a].price > ord[b].price)
    \/ ord[a].price = ord[b].price /\ ord[a].seq > ord[b].seq
\* ORDER BY price, seq of the crossing select.
Better(a, b) ==
    \/ ord[a].price # ord[b].price /\ (IF OrderOf[a].side = "sell" THEN ord[a].price < ord[b].price
                                                                  ELSE ord[a].price > ord[b].price)
    \/ ord[a].price = ord[b].price /\ ord[a].seq < ord[b].seq

SelectCrossing(side, limit) ==
    SetToSortSeq({o \in Resting(Opposite(side)) : Crosses(side, limit, ord[o].price)}, Better)

\* Fills in order until nothing remains; own orders and post-only reject it all.
MatchOrder(o, limit, resting) ==
    LET take(acc, m) ==
            IF acc.left = 0 \/ acc.no # "none" THEN acc
            ELSE IF OrderOf[m].user = OrderOf[o].user THEN [acc EXCEPT !.no = "self_trade"]
            ELSE IF OrderOf[o].tif = "alo" THEN [acc EXCEPT !.no = "would_cross"]
            ELSE LET n == IF acc.left < Left(m) THEN acc.left ELSE Left(m)
                 IN  [acc EXCEPT !.left = @ - n, !.fills = Append(@, [maker |-> m, price |-> ord[m].price, size |-> n])]
    IN  FoldLeft(take, [left |-> OrderOf[o].size, no |-> "none", fills |-> <<>>], resting)

-----------------------------------------------------------------------------
(***************************************************************************)
(* Placing and cancelling.                                                 *)
(***************************************************************************)
\* Debits of the trader's claim the relay has still to apply.
UnappliedBids(u) ==
    MapThenSumSet(LAMBDA i : ord[queue[i].id].reserved,
        {i \in DOMAIN queue : /\ queue[i].kind = "placed" /\ queue[i].st # "done"
                              /\ queue[i].id \in Orders /\ OrderOf[queue[i].id].side = "buy"
                              /\ OrderOf[queue[i].id].user = u /\ <<"lock", queue[i].id>> \notin applied})
SpendableClaim(u) == claim[u] - UnappliedBids(u)

\* place_order up to the transaction: everything is read unlocked.
PlaceOrder(p, o) ==
    LET q == OrderOf[o]
        price == IF q.kind = "market" THEN MarketLimit(q.side, BestPrice(Opposite(q.side))) ELSE q.price
        reserve == IF q.side = "sell" THEN q.size ELSE BuyReserve(q.size, price)
    IN  /\ placer[p].at = "idle" /\ ord[o].state = "none"
        /\ EnsureTradable
        /\ q.kind = "market" => Resting(Opposite(q.side)) # {}
        /\ price > 0
        /\ IF q.side = "sell" THEN freeUnits[q.user] >= q.size ELSE SpendableClaim(q.user) >= reserve
        /\ placer' = [placer EXCEPT ![p] = [IdlePlacer EXCEPT !.at = "asks", !.o = o, !.price = price, !.reserved = reserve]]
        /\ UNCHANGED <<orderVars, escrowVars, tpos, projected, queue, toReject, revision, feedVars>>

BookLocked == \E p \in Placers : placer[p].at = "locked"

\* Under the book's lock: client id, claim guard, the crossing orders.
PlaceLocks(p) ==
    LET o == placer[p].o
        q == OrderOf[o]
        ok == ord[o].state = "none" /\ (q.side = "buy" => SpendableClaim(q.user) >= placer[p].reserved)
    IN  /\ placer[p].at = "asks" /\ ~BookLocked
        /\ placer' = [placer EXCEPT ![p] =
               IF ok /\ MatchOrder(o, placer[p].price, SelectCrossing(q.side, placer[p].price)).no = "none"
               THEN [@ EXCEPT !.at = "locked", !.resting = SelectCrossing(q.side, placer[p].price)]
               ELSE IdlePlacer]
        /\ UNCHANGED <<orderVars, escrowVars, tpos, projected, queue, toReject, revision, feedVars>>

TradeOf(o, f) ==
    [taker |-> o, maker |-> f.maker, size |-> f.size, price |-> f.price, fee |-> TakerFee(f.price * f.size),
     buy |-> IF OrderOf[o].side = "buy" THEN o ELSE f.maker, sell |-> IF OrderOf[o].side = "sell" THEN o ELSE f.maker]
ReleaseRow(o, r) == IF Releases(o, r) THEN <<[kind |-> "released", id |-> o, st |-> "queued"]>> ELSE <<>>

Rests(o, left) == left > 0 /\ OrderOf[o].tif # "ioc"

\* One fill after the other, each maker locked as it is: one the relay has
\* rejected meanwhile fails the whole placement.
PlaceCommits(p) ==
    LET o == placer[p].o
        m == MatchOrder(o, placer[p].price, placer[p].resting)
        fresh == [NoOrder EXCEPT !.state = "open", !.reserved = placer[p].reserved, !.price = placer[p].price,
                                 !.seq = revision + 1]
        makers == [f \in {m.fills[i].maker : i \in DOMAIN m.fills} |->
                      LET fill == CHOOSE x \in {m.fills[i] : i \in DOMAIN m.fills} : x.maker = f
                      IN  FillOrder(ord[f], f, fill.size, fill.price, 0)]
        takerDone == FoldLeft(LAMBDA r, f : FillOrder(r, o, f.size, f.price, TakerFee(f.price * f.size)), fresh, m.fills)
        taker == IF ~Rests(o, m.left) /\ takerDone.state \in {"open", "partially_filled"}
                 THEN [takerDone EXCEPT !.state = "cancelled"] ELSE takerDone
        ts == [i \in DOMAIN m.fills |-> TradeOf(o, m.fills[i])]
        fillRows == FoldLeft(LAMBDA acc, i : acc \o <<[kind |-> "traded", id |-> Len(trades) + i, st |-> "queued"]>>
                                                 \o ReleaseRow(m.fills[i].maker, makers[m.fills[i].maker]),
                             <<>>, [i \in DOMAIN m.fills |-> i])
    IN  /\ placer[p].at = "locked"
        /\ IF \E i \in DOMAIN placer[p].resting : ~IsResting(placer[p].resting[i]) /\
                 \E k \in DOMAIN m.fills : m.fills[k].maker = placer[p].resting[i]
           THEN placer' = [placer EXCEPT ![p] = IdlePlacer] /\ UNCHANGED <<ord, trades, queue, revision>>
           ELSE /\ ord' = [x \in DOMAIN ord |-> IF x = o THEN taker ELSE IF x \in DOMAIN makers THEN makers[x] ELSE ord[x]]
                /\ trades' = trades \o ts
                /\ queue' = queue \o <<[kind |-> "placed", id |-> o, st |-> "queued"]>> \o fillRows \o ReleaseRow(o, taker)
                /\ revision' = revision + 1
                /\ placer' = [placer EXCEPT ![p] = [IdlePlacer EXCEPT !.at = "publish", !.rev = revision + 1]]
        /\ UNCHANGED <<bookOpen, escrowVars, tpos, projected, toReject, feedVars>>

CancelOrder(p, o) ==
    /\ placer[p].at = "idle" /\ ~BookLocked /\ IsResting(o)
    /\ ord' = [ord EXCEPT ![o].state = "cancelled"]
    /\ queue' = queue \o ReleaseRow(o, [ord[o] EXCEPT !.state = "cancelled"])
    /\ revision' = revision + 1
    /\ placer' = [placer EXCEPT ![p] = [IdlePlacer EXCEPT !.at = "publish", !.rev = revision + 1]]
    /\ UNCHANGED <<bookOpen, trades, escrowVars, tpos, projected, toReject, feedVars>>

SetPolicy ==
    /\ "close" \in BookFaults
    /\ bookOpen' = ~bookOpen
    /\ UNCHANGED <<ord, trades, escrowVars, tpos, projected, queue, toReject, revision, placer, feedVars>>

\* BookFeed: a subscriber is woken by every announcement, whatever its number.
Publish(p) ==
    /\ placer[p].at = "publish"
    /\ told' = told \union {placer[p].rev}
    /\ watch' = [w \in DOMAIN watch |-> [watch[w] EXCEPT !.woken = TRUE]]
    /\ placer' = [placer EXCEPT ![p] = IdlePlacer]
    /\ UNCHANGED <<orderVars, escrowVars, tpos, projected, queue, toReject, revision>>

\* next_frame: the mark is cleared, then the book is read.
NextFrame(w) ==
    /\ watch[w].woken
    /\ watch' = [watch EXCEPT ![w] = [woken |-> FALSE, saw |-> revision]]
    /\ UNCHANGED <<orderVars, escrowVars, tpos, projected, queue, toReject, revision, placer, told>>

-----------------------------------------------------------------------------
(***************************************************************************)
(* The relay.                                                              *)
(***************************************************************************)
Head1(i) == i \in DOMAIN queue /\ queue[i].st = "queued" /\ \A j \in 1..(i - 1) : queue[j].st # "queued"
StampRow(i, st) == queue' = [queue EXCEPT ![i].st = st]
Buyer(t) == OrderOf[t.buy].user
Seller(t) == OrderOf[t.sell].user

\* plan_book: the lock, the linked fill, the release.
BookCovered(e) ==
    CASE e.kind = "placed" -> IF OrderOf[e.id].side = "sell" THEN freeUnits[OrderOf[e.id].user] >= ord[e.id].reserved
                              ELSE claim[OrderOf[e.id].user] >= ord[e.id].reserved
      [] e.kind = "released" -> IF OrderOf[e.id].side = "sell" THEN escrowUnits[OrderOf[e.id].user] >= ReleaseOf(e.id, ord[e.id])
                                ELSE escrow[OrderOf[e.id].user] >= ReleaseOf(e.id, ord[e.id])
      [] e.kind = "traded" ->
            LET t == trades[e.id]
                n == t.price * t.size
                byBuyer == OrderOf[t.taker].side = "buy"
            IN  /\ escrowUnits[Seller(t)] >= t.size
                /\ escrow[Buyer(t)] >= n + (IF byBuyer THEN t.fee ELSE 0)
                /\ ~byBuyer => claim[Seller(t)] + n >= t.fee

LockLeg(o) ==
    LET u == OrderOf[o].user IN
    IF OrderOf[o].side = "sell"
    THEN /\ freeUnits' = [freeUnits EXCEPT ![u] = @ - ord[o].reserved]
         /\ escrowUnits' = [escrowUnits EXCEPT ![u] = @ + ord[o].reserved]
         /\ UNCHANGED <<claim, escrow, venueFees>>
    ELSE /\ claim' = [claim EXCEPT ![u] = @ - ord[o].reserved]
         /\ escrow' = [escrow EXCEPT ![u] = @ + ord[o].reserved]
         /\ UNCHANGED <<freeUnits, escrowUnits, venueFees>>
ReleaseLeg(o) ==
    LET u == OrderOf[o].user
        n == ReleaseOf(o, ord[o])
    IN  IF OrderOf[o].side = "sell"
        THEN /\ freeUnits' = [freeUnits EXCEPT ![u] = @ + n] /\ escrowUnits' = [escrowUnits EXCEPT ![u] = @ - n]
             /\ UNCHANGED <<claim, escrow, venueFees>>
        ELSE /\ claim' = [claim EXCEPT ![u] = @ + n] /\ escrow' = [escrow EXCEPT ![u] = @ - n]
             /\ UNCHANGED <<freeUnits, escrowUnits, venueFees>>
FillLegs(t) ==
    LET n == t.price * t.size
        byBuyer == OrderOf[t.taker].side = "buy"
    IN  /\ freeUnits' = [freeUnits EXCEPT ![Buyer(t)] = @ + t.size]
        /\ escrowUnits' = [escrowUnits EXCEPT ![Seller(t)] = @ - t.size]
        /\ escrow' = [escrow EXCEPT ![Buyer(t)] = @ - n - (IF byBuyer THEN t.fee ELSE 0)]
        /\ claim' = [claim EXCEPT ![Seller(t)] = @ + n - (IF byBuyer THEN 0 ELSE t.fee)]
        /\ venueFees' = venueFees + t.fee

LegName(e) == CASE e.kind = "placed" -> "lock" [] e.kind = "released" -> "release" [] e.kind = "traded" -> "fill"

RelayBook(i) ==
    LET e == queue[i]
    IN  /\ Head1(i) /\ <<LegName(e), e.id>> \notin applied /\ BookCovered(e)
        /\ CASE e.kind = "placed" -> LockLeg(e.id)
             [] e.kind = "released" -> ReleaseLeg(e.id)
             [] e.kind = "traded" -> FillLegs(trades[e.id])
        /\ applied' = applied \union {<<LegName(e), e.id>>}
        /\ UNCHANGED <<orderVars, tpos, projected, queue, toReject, revision, placer, feedVars>>

\* project_trade: both positions move with the marker; a seller never below zero.
ProjectTrade(i) ==
    LET t == trades[queue[i].id]
        sold == IF tpos[Seller(t)] > t.size THEN tpos[Seller(t)] - t.size ELSE 0
    IN  IF queue[i].id \in projected THEN UNCHANGED <<tpos, projected>>
        ELSE /\ tpos' = [u \in Traders |-> IF u = Buyer(t) THEN tpos[u] + t.size
                                         ELSE IF u = Seller(t) THEN sold ELSE tpos[u]]
             /\ projected' = projected \union {queue[i].id}

RelayStamps(i) ==
    /\ Head1(i) /\ <<LegName(queue[i]), queue[i].id>> \in applied
    /\ IF queue[i].kind = "traded" THEN ProjectTrade(i) ELSE UNCHANGED <<tpos, projected>>
    /\ StampRow(i, "done") \/ ("lost" \in BookFaults /\ UNCHANGED queue)
    /\ UNCHANGED <<orderVars, escrowVars, toReject, revision, placer, feedVars>>

\* park: the stamp, then mark_rejected for an order whose lock was refused.
ParkBook(i) ==
    /\ Head1(i) /\ <<LegName(queue[i]), queue[i].id>> \notin applied /\ ~BookCovered(queue[i])
    /\ toReject = {}
    /\ StampRow(i, "parked")
    /\ toReject' = IF queue[i].kind = "placed" THEN {queue[i].id} ELSE {}
    /\ UNCHANGED <<orderVars, escrowVars, tpos, projected, revision, placer, feedVars>>

\* mark_rejected takes no book lock: it waits only for rows a placement holds.
\* The revision is bumped and nobody is told.
MarkRejected(o) ==
    /\ o \in toReject
    /\ toReject' = toReject \ {o}
    /\ IF IsResting(o)
       THEN ord' = [ord EXCEPT ![o].state = "rejected"] /\ revision' = revision + 1
       ELSE UNCHANGED <<ord, revision>>
    /\ UNCHANGED <<bookOpen, trades, escrowVars, tpos, projected, queue, placer, feedVars>>

\* The trader redeems the units that are free: a projection behind the ledger
\* refuses.
SpendElsewhere(u) ==
    /\ "spend" \in BookFaults /\ freeUnits[u] \in 1..tpos[u]
    /\ freeUnits' = [freeUnits EXCEPT ![u] = 0] /\ tpos' = [tpos EXCEPT ![u] = @ - freeUnits[u]]
    /\ UNCHANGED <<orderVars, claim, escrow, escrowUnits, venueFees, applied, projected, queue, toReject, revision, placer, feedVars>>

BookNext ==
    \/ \E p \in Placers, o \in Orders : PlaceOrder(p, o) \/ CancelOrder(p, o)
    \/ \E p \in Placers : PlaceLocks(p) \/ PlaceCommits(p) \/ Publish(p)
    \/ \E w \in Watchers : NextFrame(w)
    \/ \E i \in DOMAIN queue : (toReject = {} /\ (RelayBook(i) \/ RelayStamps(i))) \/ ParkBook(i)
    \/ \E o \in Orders : MarkRejected(o)
    \/ \E u \in Traders : SpendElsewhere(u)
    \/ SetPolicy

BookSpec == BookInit /\ [][BookNext]_bookAll

-----------------------------------------------------------------------------
(***************************************************************************)
(* Properties.                                                             *)
(***************************************************************************)
\* Orders, balances and registers hold values of their types; no balance and
\* no position is negative, no order is filled past its size.
BookTypeOK ==
    /\ \A o \in Orders : ord[o].state \in OrderStates /\ ord[o].filled \in 0..OrderOf[o].size
    /\ \A u \in Traders : claim[u] >= 0 /\ escrow[u] >= 0 /\ freeUnits[u] >= 0 /\ escrowUnits[u] >= 0 /\ tpos[u] >= 0
    /\ \A w \in Watchers : watch[w].saw \in 0..revision

\* The book is never crossed: whatever was placed, cancelled or rejected, no
\* resting bid meets a resting ask.
NeverCrossed == \A b \in Resting("buy"), s \in Resting("sell") : ord[b].price < ord[s].price

\* What a buyer's fills and fees cost never exceeds what the order reserved at
\* its limit, also with several makers and truncated fees: release never
\* underflows.
ReserveCoversFills == \A o \in Orders : ord[o].state # "none" => ReleaseOf(o, ord[o]) >= 0

\* Price before time: a trade never passes over a better resting order, nor an
\* older one at the same price.
PriorityKept ==
    [][\A i \in DOMAIN trades' : i \notin DOMAIN trades =>
          \A o \in Resting(OrderOf[trades'[i].maker].side) \ {trades'[i].maker} :
              LET m == trades'[i].maker
                  cheaper == IF OrderOf[m].side = "sell" THEN ord[o].price < ord[m].price ELSE ord[o].price > ord[m].price
                  older == ord[o].price = ord[m].price /\ ord[o].seq < ord[m].seq
              IN  cheaper \/ older => ord'[o].state = "filled"]_bookAll

Delivered(i) == queue[i].st = "done"
Owed(o) == IF OrderOf[o].side = "sell" THEN ord[o].reserved - ord[o].filled
           ELSE ord[o].reserved - ord[o].notional - ord[o].paid
RestingOf(u, side) == {o \in Resting(side) : OrderOf[o].user = u}

\* As long as no escrow was refused, every fill and every release finds its
\* money, and with all of them delivered a trader's escrow is exactly what the
\* trader's resting orders still need: no fee or rounding is left behind.
EscrowMatchesBook ==
    (\A i \in DOMAIN queue : queue[i].kind = "placed" => queue[i].st # "parked") =>
        /\ \A i \in DOMAIN queue : queue[i].st # "parked"
        /\ (\A i \in DOMAIN queue : Delivered(i)) =>
              \A u \in Traders :
                  /\ escrow[u] = MapThenSumSet(Owed, RestingOf(u, "buy"))
                  /\ escrowUnits[u] = MapThenSumSet(Owed, RestingOf(u, "sell"))

\* An order whose escrow the ledger refused is off the book once the relay has
\* dealt with it, however it raced the matcher.
RefusedIsOffTheBook ==
    \A i \in DOMAIN queue :
        queue[i].kind = "placed" /\ queue[i].st = "parked" /\ queue[i].id \notin toReject => ~IsResting(queue[i].id)

\* Once all trades are settled, the projected units of every trader are those
\* the ledger holds free and in escrow.
TradesProjectedOnce ==
    (\A i \in DOMAIN queue : Delivered(i)) => \A u \in Traders : tpos[u] = freeUnits[u] + escrowUnits[u]

\* A subscriber that is not woken has seen every placement and cancel that was
\* announced, in whatever order the announcements came.
WatcherSeesAnnounced == \A w \in Watchers : ~watch[w].woken => \A r \in told : watch[w].saw >= r

\* The book and its escrows agree: never crossed, every fill reserved, every release exact,
\* refused orders gone, trades projected once, watchers woken.
BookMatchesEscrow ==
    /\ NeverCrossed /\ ReserveCoversFills /\ EscrowMatchesBook /\ RefusedIsOffTheBook
    /\ TradesProjectedOnce /\ WatcherSeesAnnounced
=============================================================================
