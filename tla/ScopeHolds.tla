------------------------------ MODULE ScopeHolds ----------------------------
(***************************************************************************)
(* A client's holds on one user's compartment in one scope, under the      *)
(* mandates the user grants that client: Reserve, Capture, Void, the TTL,  *)
(* the user's revoke, Charge as the other draw on the mandate, and the     *)
(* relay that carries a hold's events to the ledger in outbox order.       *)
(*                                                                         *)
(* Transactions that read before they write and hold a lock in between     *)
(* (Reserve, Charge, a capture into another user's compartment, Revoke)    *)
(* are two steps; the others commit in one.                                *)
(***************************************************************************)
EXTENDS Integers, Sequences, FiniteSets, FiniteSetsExt

CONSTANTS
    Holds,        \* hold ids
    HoldAmount,   \* [Holds -> Nat \ {0}]
    HoldTtl,      \* [Holds -> BOOLEAN]: the Reserve named a ttl
    ChargeIds, ChargeAmount,
    Mandates,     \* mandate ids, granted at most once each
    Caps,         \* [Mandates -> [perOp, day, outstanding, fill : Nat, limited : BOOLEAN]]
    Callers,      \* concurrent requests that draw on the mandate
    Balance,      \* the compartment at the start
    HoldFaults    \* subset of {"foreign", "park", "unrecorded", "frozen"}

ASSUME HoldsAssumption ==
    /\ IsFiniteSet(Holds) /\ IsFiniteSet(ChargeIds) /\ Mandates # {}
    /\ HoldAmount \in [Holds -> Nat \ {0}] /\ HoldTtl \in [Holds -> BOOLEAN]
    /\ ChargeAmount \in [ChargeIds -> Nat \ {0}]
    /\ \A m \in Mandates :
        /\ Caps[m].perOp \in Nat \ {0} /\ Caps[m].day \in Nat /\ Caps[m].outstanding \in Nat
        /\ Caps[m].day >= Caps[m].perOp /\ Caps[m].outstanding >= Caps[m].perOp
        /\ Caps[m].fill \in Nat /\ Caps[m].limited \in BOOLEAN
    /\ Balance \in Nat

VARIABLES
    hstate, captured, version, standing,   \* scope_holds: state, captured, version, pending_version
    under,       \* [Holds -> Mandates]: mandate_id
    ttlPast,     \* holds whose own ttl is over
    clamp,       \* [Holds -> SUBSET Mandates]: mandates whose expiry bounds the hold's
    refusedAt,   \* holds with ledger_refused_at
    capRows,     \* scope_hold_captures, with fill set for the ones also in scope_book_fills
    charge,      \* [ChargeIds -> scope_charges.state]
    mandate,     \* [Mandates -> {"none", "current", "revoked", "replaced"}]
    lapsed,      \* mandates past their expiry
    aged,        \* holds, captures and charges recorded more than 24 hours ago
    frozen,      \* the scope is frozen or the user blocked
    task,        \* [Callers -> the transaction each caller has open]
    rows,        \* outbox rows of holds, by seq
    reserved,    \* [Holds -> reservations created, by version]
    voided,      \* [Holds -> reservations voided]
    taken,       \* [Holds -> [version -> amount]] of the captures posted
    free,        \* available in the compartment on the ledger
    ledgerNo,    \* holds whose reservation id the ledger refused
    feed         \* money events of each hold, in order

holdVars   == <<hstate, captured, version, standing, under, ttlPast, clamp, refusedAt, capRows>>
drawVars   == <<charge, mandate, lapsed, aged, frozen>>
booksVars  == <<reserved, voided, taken, free, ledgerNo>>
holdsVars  == <<holdVars, drawVars, booksVars, task, rows, feed>>

HoldStates == {"none", "active", "captured", "voided", "expired"}
NoTask == [kind |-> "idle"]
Idle(c) == task[c].kind = "idle"

\* The holds, charges and mandates of the sets are still to come; the others are past.
HoldsInitWith(live, charges, mandates) ==
    /\ hstate = [h \in Holds |-> IF h \in live THEN "none" ELSE "voided"]
    /\ captured = [h \in Holds |-> 0]
    /\ version = [h \in Holds |-> 0] /\ standing = [h \in Holds |-> 0]
    /\ under = [h \in Holds |-> CHOOSE m \in Mandates : TRUE]
    /\ ttlPast = {} /\ clamp = [h \in Holds |-> {}]
    /\ refusedAt = {} /\ capRows = {}
    /\ charge = [k \in ChargeIds |-> IF k \in charges THEN "none" ELSE "failed"]
    /\ mandate = [m \in Mandates |-> IF m \in mandates THEN "none" ELSE "revoked"]
    /\ lapsed = {} /\ aged = {} /\ frozen = (live = {})
    /\ task = [c \in Callers |-> NoTask]
    /\ rows = <<>> /\ feed = [h \in Holds |-> <<>>]
    /\ reserved = [h \in Holds |-> {}] /\ voided = [h \in Holds |-> {}]
    /\ taken = [h \in Holds |-> <<>>]
    /\ free = Balance /\ ledgerNo = {}
HoldsInit == HoldsInitWith(Holds, ChargeIds, Mandates)

-----------------------------------------------------------------------------
(***************************************************************************)
(* The Hold aggregate.  Each operation raises one event of the next        *)
(* version; a reservation's ledger id derives from the version that made   *)
(* it, and standing is the one in force.                                   *)
(***************************************************************************)
\* Slip: what was captured is not subtracted.
RemainingWhole(h) == IF hstate[h] = "active" THEN HoldAmount[h] ELSE 0
Remaining(h) == IF hstate[h] = "active" THEN HoldAmount[h] - captured[h] ELSE 0
IsDue(h) == hstate[h] = "active" /\ (h \in ttlPast \/ \E m \in clamp[h] : m \in lapsed)

Event(h, kind, v, released, held, amount) ==
    [hold |-> h, kind |-> kind, version |-> v, released |-> released,
     held |-> held, amount |-> amount, st |-> "queued", again |-> FALSE]
Raise(es) == rows' = rows \o es

Place(h) == Event(h, "placed", 1, 0, 0, HoldAmount[h])

\* Slip: a partial capture leaves the old reservation as the one in force.
CaptureKeepsStanding(h, amount) ==
    /\ captured' = [captured EXCEPT ![h] = @ + amount]
    /\ version' = [version EXCEPT ![h] = @ + 1]
    /\ hstate' = [hstate EXCEPT ![h] = IF amount = Remaining(h) THEN "captured" ELSE @]
    /\ UNCHANGED standing
    /\ Raise(<<Event(h, "captured", version[h] + 1, standing[h], Remaining(h), amount)>>)

CaptureOf(h, amount) ==
    LET v == version[h] + 1
    IN  /\ captured' = [captured EXCEPT ![h] = @ + amount]
        /\ version' = [version EXCEPT ![h] = v]
        /\ IF amount = Remaining(h)
           THEN hstate' = [hstate EXCEPT ![h] = "captured"] /\ UNCHANGED standing
           ELSE standing' = [standing EXCEPT ![h] = v] /\ UNCHANGED hstate
        /\ Raise(<<Event(h, "captured", v, standing[h], Remaining(h), amount)>>)

\* What a release does to the holds of S: a due one expires, the others end as asked.
ReleaseAll(S, asked) ==
    LET es == {Event(h, "released", version[h] + 1, standing[h], Remaining(h), 0) : h \in S}
    IN  /\ hstate' = [h \in Holds |-> IF h \notin S THEN hstate[h]
                                      ELSE IF IsDue(h) THEN "expired" ELSE asked]
        /\ version' = [h \in Holds |-> IF h \in S THEN version[h] + 1 ELSE version[h]]
        /\ \E s \in [1..Cardinality(es) -> es] :
            /\ \A i, j \in DOMAIN s : i # j => s[i] # s[j]
            /\ Raise(s)

-----------------------------------------------------------------------------
(***************************************************************************)
(* Mandates.                                                               *)
(***************************************************************************)
Live(m) == mandate[m] = "current" /\ m \notin lapsed

\* usage: what was drawn, is outstanding and was filled, over the last 24 hours.  A hold
\* counts whole on its day, and by its captures afterwards.
DrawnNew ==
    MapThenSumSet(LAMBDA h : IF hstate[h] \in {"voided", "expired"} THEN captured[h] ELSE HoldAmount[h],
                  {h \in Holds : version[h] > 0 /\ h \notin aged})
    + MapThenSumSet(LAMBDA k : ChargeAmount[k], {k \in ChargeIds : charge[k] \in {"pending", "posted"} /\ k \notin aged})
Drawn == DrawnNew + MapThenSumSet(LAMBDA r : r.amount, {r \in capRows : r \notin aged /\ r.hold \in aged})
Outstanding == MapThenSumSet(Remaining, Holds)
Filled == MapThenSumSet(LAMBDA r : r.amount, {r \in capRows : r.fill /\ r \notin aged})

\* Slip: the day's cap is checked against what was drawn, not against what this adds.
AdmitDrawBefore(m, kind, amount) ==
    /\ Live(m) /\ amount <= Caps[m].perOp /\ Drawn <= Caps[m].day
    /\ kind = "reserve" => Outstanding + amount <= Caps[m].outstanding

AdmitDraw(m, kind, amount) ==
    /\ Live(m)
    /\ amount <= Caps[m].perOp
    /\ Drawn + amount <= Caps[m].day
    /\ kind = "reserve" => Outstanding + amount <= Caps[m].outstanding

FillCap(m) == IF mandate[m] # "revoked" THEN Caps[m].fill ELSE 0
AdmitBookFill(m, amount) ==
    \E cur \in Mandates :
        /\ Live(cur)
        /\ FillCap(m) > 0 /\ FillCap(cur) > 0
        /\ Filled + amount <= IF FillCap(m) < FillCap(cur) THEN FillCap(m) ELSE FillCap(cur)

\* The locks the open transactions hold.
MandateLocked(m) == \E c \in Callers : task[c].kind \in {"reserve", "charge", "revoke"} /\ task[c].mandate = m
ClaimLocked == \E c \in Callers : task[c].kind \in {"reserve", "charge"}
HoldLocked(h) == \E c \in Callers : task[c].kind = "fill" /\ task[c].hold = h
FillLocked == \E c \in Callers : task[c].kind = "fill"

Grant(m) ==
    /\ mandate[m] = "none" /\ m \notin lapsed
    /\ \A n \in Mandates : mandate[n] = "current" => ~MandateLocked(n)
    /\ Caps[m].limited => \A h \in Holds : ~HoldLocked(h)
    /\ mandate' = [n \in Mandates |-> IF n = m THEN "current"
                                      ELSE IF mandate[n] = "current" THEN "replaced" ELSE mandate[n]]
    /\ clamp' = [h \in Holds |-> IF Caps[m].limited /\ hstate[h] = "active" THEN clamp[h] \union {m} ELSE clamp[h]]
    /\ UNCHANGED <<hstate, captured, version, standing, under, ttlPast, refusedAt, capRows,
                   charge, lapsed, aged, frozen, booksVars, task, rows, feed>>

RevokeLocks(c, m) ==
    /\ Idle(c) /\ mandate[m] = "current" /\ ~MandateLocked(m)
    /\ task' = [task EXCEPT ![c] = [kind |-> "revoke", mandate |-> m]]
    /\ UNCHANGED <<holdVars, drawVars, booksVars, rows, feed>>

\* The holds are locked, then the whole revoke commits.
RevokeCommits(c) ==
    LET m == task[c].mandate
        S == {h \in Holds : hstate[h] = "active"}
    IN  /\ task[c].kind = "revoke" /\ \A h \in S : ~HoldLocked(h)
        /\ mandate' = [mandate EXCEPT ![m] = "revoked"]
        /\ ReleaseAll(S, "voided")
        /\ task' = [task EXCEPT ![c] = NoTask]
        /\ UNCHANGED <<captured, standing, under, ttlPast, clamp, refusedAt, capRows,
                       charge, lapsed, aged, frozen, booksVars, feed>>

-----------------------------------------------------------------------------
(***************************************************************************)
(* Reserve and Charge.                                                     *)
(***************************************************************************)
Spendable ==
    free - MapThenSumSet(LAMBDA i : rows[i].amount,
                         {i \in DOMAIN rows : rows[i].kind = "placed" /\ rows[i].st = "queued"
                                              /\ rows[i].hold \notin ledgerNo
                                              /\ 1 \notin reserved[rows[i].hold]})
         - MapThenSumSet(LAMBDA k : ChargeAmount[k], {k \in ChargeIds : charge[k] = "pending"})

Draws(c, kind, amount, t) ==
    /\ Idle(c) /\ ~ClaimLocked /\ ~frozen
    /\ ~MandateLocked(t.mandate) /\ mandate[t.mandate] = "current"
    /\ AdmitDraw(t.mandate, kind, amount)
    /\ Spendable >= amount
    /\ task' = [task EXCEPT ![c] = t]
    /\ UNCHANGED <<holdVars, drawVars, booksVars, rows, feed>>

ReserveReads(c, h) ==
    /\ hstate[h] = "none"
    /\ \E m \in Mandates :
        Draws(c, "reserve", HoldAmount[h], [kind |-> "reserve", hold |-> h, mandate |-> m])

ReserveCommits(c) ==
    /\ task[c].kind = "reserve"
    /\ LET h == task[c].hold
           m == task[c].mandate
       IN  /\ hstate[h] = "none"
           /\ hstate' = [hstate EXCEPT ![h] = "active"]
           /\ version' = [version EXCEPT ![h] = 1]
           /\ standing' = [standing EXCEPT ![h] = 1]
           /\ under' = [under EXCEPT ![h] = m]
           /\ clamp' = [clamp EXCEPT ![h] = IF Caps[m].limited THEN {m} ELSE {}]
           /\ Raise(<<Place(h)>>)
    /\ task' = [task EXCEPT ![c] = NoTask]
    /\ UNCHANGED <<captured, ttlPast, refusedAt, capRows, drawVars, booksVars, feed>>

ChargeReads(c, k) ==
    /\ charge[k] = "none"
    /\ \E m \in Mandates :
        Draws(c, "charge", ChargeAmount[k], [kind |-> "charge", charge |-> k, mandate |-> m])

ChargeCommits(c) ==
    /\ task[c].kind = "charge"
    /\ charge' = [charge EXCEPT ![task[c].charge] = "pending"]
    /\ task' = [task EXCEPT ![c] = NoTask]
    /\ UNCHANGED <<holdVars, mandate, lapsed, aged, frozen, booksVars, rows, feed>>

RequestDropped(c) ==
    /\ ~Idle(c)
    /\ task' = [task EXCEPT ![c] = NoTask]
    /\ UNCHANGED <<holdVars, drawVars, booksVars, rows, feed>>

-----------------------------------------------------------------------------
(***************************************************************************)
(* Capture, Void and the reaper.                                           *)
(***************************************************************************)
RecordCapture(h, amount, isFill) ==
    capRows' = capRows \union {[hold |-> h, version |-> version[h] + 1, amount |-> amount, fill |-> isFill]}

\* Into a scope account of the client: no mandate, no standing of the user is asked.
Capture(h, amount) ==
    /\ hstate[h] = "active" /\ ~IsDue(h) /\ ~HoldLocked(h)
    /\ amount \in 1..Remaining(h)
    /\ CaptureOf(h, amount)
    /\ RecordCapture(h, amount, FALSE)
    /\ UNCHANGED <<under, ttlPast, clamp, refusedAt, drawVars, booksVars, task, feed>>

\* Into another user's compartment: a book fill, drawn under the fill lock.
FillReads(c, h, amount) ==
    /\ Idle(c) /\ ~HoldLocked(h) /\ ~FillLocked /\ ~frozen
    /\ AdmitBookFill(under[h], amount)
    /\ hstate[h] = "active" /\ ~IsDue(h) /\ amount \in 1..Remaining(h)
    /\ task' = [task EXCEPT ![c] = [kind |-> "fill", hold |-> h, amount |-> amount]]
    /\ UNCHANGED <<holdVars, drawVars, booksVars, rows, feed>>

FillCommits(c) ==
    /\ task[c].kind = "fill"
    /\ CaptureOf(task[c].hold, task[c].amount)
    /\ RecordCapture(task[c].hold, task[c].amount, TRUE)
    /\ task' = [task EXCEPT ![c] = NoTask]
    /\ UNCHANGED <<under, ttlPast, clamp, refusedAt, drawVars, booksVars, feed>>

Void(h) ==
    /\ hstate[h] = "active" /\ ~HoldLocked(h)
    /\ ReleaseAll({h}, "voided")
    /\ UNCHANGED <<captured, standing, under, ttlPast, clamp, refusedAt, capRows, drawVars, booksVars, task, feed>>

ExpireDueHold(h) ==
    /\ IsDue(h) /\ ~HoldLocked(h)
    /\ ReleaseAll({h}, "expired")
    /\ UNCHANGED <<captured, standing, under, ttlPast, clamp, refusedAt, capRows, drawVars, booksVars, task, feed>>

-----------------------------------------------------------------------------
(***************************************************************************)
(* The relay.  Rows are taken in seq order; a parked row lets the next     *)
(* pass.  A leg is applied, then announced and stamped: between the two    *)
(* the relay may die, and the row is delivered again.                      *)
(***************************************************************************)
NextRow(i) ==
    /\ i \in DOMAIN rows /\ rows[i].st = "queued"
    /\ \A j \in 1..(i - 1) : rows[j].st # "queued"
Stamp(i, st) == rows' = [rows EXCEPT ![i].st = st]
\* Each money event is keyed by hold and version: a repeat appends nothing.
Announce(h, e) ==
    feed' = IF \E n \in DOMAIN feed[h] : feed[h][n].version = e.version THEN feed
            ELSE [feed EXCEPT ![h] = Append(@, e)]
HoldEvent(r) ==
    [version |-> r.version,
     remaining |-> CASE r.kind = "placed" -> r.amount
                     [] r.kind = "captured" -> r.held - r.amount
                     [] r.kind = "released" -> 0]

\* This event's own legs are on the ledger.
Applied(r) ==
    CASE r.kind = "placed"   -> 1 \in reserved[r.hold]
      [] r.kind = "captured" -> r.version \in DOMAIN taken[r.hold]
      [] r.kind = "released" -> r.released \in voided[r.hold]
HasReservation(r) == r.released \in reserved[r.hold]

RelayReserve(i) ==
    LET r == rows[i]
    IN  /\ NextRow(i) /\ r.kind = "placed" /\ r.hold \notin refusedAt /\ ~Applied(r)
        /\ IF free >= r.amount /\ r.hold \notin ledgerNo
           THEN /\ reserved' = [reserved EXCEPT ![r.hold] = @ \union {1}]
                /\ free' = free - r.amount
                /\ UNCHANGED ledgerNo
           ELSE /\ r.hold \notin ledgerNo
                /\ ledgerNo' = ledgerNo \union {r.hold}
                /\ UNCHANGED <<reserved, free>>
        /\ UNCHANGED <<holdVars, drawVars, voided, taken, task, rows, feed>>

\* park_refused_reserve: one transaction parks the row and voids the hold.
ParkRefusedReserve(i) ==
    LET h == rows[i].hold
    IN  /\ NextRow(i) /\ rows[i].kind = "placed" /\ h \in ledgerNo /\ h \notin refusedAt
        /\ ~HoldLocked(h)
        /\ Stamp(i, "parked")
        /\ hstate' = [hstate EXCEPT ![h] = "voided"]
        /\ captured' = [captured EXCEPT ![h] = 0]
        /\ version' = [version EXCEPT ![h] = @ + 1]
        /\ refusedAt' = refusedAt \union {h}
        /\ capRows' = {r \in capRows : r.hold # h}
        /\ Announce(h, [version |-> version[h] + 1, remaining |-> 0])
        /\ UNCHANGED <<standing, under, ttlPast, clamp, drawVars, booksVars, task>>

RelayCapture(i) ==
    LET r == rows[i]
        rest == r.held - r.amount
    IN  /\ NextRow(i) /\ r.kind = "captured" /\ HasReservation(r) /\ ~Applied(r)
        /\ voided' = [voided EXCEPT ![r.hold] = @ \union {r.released}]
        /\ taken' = [taken EXCEPT ![r.hold] = [v \in DOMAIN @ \union {r.version} |->
                                                  IF v = r.version THEN r.amount ELSE @[v]]]
        /\ reserved' = IF rest > 0 THEN [reserved EXCEPT ![r.hold] = @ \union {r.version}] ELSE reserved
        /\ UNCHANGED <<holdVars, drawVars, free, ledgerNo, task, rows, feed>>

RelayRelease(i) ==
    LET r == rows[i]
    IN  /\ NextRow(i) /\ r.kind = "released" /\ HasReservation(r) /\ ~Applied(r)
        /\ voided' = [voided EXCEPT ![r.hold] = @ \union {r.released}]
        /\ free' = free + r.held
        /\ UNCHANGED <<holdVars, drawVars, reserved, taken, ledgerNo, task, rows, feed>>

RelayAnnounce(i) ==
    LET r == rows[i]
    IN  /\ NextRow(i)
        /\ IF r.kind = "placed" /\ r.hold \in refusedAt
           THEN UNCHANGED feed
           ELSE Applied(r) /\ Announce(r.hold, HoldEvent(r))
        /\ Stamp(i, "done") \/ (feed' # feed /\ UNCHANGED rows)   \* the stamp may be lost
        /\ UNCHANGED <<holdVars, drawVars, booksVars, task>>

\* The reservation it would void was never placed.
ParkUnreserved(i) ==
    /\ NextRow(i) /\ rows[i].kind # "placed"
    /\ ~Applied(rows[i]) /\ ~HasReservation(rows[i])
    /\ Stamp(i, "parked")
    /\ UNCHANGED <<holdVars, drawVars, booksVars, task, feed>>

\* The ledger answers a capture with a conflict: it parks as it is.
ParkConflict(i) ==
    /\ "park" \in HoldFaults
    /\ NextRow(i) /\ rows[i].kind = "captured" /\ ~Applied(rows[i])
    /\ \A j \in DOMAIN rows : rows[j].st # "parked"
    /\ Stamp(i, "parked")
    /\ UNCHANGED <<holdVars, drawVars, booksVars, task, feed>>

\* The ledger has the row's legs, but its money event cannot be recorded: tried a bounded
\* number of times, then parked alone, and the rows behind it are carried and told.
ParkUnrecorded(i) ==
    /\ "unrecorded" \in HoldFaults
    /\ NextRow(i) /\ Applied(rows[i]) /\ ~rows[i].again
    /\ \A j \in DOMAIN rows : rows[j].st # "parked"
    /\ Stamp(i, "parked")
    /\ UNCHANGED <<holdVars, drawVars, booksVars, task, feed>>

\* An operator's unpark; one per row is enough to see what a second try does.
UnparkRow(i) ==
    /\ i \in DOMAIN rows /\ rows[i].st = "parked" /\ ~rows[i].again
    /\ rows' = [rows EXCEPT ![i].st = "queued", ![i].again = TRUE]
    /\ UNCHANGED <<holdVars, drawVars, booksVars, task, feed>>

RelayCharge(k) ==
    /\ charge[k] = "pending"
    /\ IF free >= ChargeAmount[k]
       THEN charge' = [charge EXCEPT ![k] = "posted"] /\ free' = free - ChargeAmount[k]
       ELSE charge' = [charge EXCEPT ![k] = "failed"] /\ UNCHANGED free
    /\ UNCHANGED <<holdVars, mandate, lapsed, aged, frozen, reserved, voided, taken, ledgerNo, task, rows, feed>>

-----------------------------------------------------------------------------
(***************************************************************************)
(* Time, and what others do.                                               *)
(***************************************************************************)
TtlPasses(h) ==
    /\ HoldTtl[h] /\ hstate[h] = "active" /\ h \notin ttlPast
    /\ ttlPast' = ttlPast \union {h}
    /\ UNCHANGED <<hstate, captured, version, standing, under, clamp, refusedAt, capRows, drawVars, booksVars, task, rows, feed>>

MandateLapses(m) ==
    /\ Caps[m].limited /\ mandate[m] # "none" /\ m \notin lapsed
    /\ lapsed' = lapsed \union {m}
    /\ UNCHANGED <<holdVars, charge, mandate, aged, frozen, booksVars, task, rows, feed>>

DayPasses ==
    /\ aged' = aged \union {h \in Holds : version[h] > 0} \union capRows
                    \union {k \in ChargeIds : charge[k] # "none"}
    /\ aged' # aged
    /\ UNCHANGED <<holdVars, charge, mandate, lapsed, frozen, booksVars, task, rows, feed>>

FreezeOrThaw ==
    /\ "frozen" \in HoldFaults
    /\ frozen' = ~frozen
    /\ UNCHANGED <<holdVars, charge, mandate, lapsed, aged, booksVars, task, rows, feed>>

\* An event of another flow is unparked and takes what is there.
ForeignTake ==
    /\ "foreign" \in HoldFaults /\ free > 0
    /\ free' = 0
    /\ UNCHANGED <<holdVars, drawVars, reserved, voided, taken, ledgerNo, task, rows, feed>>

RelayHoldStep ==
    \E i \in DOMAIN rows :
        \/ RelayReserve(i) \/ ParkRefusedReserve(i) \/ RelayCapture(i)
        \/ RelayRelease(i) \/ RelayAnnounce(i) \/ ParkUnreserved(i)

HoldsNext ==
    \/ \E c \in Callers :
        \/ \E h \in Holds : ReserveReads(c, h)
        \/ \E k \in ChargeIds : ChargeReads(c, k)
        \/ \E h \in Holds, a \in 1..2 : FillReads(c, h, a)
        \/ \E m \in Mandates : RevokeLocks(c, m)
        \/ ReserveCommits(c) \/ ChargeCommits(c) \/ FillCommits(c) \/ RevokeCommits(c)
        \/ RequestDropped(c)
    \/ \E h \in Holds :
        \/ \E a \in 1..2 : Capture(h, a)
        \/ Void(h) \/ ExpireDueHold(h) \/ TtlPasses(h)
    \/ \E m \in Mandates : Grant(m) \/ MandateLapses(m)
    \/ \E k \in ChargeIds : RelayCharge(k)
    \/ RelayHoldStep
    \/ \E i \in DOMAIN rows : ParkConflict(i) \/ ParkUnrecorded(i) \/ UnparkRow(i)
    \/ DayPasses \/ FreezeOrThaw \/ ForeignTake

HoldsSpec == HoldsInit /\ [][HoldsNext]_holdsVars

-----------------------------------------------------------------------------
(***************************************************************************)
(* Properties.                                                             *)
(***************************************************************************)
HoldsTypeOK ==
    /\ hstate \in [Holds -> HoldStates]
    /\ \A h \in Holds :
        /\ captured[h] \in 0..HoldAmount[h]
        /\ standing[h] <= version[h]
        /\ hstate[h] = "captured" => captured[h] = HoldAmount[h]
    /\ charge \in [ChargeIds -> {"none", "pending", "posted", "failed"}]
    /\ mandate \in [Mandates -> {"none", "current", "revoked", "replaced"}]
    /\ Cardinality({m \in Mandates : mandate[m] = "current"}) <= 1
    /\ free \in Nat

StandsOnLedger(h) == {v \in reserved[h] : v \notin voided[h]}
SettledOnLedger(h) == \A i \in DOMAIN rows : rows[i].hold = h => rows[i].st = "done" \/ h \in refusedAt
TakenSum(h) == MapThenSumSet(LAMBDA v : taken[h][v], DOMAIN taken[h])

\* What reconciliation checks of hold_clearing: once a hold's events are through, the
\* ledger holds exactly what the hold still holds and has moved what it captured, and
\* never two reservations of one hold stand at once.
ClearingMatchesHolds ==
    \A h \in Holds :
        /\ Cardinality(StandsOnLedger(h)) <= 1
        /\ SettledOnLedger(h) =>
            /\ (StandsOnLedger(h) # {}) <=> (Remaining(h) > 0)
            /\ TakenSum(h) = captured[h]

\* A revoke leaves the client nothing: while the user has no mandate with the client in
\* force, replaced or current, no hold stands, whatever Reserve was in flight.
RevokeReleasesAll ==
    (\A m \in Mandates : mandate[m] # "current") => \A h \in Holds : hstate[h] # "active"

\* A reservation the ledger refused moves nothing: a capture answered before the refusal
\* was known is taken back and neither an unpark nor a retry places it.
RefusedMovesNothing ==
    \A h \in refusedAt :
        /\ hstate[h] = "voided" /\ captured[h] = 0
        /\ reserved[h] = {} /\ taken[h] = <<>>
        /\ \A r \in capRows : r.hold # h

\* Draws in flight never pass the user's caps together, by day or outstanding, and none is
\* admitted once its mandate is out of force.
DrawsWithinCaps ==
    [][/\ \A h \in Holds : hstate[h] = "none" /\ hstate'[h] = "active" =>
           /\ mandate[under'[h]] = "current"
           /\ Outstanding' <= Caps[under'[h]].outstanding
           /\ DrawnNew' <= Caps[under'[h]].day
       /\ \A k \in ChargeIds : charge[k] = "none" /\ charge'[k] = "pending" =>
           \E m \in Mandates : mandate[m] = "current" /\ DrawnNew' <= Caps[m].day]_holdsVars

\* Fills of several holds stay under the cap of the mandate each was placed under.
FillsWithinCap ==
    [][\A r \in capRows' \ capRows : r.fill => Filled' <= Caps[under[r.hold]].fill]_holdsVars

\* The row of h's event of version v was parked and put back by an operator.
WasUnparked(h, v) == \E i \in DOMAIN rows : rows[i].hold = h /\ rows[i].version = v /\ rows[i].again

\* The client's stream tells an event once, and each hold's story in the order of its
\* versions, its end last.  Only an event whose row was parked and unparked may come late,
\* behind what the relay told in between.
FeedInOrder ==
    \A h \in Holds : \A m, n \in DOMAIN feed[h] : m < n =>
        /\ feed[h][m].version # feed[h][n].version
        /\ \/ WasUnparked(h, feed[h][n].version)
           \/ feed[h][m].version < feed[h][n].version /\ feed[h][m].remaining > feed[h][n].remaining

\* Nothing is told for good before it is so, and nothing is left out: a row stamped done has
\* its event on the stream, unless it is a reserve the ledger refused.
DoneIsTold ==
    \A i \in DOMAIN rows : rows[i].st = "done" =>
        \/ rows[i].kind = "placed" /\ rows[i].hold \in refusedAt
        \/ \E n \in DOMAIN feed[rows[i].hold] : feed[rows[i].hold][n] = HoldEvent(rows[i])

\* Holds and ledger agree: clearing holds what the holds hold, a refused reservation moved
\* nothing, and a revoked mandate leaves none standing.
HoldsMatchLedger == ClearingMatchesHolds /\ RefusedMovesNothing /\ RevokeReleasesAll

\* The ledger and the client's stream both tell what the holds are; the stream in order but
\* for the events an operator had to put back.
HoldsAreAsTold == HoldsMatchLedger /\ FeedInOrder /\ DoneIsTold

\* Draws and fills that race each other stay under the user's caps together.
WithinCaps == DrawsWithinCaps /\ FillsWithinCap
=============================================================================
