-------------------------------- MODULE Fees --------------------------------
(***************************************************************************)
(* Fees of one product: its terms and the changes of them, the notices     *)
(* their holders are owed, and the clocks the management and the           *)
(* performance fee run on.  A sweeper assesses a position in three         *)
(* unlocked reads and a conditional write, while top-ups, exits and        *)
(* promotions settle the same clock under the position's lock.             *)
(*                                                                         *)
(* Time is counted in ticks.  The management fee of a tick is the fee of   *)
(* the terms it is billed at; the performance fee is the rise of the price *)
(* above the position's high-water mark.  Rounding is left out.            *)
(***************************************************************************)
EXTENDS Integers, FiniteSets, FiniteSetsExt

CONSTANTS
    Holders,      \* investors that may hold units of the product
    Changes,      \* requested changes of its terms
    FirstTerms,   \* terms at the start: [fee, hurdle]
    NewTerms,     \* [Changes -> terms]
    Wished,       \* [Changes -> Nat]: requested effective_from
    House,        \* fee of the house terms
    MinNotice,    \* MIN_NOTICE_SECS in ticks
    MinAge,       \* MIN_ACCRUAL_AGE in ticks
    Period,       \* crystallization period in ticks
    Horizon,      \* bound: the last tick
    Prices,       \* prices the product may be marked at
    Sweepers      \* fee sweepers running at once

ASSUME FeesAssumption ==
    /\ FirstTerms \in [fee : Nat, hurdle : Nat]
    /\ NewTerms \in [Changes -> [fee : Nat, hurdle : Nat]]
    /\ Wished \in [Changes -> Nat]
    /\ {House, MinNotice, MinAge, Period, Horizon} \subseteq Nat
    /\ Prices \subseteq Nat \ {0} /\ Prices # {}

VARIABLES
    clock,
    terms,       \* the product's row of fee_policies
    fstate,      \* fee_policy_changes.state
    effective,   \* effective_from of a change
    notice,      \* [Changes -> [Holders -> ...]]: the holder's notice mail
    waived,      \* notices_waived_users
    announced,   \* history: tick a change's notices were queued at
    price,       \* the product's latest mark
    held,        \* holders with units
    accruedAt, crystAt, debt, mark,  \* a position's clocks, fee_debt, high_water_mark
    sweep,       \* registers of the sweepers
    bill,        \* history: fee billed to a holder for a tick
    owed,        \* history: fees a tick may be billed at, {} when not held
    overtaken,   \* history: holders charged over a position that moved in one tick
    gain, entry, \* history: rise charged for, mark at the first entry
    taken        \* history: cash charged

changeVars   == <<terms, fstate, effective, notice, waived, announced>>
positionVars == <<held, accruedAt, crystAt, debt, mark>>
historyVars  == <<bill, owed, overtaken, gain, entry, taken>>
feesVars == <<clock, price, sweep, changeVars, positionVars, historyVars>>

FeePolicyChangeStates ==
    {"awaiting_consilium", "scheduled", "active", "superseded", "rejected", "cancelled"}
Ticks == 0..(Horizon - 1)
IdleSweep == [at |-> "idle", now |-> 0, due |-> {}, fee |-> 0, snap |-> <<>>]

FeesInitWith(holding, live) ==
    /\ clock = 0 /\ terms = FirstTerms
    /\ fstate = [f \in Changes |-> IF f \in live THEN "none" ELSE "cancelled"] /\ effective = [f \in Changes |-> 0]
    /\ notice = [f \in Changes |-> [h \in Holders |-> "none"]]
    /\ waived = [f \in Changes |-> {}] /\ announced = [f \in Changes |-> 0]
    /\ price \in Prices /\ held = holding
    /\ accruedAt = [h \in Holders |-> 0] /\ crystAt = [h \in Holders |-> 0]
    /\ debt = [h \in Holders |-> 0] /\ mark = [h \in Holders |-> price]
    /\ sweep = [s \in Sweepers |-> IdleSweep]
    /\ bill = [h \in Holders |-> [t \in Ticks |-> 0]]
    /\ owed = [h \in Holders |-> [t \in Ticks |-> {}]]
    /\ overtaken = {}
    /\ gain = [h \in Holders |-> 0] /\ entry = [h \in Holders |-> price]
    /\ taken = [h \in Holders |-> 0]
FeesInit == FeesInitWith(Holders, Changes)

-----------------------------------------------------------------------------
(***************************************************************************)
(* Terms and what a change of them requires.                               *)
(***************************************************************************)
TightensFrom(next, current) == next.fee > current.fee \/ next.hurdle < current.hurdle
WithinHouseEnvelope(policy) == policy.fee <= House
RequirementFor(current, next) ==
    IF next.hurdle < current.hurdle \/ (TightensFrom(next, current) /\ ~WithinHouseEnvelope(next))
    THEN "owner_consilium" ELSE "admin"

\* Slip: the notice period is not added for the product's holders.
EarliestNow(f) == IF Wished[f] > clock THEN Wished[f] ELSE clock

\* No sooner than the notice period, when anyone holds units.
EarliestEffectiveFrom(f) ==
    LET floor == IF held # {} THEN clock + MinNotice ELSE clock
    IN  IF Wished[f] > floor THEN Wished[f] ELSE floor

IsPending(f) == fstate[f] \in {"awaiting_consilium", "scheduled"}

-----------------------------------------------------------------------------
(***************************************************************************)
(* The clock of a position.                                                *)
(***************************************************************************)
Window(from, to) == {t \in Ticks : from <= t /\ t < to}
Elapsed(from, to) == IF to > from THEN to - from ELSE 0

ManagementDue(fee, from, to) == fee * Elapsed(from, to)
\* Slip: a fall below the mark is credited.
PerformanceSigned(h, from) == price - from
PerformanceDue(h, from) == IF price > from THEN price - from ELSE 0

\* What carry_accrual leaves behind: the fee earned so far becomes debt.
Carry(h, to) ==
    [at   |-> to,
     debt |-> debt[h] + ManagementDue(terms.fee, accruedAt[h], to),
     bill |-> [t \in Ticks |-> IF t \in Window(accruedAt[h], to) THEN bill[h][t] + terms.fee ELSE bill[h][t]]]

\* A holder adds units: a holding position is settled first, a dormant one
\* starts both clocks anew; the mark rises to the price paid, never falls.
TopUp(h) ==
    /\ held' = held \union {h}
    /\ accruedAt' = [accruedAt EXCEPT ![h] = clock]
    /\ IF h \in held
       THEN /\ debt' = [debt EXCEPT ![h] = Carry(h, clock).debt]
            /\ bill' = [bill EXCEPT ![h] = Carry(h, clock).bill]
            /\ UNCHANGED crystAt
       ELSE crystAt' = [crystAt EXCEPT ![h] = clock] /\ UNCHANGED <<debt, bill>>
    /\ mark' = [mark EXCEPT ![h] = IF price > @ THEN price ELSE @]
    /\ UNCHANGED <<clock, price, sweep, changeVars, owed, overtaken, gain, entry, taken>>

\* A holder redeems everything: the position is settled up to now.
Exit(h) ==
    /\ h \in held
    /\ held' = held \ {h}
    /\ accruedAt' = [accruedAt EXCEPT ![h] = clock]
    /\ debt' = [debt EXCEPT ![h] = Carry(h, clock).debt]
    /\ bill' = [bill EXCEPT ![h] = Carry(h, clock).bill]
    /\ UNCHANGED <<clock, price, sweep, changeVars, crystAt, mark, owed, overtaken, gain, entry, taken>>

-----------------------------------------------------------------------------
(***************************************************************************)
(* Changes of the terms.                                                   *)
(***************************************************************************)
EnqueueNotices(f) ==
    /\ notice' = [notice EXCEPT ![f] = [h \in Holders |-> IF h \in held THEN "queued" ELSE "none"]]
    /\ announced' = [announced EXCEPT ![f] = clock]

\* A change is pending alone; the requirement it was asked under still stands.
MayRequest(f, requirement) ==
    /\ fstate[f] = "none"
    /\ ~\E g \in Changes : IsPending(g)
    /\ RequirementFor(terms, NewTerms[f]) = requirement

\* The administrator's change: recorded, dated and announced at once.
Schedule(f) ==
    /\ MayRequest(f, "admin")
    /\ fstate' = [fstate EXCEPT ![f] = "scheduled"]
    /\ effective' = [effective EXCEPT ![f] = EarliestEffectiveFrom(f)]
    /\ EnqueueNotices(f)
    /\ UNCHANGED <<clock, price, sweep, terms, waived, positionVars, historyVars>>

\* The owners' change waits for their consilium ...
AwaitConsilium(f) ==
    /\ MayRequest(f, "owner_consilium")
    /\ fstate' = [fstate EXCEPT ![f] = "awaiting_consilium"]
    /\ UNCHANGED <<clock, price, sweep, terms, effective, notice, waived, announced, positionVars, historyVars>>

\* ... which schedules it, once however often it is executed,
ScheduleApproved(f) ==
    /\ IF fstate[f] = "awaiting_consilium"
       THEN /\ fstate' = [fstate EXCEPT ![f] = "scheduled"]
            /\ effective' = [effective EXCEPT ![f] = EarliestEffectiveFrom(f)]
            /\ EnqueueNotices(f)
       ELSE fstate[f] = "scheduled" /\ UNCHANGED <<fstate, effective, notice, announced>>
    /\ UNCHANGED <<clock, price, sweep, terms, waived, positionVars, historyVars>>

\* or closes it.
RejectChange(f) ==
    /\ fstate' = [fstate EXCEPT ![f] = IF @ = "awaiting_consilium" THEN "rejected" ELSE @]
    /\ UNCHANGED <<clock, price, sweep, terms, effective, notice, waived, announced, positionVars, historyVars>>

WithdrawUndelivered(f) ==
    notice' = [notice EXCEPT ![f] = [h \in Holders |-> IF @[h] \in {"queued", "given_up"} THEN "withdrawn" ELSE @[h]]]

\* A change is withdrawn with the notices that were not delivered.
CancelChange(f) ==
    /\ IsPending(f)
    /\ fstate' = [fstate EXCEPT ![f] = "cancelled"]
    /\ WithdrawUndelivered(f)
    /\ UNCHANGED <<clock, price, sweep, terms, effective, waived, announced, positionVars, historyVars>>

UndeliveredNotices(f) == {h \in held : notice[f][h] \in {"queued", "given_up"}}
GivenUp(f) == {h \in UndeliveredNotices(f) : notice[f][h] = "given_up"}

\* An operator takes responsibility for the holders given up on so far.
Acknowledge(f) ==
    /\ fstate[f] = "scheduled" /\ TightensFrom(NewTerms[f], terms)
    /\ GivenUp(f) \ waived[f] # {}
    /\ waived' = [waived EXCEPT ![f] = @ \union GivenUp(f)]
    /\ UNCHANGED <<clock, price, sweep, terms, fstate, effective, notice, announced, positionVars, historyVars>>

\* Dearer terms bind over a holder only when told, or named by the operator.
MayBind(f) == TightensFrom(NewTerms[f], terms) => UndeliveredNotices(f) \subseteq waived[f]

\* Slip: the new terms price the window that ends at effective_from.
SettleAtOldTermsSkipped(f, h) == FALSE

\* The holders whose clock the old terms still own.
SettleAtOldTerms(f, h) == h \in held /\ accruedAt[h] < effective[f]

Promote(f) ==
    /\ fstate[f] = "scheduled" /\ effective[f] <= clock /\ MayBind(f)
    /\ LET old == {h \in Holders : SettleAtOldTerms(f, h)} IN
       /\ accruedAt' = [h \in Holders |-> IF h \in old THEN effective[f] ELSE accruedAt[h]]
       /\ debt' = [h \in Holders |-> IF h \in old THEN Carry(h, effective[f]).debt ELSE debt[h]]
       /\ bill' = [h \in Holders |-> IF h \in old THEN Carry(h, effective[f]).bill ELSE bill[h]]
    /\ owed' = [h \in Holders |-> [t \in Ticks |->
                 IF owed[h][t] # {} /\ t \in Window(effective[f], clock)
                 THEN owed[h][t] \union {NewTerms[f].fee} ELSE owed[h][t]]]
    /\ terms' = NewTerms[f]
    /\ fstate' = [g \in Changes |-> IF g = f THEN "active"
                                    ELSE IF fstate[g] = "active" THEN "superseded" ELSE fstate[g]]
    /\ UNCHANGED <<clock, price, sweep, effective, notice, waived, announced, held, crystAt, mark, overtaken, gain, entry, taken>>

-----------------------------------------------------------------------------
(***************************************************************************)
(* The mailer: a notice is delivered, or given up after its attempts or    *)
(* its ceiling.                                                            *)
(***************************************************************************)
DeliverNotice(f, h, outcome) ==
    /\ notice[f][h] = "queued"
    /\ notice' = [notice EXCEPT ![f][h] = outcome]
    /\ UNCHANGED <<clock, price, sweep, terms, fstate, effective, waived, announced, positionVars, historyVars>>

-----------------------------------------------------------------------------
(***************************************************************************)
(* The sweeper.  Its "now" is read once for the whole sweep.               *)
(***************************************************************************)
DuePositions == {h \in held : accruedAt[h] < clock - MinAge}

SweepStarts(s) ==
    /\ sweep[s].at = "idle" /\ DuePositions # {}
    /\ sweep' = [sweep EXCEPT ![s] = [IdleSweep EXCEPT !.at = "next", !.now = clock, !.due = DuePositions]]
    /\ UNCHANGED <<clock, price, changeVars, positionVars, historyVars>>

\* The terms are read before the position.
ReadPolicy(s) ==
    /\ sweep[s].at = "next"
    /\ IF sweep[s].due = {} THEN sweep' = [sweep EXCEPT ![s] = IdleSweep]
       ELSE sweep' = [sweep EXCEPT ![s].at = "position", ![s].fee = terms.fee]
    /\ UNCHANGED <<clock, price, changeVars, positionVars, historyVars>>

SnapshotOf(h) == [h |-> h, at |-> accruedAt[h], cryst |-> crystAt[h], debt |-> debt[h], mark |-> mark[h]]

ReadPosition(s) ==
    \E h \in sweep[s].due :
        /\ sweep[s].at = "position"
        /\ sweep' = [sweep EXCEPT ![s].at = "charge", ![s].snap = SnapshotOf(h), ![s].due = @ \ {h}]
        /\ UNCHANGED <<clock, price, changeVars, positionVars, historyVars>>

\* The clock is the version of the position.
ClockStands(x) == accruedAt[x.h] = x.at

Crystallizes(x, now) == Elapsed(x.cryst, now) >= Period

\* The high-water mark moves with the rise that was charged for.
MarkAfter(x, rise) == IF rise > 0 THEN price ELSE x.mark

\* charge: what is due is taken as far as units are free, the rest is debt.
Charge(s) ==
    LET x    == sweep[s].snap
        now  == sweep[s].now
        rise == IF Crystallizes(x, now) THEN PerformanceDue(x.h, x.mark) ELSE 0
        due  == ManagementDue(sweep[s].fee, x.at, now) + rise + x.debt
    IN  /\ sweep[s].at = "charge"
        /\ sweep' = [sweep EXCEPT ![s].at = "next", ![s].snap = <<>>, ![s].fee = 0]
        /\ IF sweep[s].fee > 0 /\ due > 0 /\ ClockStands(x)
           THEN \E cash \in {0, due} :
                /\ debt' = [debt EXCEPT ![x.h] = due - cash]
                /\ taken' = [taken EXCEPT ![x.h] = @ + cash]
                /\ accruedAt' = [accruedAt EXCEPT ![x.h] = now]
                /\ crystAt' = [crystAt EXCEPT ![x.h] = IF Crystallizes(x, now) THEN now ELSE @]
                /\ mark' = [mark EXCEPT ![x.h] = MarkAfter(x, rise)]
                /\ gain' = [gain EXCEPT ![x.h] = @ + rise]
                /\ bill' = [bill EXCEPT ![x.h] = [t \in Ticks |->
                              IF t \in Window(x.at, now) THEN @[t] + sweep[s].fee ELSE @[t]]]
                /\ overtaken' = IF (accruedAt[x.h] = x.at /\ SnapshotOf(x.h) # x) \/ now < x.at THEN overtaken \union {x.h} ELSE overtaken
           ELSE UNCHANGED <<debt, taken, accruedAt, crystAt, mark, gain, bill, overtaken>>
        /\ UNCHANGED <<clock, price, changeVars, held, owed, entry>>

-----------------------------------------------------------------------------
Tick ==
    /\ clock < Horizon
    /\ clock' = clock + 1
    /\ owed' = [h \in Holders |-> IF h \in held THEN [owed[h] EXCEPT ![clock] = {terms.fee}] ELSE owed[h]]
    /\ UNCHANGED <<price, sweep, changeVars, positionVars, bill, overtaken, gain, entry, taken>>

Revalue(p) ==
    /\ price # p
    /\ price' = p
    /\ UNCHANGED <<clock, sweep, changeVars, positionVars, historyVars>>

ChangeStep(f) ==
    \/ Schedule(f) \/ CancelChange(f) \/ Acknowledge(f) \/ Promote(f)
    \/ \E h \in Holders, outcome \in {"sent", "given_up"} : DeliverNotice(f, h, outcome)
SweepStep(s) == SweepStarts(s) \/ ReadPolicy(s) \/ ReadPosition(s) \/ Charge(s)
FeesNext ==
    \/ \E f \in Changes : ChangeStep(f) \/ (AwaitConsilium(f) \/ (IsPending(f) /\ (ScheduleApproved(f) \/ RejectChange(f))))
    \/ \E s \in Sweepers : SweepStep(s)
    \/ \E h \in Holders : TopUp(h) \/ Exit(h)
    \/ Tick \/ \E p \in Prices : Revalue(p)

FeesSpec == FeesInit /\ [][FeesNext]_feesVars

-----------------------------------------------------------------------------
\* Types of the terms, the changes, the positions and the sweepers.
FeesTypeOK ==
    /\ clock \in 0..Horizon /\ price \in Prices
    /\ terms \in [fee : Nat, hurdle : Nat]
    /\ fstate \in [Changes -> FeePolicyChangeStates \union {"none"}]
    /\ effective \in [Changes -> Nat]
    /\ notice \in [Changes -> [Holders -> {"none", "queued", "sent", "given_up", "withdrawn"}]]
    /\ waived \in [Changes -> SUBSET Holders] /\ held \subseteq Holders
    /\ accruedAt \in [Holders -> 0..Horizon] /\ crystAt \in [Holders -> 0..Horizon]
    /\ debt \in [Holders -> Nat] /\ gain \in [Holders -> Nat] /\ mark \in [Holders -> Prices]
    /\ \A s \in Sweepers : sweep[s].at \in {"idle", "next", "position", "charge"} /\ sweep[s].due \subseteq Holders

\* Every tick a position was held is billed once, at terms in force at it, when
\* its clock passed it, and not before.  Left out is a holder whose position
\* moved under the sweep in the second it was read or was stamped backwards.
BilledAtTermsInForce ==
    \A h \in Holders \ overtaken : \A t \in Ticks :
        IF t < accruedAt[h] /\ t < clock /\ owed[h][t] # {} THEN bill[h][t] \in owed[h][t] ELSE bill[h][t] = 0

Billed(bills) == MapThenSumSet(LAMBDA t : bills[t], Ticks)

\* What was billed is what was taken or is still owed: a charge computed from a
\* stale position never drops a debt.
NothingLost ==
    \A h \in Holders \ overtaken : taken[h] + debt[h] = Billed(bill[h]) + gain[h]

\* A rise is charged for once: a position never pays for more than its
\* high-water mark rose by since its entry.
GainChargedOnce == \A h \in Holders \ overtaken : gain[h] <= mark[h] - entry[h]

\* Dearer terms bind no holder on the notice roster whose notice did not arrive,
\* unless an operator named that holder; and not sooner than the notice period
\* after it was queued.
NoticeBeforeDearerTerms ==
    [][\A f \in Changes :
        fstate[f] = "scheduled" /\ fstate'[f] = "active" /\ TightensFrom(NewTerms[f], terms) =>
            \A h \in held : notice[f][h] = "none" \/
                /\ notice[f][h] = "sent" \/ (notice[f][h] = "given_up" /\ h \in waived[f])
                /\ clock >= announced[f] + MinNotice]_feesVars

\* No holder is told of terms that were already withdrawn.
NoNoticeOfDeadTerms ==
    [][\A f \in Changes, h \in Holders :
        notice[f][h] # "sent" /\ notice'[f][h] = "sent" => fstate[f] \in {"scheduled", "active", "superseded"}]_feesVars

\* A holder pays what the terms in force ask, once, however sweeps, top-ups, exits and
\* promotions interleave: no tick and no rise is billed twice and no debt is dropped.
ChargedOnceAtTerms == BilledAtTermsInForce /\ NothingLost /\ GainChargedOnce

\* Terms and their notices stay together: dearer ones wait for the notice, withdrawn ones are
\* never announced.
NoticesFollowTerms == NoticeBeforeDearerTerms /\ NoNoticeOfDeadTerms
=============================================================================
