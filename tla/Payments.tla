------------------------------ MODULE Payments ------------------------------
(***************************************************************************)
(* Payment orders: an order is opened, decided by its seat (the investor   *)
(* by mailed credential or in a session, or the owners through concierge   *)
(* or a consilium), executed as a ledger transfer or as a withdrawal, and  *)
(* its decision is answered to concierge.  Sweeper, inline callers and     *)
(* approval rounds execute concurrently: each reads the order, acts, and   *)
(* records the outcome under the order's lock.                             *)
(*                                                                         *)
(* The relay is WithdrawalSaga's, seen from one order: rows of an order    *)
(* are delivered in order and at least once, legs are idempotent by id,    *)
(* and TigerBeetle never accepts an id it once refused.  Rows of different *)
(* orders are delivered in any order here, which only adds behaviours.     *)
(***************************************************************************)
EXTENDS Integers, FiniteSets

CONSTANTS
    Orders,       \* payment orders
    Claims,       \* ledger claims payments debit
    Source,       \* [Orders -> Claims]
    Owned,        \* claims of the fund; the others belong to an investor
    Tier,         \* [Orders -> {"internal", "service", "external"}]
    Seat,         \* [Orders -> {"consent", "session", "concierge", "consilium"}]
    Cost,         \* [Orders -> Nat \ {0}]
    Funds,        \* [Claims -> Nat], available at the start
    Executors,    \* concurrent callers of execute and of carry_out
    MaxCodeAttempts,
    PayFaults     \* subset of {"crash", "unavailable", "hold"}

ASSUME PayAssumption ==
    /\ IsFiniteSet(Orders) /\ Orders # {}
    /\ Source \in [Orders -> Claims]
    /\ Owned \subseteq Claims
    /\ Tier \in [Orders -> {"internal", "service", "external"}]
    /\ Seat \in [Orders -> {"consent", "session", "concierge", "consilium"}]
    /\ \A o \in Orders :
        /\ Seat[o] \in {"concierge", "consilium"} <=> Source[o] \in Owned
        /\ Tier[o] = "external" => Source[o] \notin Owned
    /\ Cost \in [Orders -> Nat \ {0}]
    /\ Funds \in [Claims -> Nat]
    /\ MaxCodeAttempts \in Nat \ {0}

VARIABLES
    pstate,     \* payments.state, "none" before the order is inserted
    late,       \* orders whose expires_at is past
    pins,       \* [Orders -> {"held", "email", "sessions"}]: what moved since the open
    answer,     \* the investor's decision, "pending" until given
    tries,      \* payment_consent.attempts
    burned,     \* orders with burned_at
    row,        \* outbox rows of each order
    xfer,       \* [Orders -> SUBSET Legs]: transfers TigerBeetle holds
    refused,    \* [Orders -> SUBSET Legs]: ids it refused
    step,       \* orders whose reserve has its saga_steps row
    free,       \* [Claims -> Nat]: available on the ledger
    wd,         \* the order's withdrawal
    opener,     \* orders whose open call still has to propose
    appr,       \* the approval as concierge holds it
    known,      \* orders whose seat stores the approval id
    execBy,     \* orders whose seat stores execute_by
    dead,       \* orders whose execute_by is past
    reported, withdrawn,   \* stamps of the concierge seat
    at, job, out, round,   \* registers of the executors
    orphaned    \* history: orders whose creator died before it recorded

decisionVars == <<late, pins, answer, tries, burned>>
ledgerVars   == <<xfer, refused, step, free>>
seatVars     == <<opener, appr, known, execBy, dead, reported, withdrawn>>
execVars     == <<at, job, out, round, orphaned>>
payVars == <<pstate, row, wd, decisionVars, ledgerVars, seatVars, execVars>>

PaymentStates ==
    {"pending", "approved", "executed", "execution_failed", "rejected", "expired", "cancelled"}
PayEvents == {"reserved", "settled", "released"}   \* the ones relays() keeps
PayLegs   == {"reserve", "settle", "transfer", "void"}

Closed(o) == pstate[o] \in {"execution_failed", "rejected", "expired", "cancelled"}
IsOpen(o) == pstate[o] \in {"pending", "approved"}

\* The orders of live are still to be opened; the others expired in the past.
PayInitWith(live) ==
    /\ pstate = [o \in Orders |-> IF o \in live THEN "none" ELSE "expired"]
    /\ late = {} /\ pins = [o \in Orders |-> "held"]
    /\ answer = [o \in Orders |-> "pending"]
    /\ tries = [o \in Orders |-> 0] /\ burned = {}
    /\ row = [o \in Orders |-> [e \in PayEvents |-> "none"]]
    /\ xfer = [o \in Orders |-> {}] /\ refused = [o \in Orders |-> {}]
    /\ step = {} /\ free = Funds
    /\ wd = [o \in Orders |-> "none"]
    /\ opener = {} /\ appr = [o \in Orders |-> "none"]
    /\ known = {} /\ execBy = {} /\ dead = {}
    /\ reported = {} /\ withdrawn = {}
    /\ at = [x \in Executors |-> "idle"] /\ job = [x \in Executors |-> CHOOSE o \in Orders : TRUE]
    /\ out = [x \in Executors |-> "none"] /\ round = [x \in Executors |-> FALSE]
    /\ orphaned = {}
PayInit == PayInitWith(Orders)

-----------------------------------------------------------------------------
(***************************************************************************)
(* The aggregate.  A transition raises its ledger event in the same        *)
(* transaction; a repeat of the state it is in changes nothing.            *)
(***************************************************************************)
SettlesOnTheLedger(o) == Tier[o] \in {"internal", "service"}
NeedsConsent(o) == Source[o] \notin Owned

Raise(o, e) == row' = [row EXCEPT ![o][e] = "queued"]

Approve(o) ==
    /\ pstate[o] = "pending"
    /\ pstate' = [pstate EXCEPT ![o] = "approved"]
    /\ IF SettlesOnTheLedger(o) THEN Raise(o, "reserved") ELSE UNCHANGED row

EnterVerdict(o, verdict) ==
    /\ pstate[o] = "pending"
    /\ pstate' = [pstate EXCEPT ![o] = verdict]
    /\ UNCHANGED row

MarkExecuted(o) ==
    /\ pstate[o] = "approved"
    /\ pstate' = [pstate EXCEPT ![o] = "executed"]
    /\ IF SettlesOnTheLedger(o) THEN Raise(o, "settled") ELSE UNCHANGED row

MarkExecutionFailed(o) ==
    /\ pstate[o] = "approved"
    /\ pstate' = [pstate EXCEPT ![o] = "execution_failed"]
    /\ IF SettlesOnTheLedger(o) THEN Raise(o, "released") ELSE UNCHANGED row

\* reject_on: the caller's decision arrives on an order that may have ended.
RejectOn(o) ==
    IF pstate[o] = "pending" THEN EnterVerdict(o, "rejected") ELSE UNCHANGED <<pstate, row>>

PinsMoved(o) == pins[o] # "held"
SeatInvalidation(o) == Seat[o] \in {"consent", "session"} /\ PinsMoved(o)

-----------------------------------------------------------------------------
(***************************************************************************)
(* Opening.                                                                *)
(***************************************************************************)
Undelivered(c) == {o \in Orders : Source[o] = c /\ row[o]["reserved"] = "queued" /\ "reserve" \notin xfer[o]}
ClaimSpendable(c) ==
    LET owed[S \in SUBSET Orders] ==
            IF S = {} THEN 0 ELSE LET o == CHOOSE o \in S : TRUE IN Cost[o] + owed[S \ {o}]
    IN  free[c] - owed[Undelivered(c)]

CheckExecutable(o) == ClaimSpendable(Source[o]) >= Cost[o]

HasOpenAgainst(c) == \E o \in Orders : Source[o] = c /\ IsOpen(o)

\* One open order per fund-owned source: the unique index.
InsertOrder(o) ==
    /\ pstate[o] = "none"
    /\ Source[o] \in Owned => ~HasOpenAgainst(Source[o])
    /\ pstate' = [pstate EXCEPT ![o] = "pending"]
    /\ opener' = IF Seat[o] = "concierge" THEN opener \union {o} ELSE opener

OpenPayment(o) ==
    /\ Seat[o] # "consilium"
    /\ CheckExecutable(o)
    /\ InsertOrder(o)
    /\ UNCHANGED <<row, wd, decisionVars, ledgerVars, appr, known, execBy, dead, reported, withdrawn, execVars>>

\* propose_on_open: concierge takes the proposal ...
ProposeTaken(o) ==
    /\ o \in opener /\ appr[o] = "none"
    /\ appr' = [appr EXCEPT ![o] = "open"]
    /\ UNCHANGED <<pstate, row, wd, decisionVars, ledgerVars, opener, known, execBy, dead, reported, withdrawn, execVars>>

\* ... and its id is stored, whatever became of the order meanwhile,
ProposeStored(o) ==
    /\ o \in opener /\ appr[o] # "none"
    /\ known' = known \union {o}
    /\ opener' = opener \ {o}
    /\ UNCHANGED <<pstate, row, wd, decisionVars, ledgerVars, appr, execBy, dead, reported, withdrawn, execVars>>

\* or it is refused, cannot be reached or its answer is lost: the order closes.
ProposeRefused(o) ==
    /\ o \in opener
    /\ RejectOn(o)
    /\ opener' = opener \ {o}
    /\ UNCHANGED <<wd, decisionVars, ledgerVars, appr, known, execBy, dead, reported, withdrawn, execVars>>

OpenerDies(o) ==
    /\ "crash" \in PayFaults /\ o \in opener
    /\ opener' = opener \ {o}
    /\ UNCHANGED <<pstate, row, wd, decisionVars, ledgerVars, appr, known, execBy, dead, reported, withdrawn, execVars>>

Unproposed(o) == Seat[o] = "concierge" /\ pstate[o] = "pending" /\ o \notin known

\* The round closes an order that stayed unproposed for long.
CloseUnproposed(o) ==
    /\ Unproposed(o)
    /\ RejectOn(o)
    /\ UNCHANGED <<wd, decisionVars, ledgerVars, seatVars, execVars>>

-----------------------------------------------------------------------------
(***************************************************************************)
(* Deciding.                                                               *)
(***************************************************************************)
CancelPayment(o) ==
    /\ EnterVerdict(o, "cancelled")
    /\ UNCHANGED <<wd, decisionVars, ledgerVars, seatVars, execVars>>

ExpirePayment(o) ==
    /\ o \in late
    /\ EnterVerdict(o, "expired")
    /\ UNCHANGED <<wd, decisionVars, ledgerVars, seatVars, execVars>>

Live(o) == pstate[o] = "pending" /\ o \notin late

\* The pins moved before the answer: it is not taken, the order closes.
AnswerInvalid(o) ==
    /\ NeedsConsent(o) /\ answer[o] = "pending" /\ Live(o) /\ o \notin burned
    /\ SeatInvalidation(o)
    /\ EnterVerdict(o, "rejected")
    /\ UNCHANGED <<wd, decisionVars, ledgerVars, seatVars, execVars>>

\* Slip: a wrong code that uses the last attempt burns nothing.
SubmitWrongForever(o) ==
    /\ Seat[o] = "consent" /\ answer[o] = "pending" /\ Live(o) /\ o \notin burned /\ ~SeatInvalidation(o)
    /\ tries' = [tries EXCEPT ![o] = @ + 1]
    /\ UNCHANGED <<pstate, row, burned>>
    /\ UNCHANGED <<wd, late, pins, answer, ledgerVars, seatVars, execVars>>

\* A wrong code of the mailed credential: the fifth burns it.
SubmitWrong(o) ==
    /\ Seat[o] = "consent" /\ answer[o] = "pending" /\ Live(o) /\ o \notin burned /\ ~SeatInvalidation(o)
    /\ tries' = [tries EXCEPT ![o] = @ + 1]
    /\ IF tries'[o] >= MaxCodeAttempts
       THEN burned' = burned \union {o} /\ EnterVerdict(o, "rejected")
       ELSE UNCHANGED <<pstate, row, burned>>
    /\ UNCHANGED <<wd, late, pins, answer, ledgerVars, seatVars, execVars>>

Decide(o, decision) ==
    /\ answer' = [answer EXCEPT ![o] = decision]
    /\ IF decision = "approve" THEN Approve(o) ELSE EnterVerdict(o, "rejected")

\* The mailed credential with the right code: the attempt is counted first.
SubmitConsent(o, decision) ==
    /\ Seat[o] = "consent" /\ answer[o] = "pending" /\ Live(o) /\ o \notin burned /\ ~SeatInvalidation(o)
    /\ tries' = [tries EXCEPT ![o] = IF @ < MaxCodeAttempts THEN @ + 1 ELSE @]
    /\ Decide(o, decision)
    /\ UNCHANGED <<wd, late, pins, burned, ledgerVars, seatVars, execVars>>

AnswerSessionConsent(o, decision) ==
    /\ Seat[o] = "session" /\ answer[o] = "pending" /\ Live(o) /\ ~SeatInvalidation(o)
    /\ Decide(o, decision)
    /\ UNCHANGED <<wd, late, pins, tries, burned, ledgerVars, seatVars, execVars>>

DueToCheck(o) == pstate[o] = "pending" /\ o \in known

\* settle_one: concierge's approval ended without passing.
SettleDecided(o) ==
    /\ DueToCheck(o)
    /\ appr[o] \in {"ended", "void"}
    /\ RejectOn(o)
    /\ UNCHANGED <<wd, decisionVars, ledgerVars, seatVars, execVars>>

-----------------------------------------------------------------------------
(***************************************************************************)
(* Executing.                                                              *)
(***************************************************************************)
Goes(x, label) == at' = [at EXCEPT ![x] = label]
Keep(x, o, outcome) == job' = [job EXCEPT ![x] = o] /\ out' = [out EXCEPT ![x] = outcome]

\* Where execute goes after its reads of the order.
Verdict(o) ==
    IF o \in execBy /\ o \in dead THEN "failed"
    ELSE IF SeatInvalidation(o) THEN "void"
    ELSE "none"

ExecuteReads(x, o) ==
    /\ Keep(x, o, Verdict(o))
    /\ Goes(x, IF Verdict(o) # "none" THEN "record"
               ELSE IF SettlesOnTheLedger(o) THEN "settle" ELSE "create")

AwaitingExecution(o) == pstate[o] = "approved"

\* The sweeper, or the caller whose answer approved the order.
SweepPayment(x, o) ==
    /\ at[x] = "idle" /\ AwaitingExecution(o)
    /\ ExecuteReads(x, o)
    /\ round' = [round EXCEPT ![x] = FALSE]
    /\ UNCHANGED <<pstate, row, wd, decisionVars, ledgerVars, seatVars, orphaned>>

\* reservation_status: what the relay has made of the reservation.
ReservationStatus(o) ==
    IF o \in step THEN "applied" ELSE IF row[o]["reserved"] = "parked" THEN "parked" ELSE "pending"

\* Slip: a reservation still queued is believed to be on the ledger.
SettleEagerly(x) ==
    LET o == job[x] IN
    /\ at[x] = "settle"
    /\ Keep(x, o, "executed") /\ Goes(x, "record")
    /\ UNCHANGED <<pstate, row, wd, decisionVars, ledgerVars, seatVars, round, orphaned>>

\* The order settles once the relay recorded its reserve and the ledger holds it.
SettleOnTheLedger(x) ==
    LET o == job[x] IN
    /\ at[x] = "settle"
    /\ CASE ReservationStatus(o) = "applied" /\ "reserve" \in xfer[o] -> Keep(x, o, "executed") /\ Goes(x, "record")
         [] ReservationStatus(o) = "parked" -> Keep(x, o, "failed") /\ Goes(x, "record")
         [] OTHER -> Goes(x, "idle") /\ UNCHANGED <<job, out>>
    /\ UNCHANGED <<pstate, row, wd, decisionVars, ledgerVars, seatVars, round, orphaned>>

\* The withdrawal of the order's own id, always queued.
CreateWithdrawal(x) ==
    LET o == job[x] IN
    /\ at[x] = "create"
    /\ \/ wd[o] # "none" /\ Keep(x, o, "executed") /\ Goes(x, "record") /\ UNCHANGED <<wd, free>>
       \/ /\ wd[o] = "none" /\ ClaimSpendable(Source[o]) >= Cost[o]
          /\ wd' = [wd EXCEPT ![o] = "queued"]
          /\ free' = [free EXCEPT ![Source[o]] = @ - Cost[o]]
          /\ Keep(x, o, "executed") /\ Goes(x, "record")
       \/ wd[o] = "none" /\ ClaimSpendable(Source[o]) < Cost[o] /\ Goes(x, "refind") /\ UNCHANGED <<wd, free, job, out>>
    /\ UNCHANGED <<pstate, row, decisionVars, xfer, refused, step, seatVars, round, orphaned>>

\* The subject is frozen: the order stays approved for a later sweep.
WithdrawalHeld(x) ==
    /\ at[x] = "create" /\ wd[job[x]] = "none" /\ "hold" \in PayFaults
    /\ Goes(x, "idle")
    /\ UNCHANGED <<pstate, row, wd, decisionVars, ledgerVars, seatVars, job, out, round, orphaned>>

\* A refusal is believed only if the withdrawal is still not there.
RefindWithdrawal(x) ==
    LET o == job[x] IN
    /\ at[x] = "refind"
    /\ Keep(x, o, IF wd[o] # "none" THEN "executed" ELSE "failed")
    /\ Goes(x, "record")
    /\ UNCHANGED <<pstate, row, wd, decisionVars, ledgerVars, seatVars, round, orphaned>>

\* withdrawals::cancel_on, for a withdrawal that can still be voided.
CancelOn(o) ==
    IF wd[o] = "queued"
    THEN /\ wd' = [wd EXCEPT ![o] = "cancelled"]
         /\ free' = [free EXCEPT ![Source[o]] = @ + Cost[o]]
    ELSE UNCHANGED <<wd, free>>

\* Back from execute: a round goes on to report a final state.
Returns(x, ok) ==
    /\ Goes(x, IF ok /\ round[x] THEN "report" ELSE "idle")
    /\ out' = [out EXCEPT ![x] = "none"]

\* The pins moved since the view was read, or had moved then.
RecordVoid(x) ==
    LET o == job[x] IN
    /\ at[x] = "record" /\ pstate[o] = "approved"
    /\ out[x] = "void" \/ (out[x] = "executed" /\ SeatInvalidation(o))
    /\ IF wd[o] = "dispatched"
       THEN MarkExecuted(o) /\ UNCHANGED <<wd, free>> /\ Returns(x, TRUE)
       ELSE MarkExecutionFailed(o) /\ CancelOn(o) /\ Returns(x, out[x] = "void")
    /\ UNCHANGED <<decisionVars, xfer, refused, step, seatVars, job, round, orphaned>>

\* Slip: the record of a withdrawal over a closed order is only refused.
RecordOverClosedOnly(x) ==
    LET o == job[x] IN
    /\ at[x] = "record" /\ out[x] = "executed" /\ Tier[o] = "external" /\ Closed(o)
    /\ Goes(x, "idle")
    /\ UNCHANGED <<wd, free>>
    /\ UNCHANGED <<pstate, row, decisionVars, xfer, refused, step, seatVars, job, out, round, orphaned>>

\* The losing creator: another caller closed the order meanwhile.
RecordOverClosed(x) ==
    LET o == job[x] IN
    /\ at[x] = "record" /\ out[x] = "executed" /\ Tier[o] = "external" /\ Closed(o)
    /\ CancelOn(o)
    /\ Goes(x, "idle")
    /\ UNCHANGED <<pstate, row, decisionVars, xfer, refused, step, seatVars, job, out, round, orphaned>>

\* Slip: the pins are not read again under the order's lock.
RecordUnpinned(x) ==
    LET o == job[x] IN
    /\ at[x] = "record"
    /\ ~(out[x] = "executed" /\ Tier[o] = "external" /\ Closed(o))
    /\ \/ out[x] = "executed" /\ MarkExecuted(o) /\ Returns(x, TRUE)
       \/ out[x] # "executed" /\ MarkExecutionFailed(o) /\ Returns(x, TRUE)
       \/ pstate[o] # "approved" /\ Returns(x, pstate[o] = out[x]) /\ UNCHANGED <<pstate, row>>
    /\ UNCHANGED <<wd, decisionVars, ledgerVars, seatVars, job, round, orphaned>>

RecordExecution(x) ==
    LET o == job[x] IN
    /\ at[x] = "record"
    /\ ~(out[x] = "executed" /\ Tier[o] = "external" /\ Closed(o))
    /\ \/ out[x] = "executed" /\ ~SeatInvalidation(o) /\ MarkExecuted(o) /\ Returns(x, TRUE)
       \/ out[x] = "failed" /\ MarkExecutionFailed(o) /\ Returns(x, TRUE)
       \/ /\ pstate[o] # "approved" /\ UNCHANGED <<pstate, row>>
          /\ Returns(x, pstate[o] = (IF out[x] = "executed" THEN "executed" ELSE "execution_failed"))
    /\ UNCHANGED <<wd, decisionVars, ledgerVars, seatVars, job, round, orphaned>>

\* A caller dies; what it created stays.
ExecutorDies(x) ==
    /\ "crash" \in PayFaults /\ at[x] # "idle"
    /\ Goes(x, "idle")
    /\ orphaned' = IF at[x] = "record" /\ out[x] = "executed" THEN orphaned \union {job[x]} ELSE orphaned
    /\ UNCHANGED <<pstate, row, wd, decisionVars, ledgerVars, seatVars, job, out, round>>

-----------------------------------------------------------------------------
(***************************************************************************)
(* The round over concierge's approvals.                                   *)
(***************************************************************************)
PullApproved(x, o) ==
    /\ at[x] = "idle" /\ appr[o] = "passed"
    /\ Keep(x, o, "none") /\ Goes(x, "pulled")
    /\ round' = [round EXCEPT ![x] = TRUE]
    /\ UNCHANGED <<pstate, row, wd, decisionVars, ledgerVars, seatVars, orphaned>>

\* carry_out reads the order: an ended one is voided, a final one reported.
CarryOut(x) ==
    LET o == job[x] IN
    /\ at[x] = "pulled"
    /\ CASE pstate[o] \in {"pending", "approved"} -> Goes(x, "confirm") /\ UNCHANGED <<job, out>>
         [] pstate[o] \in {"executed", "execution_failed"} -> Goes(x, "report") /\ UNCHANGED <<job, out>>
         [] OTHER -> Goes(x, "report") /\ Keep(x, o, "void")
    /\ UNCHANGED <<pstate, row, wd, decisionVars, ledgerVars, seatVars, round, orphaned>>

\* The decision is read again: only a passed one is carried out.
Reread(x) ==
    /\ at[x] = "confirm"
    /\ Goes(x, IF appr[job[x]] = "passed" THEN "approve" ELSE "idle")
    /\ UNCHANGED <<pstate, row, wd, decisionVars, ledgerVars, seatVars, job, out, round, orphaned>>

\* record_concierge_approval stores the window and approves; a conflict rolls
\* back both and the decision is reported void.
RecordConciergeApproval(x) ==
    LET o == job[x] IN
    /\ at[x] = "approve"
    /\ \/ /\ pstate[o] \in {"approved", "executed"} /\ UNCHANGED <<pstate, row>>
          /\ known' = known \union {o} /\ execBy' = execBy \union {o}
          /\ Goes(x, "execute") /\ UNCHANGED <<job, out>>
       \/ /\ Live(o) /\ Approve(o)
          /\ known' = known \union {o} /\ execBy' = execBy \union {o}
          /\ Goes(x, "execute") /\ UNCHANGED <<job, out>>
       \/ /\ pstate[o] \notin {"approved", "executed"} /\ ~Live(o)
          /\ Keep(x, o, "void") /\ Goes(x, "report")
          /\ UNCHANGED <<pstate, row, known, execBy>>
    /\ UNCHANGED <<wd, decisionVars, ledgerVars, opener, appr, dead, reported, withdrawn, round, orphaned>>

\* The round's own call of execute.
RoundExecutes(x) ==
    LET o == job[x] IN
    /\ at[x] = "execute"
    /\ CASE pstate[o] = "approved" -> ExecuteReads(x, o)
         [] pstate[o] = "executed" -> Goes(x, "report") /\ UNCHANGED <<job, out>>
         [] OTHER -> Goes(x, "idle") /\ UNCHANGED <<job, out>>
    /\ UNCHANGED <<pstate, row, wd, decisionVars, ledgerVars, seatVars, round, orphaned>>

OutcomeOf(x) ==
    IF out[x] = "void" THEN "void"
    ELSE IF pstate[job[x]] = "executed" THEN "executed" ELSE "failed"

\* Concierge takes an outcome for a passed decision and refuses any other.
Report(x) ==
    /\ at[x] = "report"
    /\ \/ appr[job[x]] = "passed" /\ appr' = [appr EXCEPT ![job[x]] = OutcomeOf(x)]
       \/ appr[job[x]] # "passed" /\ UNCHANGED appr
    /\ Goes(x, IF OutcomeOf(x) = "void" THEN "idle" ELSE "stamp")
    /\ UNCHANGED <<pstate, row, wd, decisionVars, ledgerVars, opener, known, execBy, dead, reported, withdrawn, job, out, round, orphaned>>

ReportLater(x) ==
    /\ "unavailable" \in PayFaults /\ at[x] = "report"
    /\ Goes(x, "idle")
    /\ UNCHANGED <<pstate, row, wd, decisionVars, ledgerVars, seatVars, job, out, round, orphaned>>

Reported(x) ==
    /\ at[x] = "stamp"
    /\ reported' = reported \union {job[x]}
    /\ Goes(x, "idle")
    /\ UNCHANGED <<pstate, row, wd, decisionVars, ledgerVars, opener, appr, known, execBy, dead, withdrawn, job, out, round, orphaned>>

DueToReport(o) == o \in known \ reported /\ pstate[o] \in {"executed", "execution_failed"}
DueToWithdraw(o) == o \in known \ (withdrawn \union reported) /\ pstate[o] \in {"cancelled", "expired"}

\* report_ended: a final order whose outcome concierge was not told.
ReportEnded(x, o) ==
    /\ at[x] = "idle" /\ DueToReport(o)
    /\ Keep(x, o, "none") /\ Goes(x, "report")
    /\ UNCHANGED <<pstate, row, wd, decisionVars, ledgerVars, seatVars, round, orphaned>>

\* withdraw_dead: concierge cancels an open approval, refuses for any other.
WithdrawDead(o) ==
    /\ DueToWithdraw(o)
    /\ appr' = [appr EXCEPT ![o] = IF @ = "open" THEN "ended" ELSE @]
    /\ withdrawn' = withdrawn \union {o}
    /\ UNCHANGED <<pstate, row, wd, decisionVars, ledgerVars, opener, known, execBy, dead, reported, execVars>>

-----------------------------------------------------------------------------
(***************************************************************************)
(* The relay, one leg at a time (plan_payment).                            *)
(***************************************************************************)
Due(o, e) == row[o][e] = "queued" /\ (e # "reserved" => row[o]["reserved"] # "queued")

Delivered(o, e) == row' = [row EXCEPT ![o][e] = "done"]

ParkPayment(o, e, leg) ==
    /\ row' = [row EXCEPT ![o][e] = "parked"]
    /\ refused' = [refused EXCEPT ![o] = @ \union {leg}]

RelayReserve(o) ==
    /\ Due(o, "reserved")
    /\ \/ /\ "reserve" \notin xfer[o] \union refused[o] /\ free[Source[o]] >= Cost[o]
          /\ xfer' = [xfer EXCEPT ![o] = @ \union {"reserve"}]
          /\ free' = [free EXCEPT ![Source[o]] = @ - Cost[o]]
          /\ UNCHANGED <<row, refused, step>>
       \/ /\ "reserve" \in xfer[o] /\ o \notin step
          /\ step' = step \union {o} /\ UNCHANGED <<row, xfer, refused, free>>
       \/ o \in step /\ Delivered(o, "reserved") /\ UNCHANGED <<xfer, refused, step, free>>
       \/ /\ "reserve" \notin xfer[o]
          /\ "reserve" \in refused[o] \/ free[Source[o]] < Cost[o]
          /\ ParkPayment(o, "reserved", "reserve") /\ UNCHANGED <<xfer, step, free>>
    /\ UNCHANGED <<pstate, wd, decisionVars, seatVars, execVars>>

RelaySettle(o) ==
    /\ Due(o, "settled")
    /\ \/ /\ "settle" \notin xfer[o] /\ "reserve" \in xfer[o]
          /\ xfer' = [xfer EXCEPT ![o] = @ \union {"settle"}] /\ UNCHANGED <<row, refused>>
       \/ /\ "settle" \in xfer[o] /\ "transfer" \notin xfer[o]
          /\ xfer' = [xfer EXCEPT ![o] = @ \union {"transfer"}] /\ UNCHANGED <<row, refused>>
       \/ "transfer" \in xfer[o] /\ Delivered(o, "settled") /\ UNCHANGED <<xfer, refused>>
       \/ "reserve" \notin xfer[o] /\ ParkPayment(o, "settled", "settle") /\ UNCHANGED xfer
    /\ UNCHANGED <<pstate, wd, decisionVars, step, free, seatVars, execVars>>

\* A void that does not find the reservation is retried, then parked.
RelayRelease(o) ==
    /\ Due(o, "released")
    /\ \/ /\ "reserve" \in xfer[o] /\ "void" \notin xfer[o] \union refused[o]
          /\ xfer' = [xfer EXCEPT ![o] = @ \union {"void"}]
          /\ free' = [free EXCEPT ![Source[o]] = @ + Cost[o]]
          /\ UNCHANGED <<row, refused>>
       \/ "void" \in xfer[o] /\ Delivered(o, "released") /\ UNCHANGED <<xfer, refused, free>>
       \/ /\ "reserve" \notin xfer[o] \/ "void" \in refused[o]
          /\ ParkPayment(o, "released", "void") /\ UNCHANGED <<xfer, free>>
    /\ UNCHANGED <<pstate, wd, decisionVars, step, seatVars, execVars>>

UnparkPayment(o, e) ==
    /\ row[o][e] = "parked"
    /\ row' = [row EXCEPT ![o][e] = "queued"]
    /\ UNCHANGED <<pstate, wd, decisionVars, ledgerVars, seatVars, execVars>>

-----------------------------------------------------------------------------
(***************************************************************************)
(* The environment: time, the investor's account, the withdrawal's own     *)
(* saga, other flows of the claim, concierge.                              *)
(***************************************************************************)
OrderLapses(o) ==
    /\ pstate[o] = "pending" /\ o \notin late
    /\ late' = late \union {o}
    /\ UNCHANGED <<pstate, row, wd, pins, answer, tries, burned, ledgerVars, seatVars, execVars>>

\* A mailbox may change back; revoked sessions stay revoked.
MovePins(o, to) ==
    /\ NeedsConsent(o) /\ IsOpen(o) /\ pins[o] \notin {"sessions", to}
    /\ pins' = [pins EXCEPT ![o] = to]
    /\ UNCHANGED <<pstate, row, wd, late, answer, tries, burned, ledgerVars, seatVars, execVars>>

DispatchPaid(o) ==
    /\ wd[o] = "queued"
    /\ wd' = [wd EXCEPT ![o] = "dispatched"]
    /\ UNCHANGED <<pstate, row, decisionVars, ledgerVars, seatVars, execVars>>

CancelPaid(o) ==
    /\ wd[o] = "queued" /\ CancelOn(o)
    /\ UNCHANGED <<pstate, row, decisionVars, xfer, refused, step, seatVars, execVars>>

\* Another flow takes from, or gives back to, the claim.
OtherFlow(c, n) ==
    /\ free[c] + n \in 0..Funds[c] /\ n # 0
    /\ free' = [free EXCEPT ![c] = @ + n]
    /\ UNCHANGED <<pstate, row, wd, decisionVars, xfer, refused, step, seatVars, execVars>>

\* The owners pass or end an approval; concierge voids a passed one whose
\* window is over.
OwnersDecide(o, to) ==
    /\ \/ appr[o] = "open" /\ to \in {"passed", "ended"}
       \/ appr[o] = "passed" /\ o \in dead /\ to = "ended"
    /\ appr' = [appr EXCEPT ![o] = to]
    /\ UNCHANGED <<pstate, row, wd, decisionVars, ledgerVars, opener, known, execBy, dead, reported, withdrawn, execVars>>

WindowEnds(o) ==
    /\ appr[o] = "passed" /\ o \notin dead
    /\ dead' = dead \union {o}
    /\ UNCHANGED <<pstate, row, wd, decisionVars, ledgerVars, opener, appr, known, execBy, reported, withdrawn, execVars>>

-----------------------------------------------------------------------------
OrderStep(o) ==
    \/ OpenPayment(o) \/ CancelPayment(o) \/ ExpirePayment(o)
    \/ AnswerInvalid(o) \/ SubmitWrong(o)
    \/ \E d \in {"approve", "reject"} : SubmitConsent(o, d) \/ AnswerSessionConsent(o, d)
ProposalStep(o) ==
    \/ ProposeTaken(o) \/ ProposeStored(o) \/ ProposeRefused(o) \/ OpenerDies(o)
    \/ CloseUnproposed(o) \/ SettleDecided(o) \/ WithdrawDead(o)
    \/ WindowEnds(o) \/ \E to \in {"passed", "ended"} : OwnersDecide(o, to)
ExecuteStep(x) ==
    \/ \E o \in Orders : SweepPayment(x, o)
    \/ SettleOnTheLedger(x) \/ CreateWithdrawal(x) \/ WithdrawalHeld(x) \/ RefindWithdrawal(x)
    \/ RecordVoid(x) \/ RecordOverClosed(x) \/ RecordExecution(x) \/ ExecutorDies(x)
RoundStep(x) ==
    \/ \E o \in Orders : PullApproved(x, o) \/ ReportEnded(x, o)
    \/ CarryOut(x) \/ Reread(x) \/ RecordConciergeApproval(x) \/ RoundExecutes(x)
    \/ Report(x) \/ ReportLater(x) \/ Reported(x)
PayRelayStep(o) == RelayReserve(o) \/ RelaySettle(o) \/ RelayRelease(o) \/ \E e \in PayEvents : UnparkPayment(o, e)
PayWorldStep(o) ==
    \/ OrderLapses(o) \/ DispatchPaid(o) \/ CancelPaid(o)
    \/ \E to \in {"held", "email", "sessions"} : MovePins(o, to)
PayNext ==
    \/ \E o \in Orders : OrderStep(o) \/ ProposalStep(o) \/ PayRelayStep(o) \/ PayWorldStep(o)
    \/ \E x \in Executors : ExecuteStep(x) \/ RoundStep(x)
    \/ \E c \in Claims, n \in {-1, 1} : OtherFlow(c, n)

PaySpec == PayInit /\ [][PayNext]_payVars

-----------------------------------------------------------------------------
\* Types of the order, its seat, its rows, its transfers and the executors.
PayTypeOK ==
    /\ pstate \in [Orders -> PaymentStates \union {"none"}]
    /\ late \subseteq Orders /\ burned \subseteq Orders /\ step \subseteq Orders
    /\ pins \in [Orders -> {"held", "email", "sessions"}]
    /\ answer \in [Orders -> {"pending", "approve", "reject"}]
    /\ tries \in [Orders -> 0..MaxCodeAttempts]
    /\ row \in [Orders -> [PayEvents -> {"none", "queued", "parked", "done"}]]
    /\ xfer \in [Orders -> SUBSET PayLegs] /\ refused \in [Orders -> SUBSET PayLegs]
    /\ free \in [Claims -> Nat]
    /\ wd \in [Orders -> {"none", "queued", "dispatched", "cancelled"}]
    /\ appr \in [Orders -> {"none", "open", "passed", "ended", "executed", "failed", "void"}]
    /\ UNION {opener, known, execBy, dead, reported, withdrawn, orphaned} \subseteq Orders
    /\ at \in [Executors -> {"idle", "settle", "create", "refind", "record", "pulled", "confirm",
                              "approve", "execute", "report", "stamp"}]
    /\ job \in [Executors -> Orders]
    /\ out \in [Executors -> {"none", "executed", "failed", "void"}]
    /\ round \in [Executors -> BOOLEAN]

\* The ledger follows the order: nothing settles or pays out for an order that
\* did not execute, an order executes as a transfer only over its reservation,
\* and a reservation is never both settled and released.
MoneyFollowsOrder ==
    \A o \in Orders :
        /\ "settle" \in xfer[o] \/ "transfer" \in xfer[o] => pstate[o] = "executed"
        /\ "void" \in xfer[o] => pstate[o] = "execution_failed"
        /\ pstate[o] = "executed" /\ SettlesOnTheLedger(o) =>
              "reserve" \in xfer[o] /\ row[o]["settled"] \in {"queued", "done"}

\* No stranded reservation: what an order that failed still holds on the ledger
\* has its release on the way, never parked and never missing.
HeldIsReleased ==
    \A o \in Orders :
        Closed(o) /\ "reserve" \in xfer[o] /\ "void" \notin xfer[o] => row[o]["released"] = "queued"

\* A withdrawal still queued under an order that closed is in the hands of the
\* caller that will void it, unless that caller died with it.
ClosedOrderPaysNothing ==
    \A o \in Orders \ orphaned :
        Closed(o) /\ wd[o] = "queued" =>
            \E x \in Executors : job[x] = o /\ at[x] = "record" /\ out[x] = "executed"

\* An investor's order executes only while the session and the mailbox that
\* consented still stand, or when the money had already left.
ConsentStandsAtExecution ==
    [][\A o \in Orders :
        pstate[o] # "executed" /\ pstate'[o] = "executed" =>
            ~SeatInvalidation(o) \/ wd[o] = "dispatched"]_payVars

\* What concierge was told of its decision is what became of the order.
ConciergeKnowsTheTruth ==
    \A o \in Orders :
        /\ appr[o] = "executed" => pstate[o] = "executed"
        /\ appr[o] = "failed" => pstate[o] = "execution_failed"
        /\ appr[o] = "void" => ~(pstate[o] \in {"approved", "executed"}) /\ ~Live(o)

\* The ledger and the queue never disagree with the order: what moved follows its state, and
\* what a failed order still holds is on its way back.
OrderMoneyIsRight == MoneyFollowsOrder /\ HeldIsReleased

\* The two parties that ordered it agree on how it ended: a closed order pays nothing out,
\* and concierge was told what became of the decision it took.
EndIsKnown == ClosedOrderPaysNothing /\ ConciergeKnowsTheTruth
=============================================================================
