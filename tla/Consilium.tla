----------------------------- MODULE Consilium -----------------------------
(***************************************************************************)
(* The owners' consilium: an owner opens a request, the other owners vote  *)
(* by mailed token and code, and an approved request is executed as its    *)
(* kind says: a payment order of module Payments is approved, a fee        *)
(* policy, a valuation, a grant or seed capital is applied.  Opening a     *)
(* payment and its quorum, applying an effect and recording it, are        *)
(* transactions apart, and the roster may change between any two.          *)
(***************************************************************************)
EXTENDS Payments

CONSTANTS
    Users,        \* users that are or may become owners
    FirstOwners,  \* the roster at the start
    Consilia,     \* requests
    Kind,         \* [Consilia -> ConsiliumKinds]
    OrderOf,      \* [Consilia -> Orders]: subject of a payment request
    Claim,        \* [Consilia -> ...]: source_claim
    Initiator,    \* [Consilia -> Users]
    Runners,      \* concurrent callers of consilium::execute
    MinOwners,    \* MIN_OWNERS
    CodeAttempts  \* MAX_CODE_ATTEMPTS of a seat

ConsiliumKinds == {"payment", "valuation_override", "fee_policy", "holder_grant", "seed_capital"}
ConsiliumStates ==
    {"open", "approved", "rejected", "expired", "cancelled", "executed", "execution_failed"}
VoteDecisions == {"pending", "approve", "reject"}

ASSUME ConsiliumAssumption ==
    /\ IsFiniteSet(Users) /\ Consilia # {}
    /\ FirstOwners \subseteq Users
    /\ Kind \in [Consilia -> ConsiliumKinds]
    /\ OrderOf \in [Consilia -> Orders]
    /\ \A c \in Consilia : Kind[c] = "payment" =>
        /\ Seat[OrderOf[c]] = "consilium"
        /\ \A d \in Consilia : Kind[d] = "payment" /\ OrderOf[d] = OrderOf[c] => d = c
    /\ Initiator \in [Consilia -> Users]
    /\ MinOwners \in Nat /\ CodeAttempts \in Nat \ {0}

VARIABLES
    owners,      \* users with role owner
    cooling,     \* the roster changed less than the cooling-off ago
    cstate,      \* consilium.state
    roster,      \* [Consilia -> SUBSET Users]: owner_count and seats at the open
    ballot,      \* consilium_voter.decision
    codeTries,   \* consilium_voter.attempts
    burnt,       \* [Consilia -> SUBSET Users]: seats with burned_at
    lapsed,      \* requests past expires_at
    graceOver,   \* requests past the execution grace
    moved,       \* requests the roster changed for since they opened
    opening,     \* [Consilia -> ...]: the call that opens a payment with its quorum
    effected,    \* requests whose effect other than a payment is applied
    closedSubj,  \* fee changes closed by their verdict
    invite,      \* [Consilia -> [Users -> ...]]: the seat's invitation mail
    mailLock, seatLock,      \* [Consilia -> holder]
    closing,     \* [Consilia -> verdict a closing transaction is after]
    cat, cjob, cout,         \* registers of the runners
    settled      \* history: requests voided by the roster before any runner passed its checks

rosterVars  == <<owners, cooling, moved, settled>>
windowVars  == <<lapsed, graceOver>>
subjectVars == <<opening, effected, closedSubj>>
voteVars  == <<ballot, codeTries, burnt>>
mailVars  == <<invite, mailLock, seatLock, closing>>
runVars   == <<cat, cjob, cout>>
consiliumVars == <<rosterVars, windowVars, subjectVars, cstate, roster, voteVars, mailVars, runVars>>
allVars == <<payVars, consiliumVars>>

\* The requests of live are still to be opened; the others expired in the past.
ConsiliumInitWith(live) ==
    /\ owners = FirstOwners /\ cooling = FALSE
    /\ cstate = [c \in Consilia |-> IF c \in live THEN "none" ELSE "expired"] /\ roster = [c \in Consilia |-> {}]
    /\ ballot = [c \in Consilia |-> [u \in Users |-> "pending"]]
    /\ codeTries = [c \in Consilia |-> [u \in Users |-> 0]] /\ burnt = [c \in Consilia |-> {}]
    /\ lapsed = {} /\ graceOver = {} /\ moved = {} /\ effected = {} /\ closedSubj = {} /\ settled = {}
    /\ opening = [c \in Consilia |-> IF c \in live THEN "none" ELSE "done"]
    /\ invite = [c \in Consilia |-> [u \in Users |-> "none"]]
    /\ mailLock = [c \in Consilia |-> "free"] /\ seatLock = [c \in Consilia |-> "free"]
    /\ closing = [c \in Consilia |-> "none"]
    /\ cat = [x \in Runners |-> "idle"] /\ cjob = [x \in Runners |-> CHOOSE c \in Consilia : TRUE]
    /\ cout = [x \in Runners |-> "none"]
ConsiliumInit == ConsiliumInitWith(Consilia)

-----------------------------------------------------------------------------
(***************************************************************************)
(* The aggregate.                                                          *)
(***************************************************************************)
IsPayment(c) == Kind[c] = "payment"

Threshold(n) == n \div 2 + 1
Quorum(c)    == Threshold(Cardinality(roster[c]))
Eligible(c)  == roster[c] \ {Initiator[c]}

\* A vote counts while its voter is an owner; the one being cast always does.
Counted(votes, voter, decision) ==
    Cardinality({u \in Users : votes[u] = decision /\ (u \in owners \/ u = voter)})

\* settle_tally after a vote.
Tally(c, votes, voter) ==
    IF Counted(votes, voter, "approve") >= Quorum(c) THEN "approved"
    ELSE IF Counted(votes, voter, "reject") > Cardinality(Eligible(c)) - Quorum(c) THEN "rejected"
    ELSE "open"

Approvals(c) == Cardinality({u \in owners : ballot[c][u] = "approve"})

-----------------------------------------------------------------------------
(***************************************************************************)
(* Opening.                                                                *)
(***************************************************************************)
RequireSettledRoster == ~cooling
ClaimFree(c) == ~\E d \in Consilia : Claim[d] = Claim[c] /\ cstate[d] = "open"

MayOpen(c) ==
    /\ cstate[c] = "none"
    /\ RequireSettledRoster
    /\ Initiator[c] \in owners
    /\ Cardinality(owners) >= MinOwners
    /\ ClaimFree(c)

\* open_on: the request, its seats and their invitations, in one transaction.
OpenOn(c) ==
    /\ MayOpen(c)
    /\ cstate' = [cstate EXCEPT ![c] = "open"]
    /\ roster' = [roster EXCEPT ![c] = owners]
    /\ invite' = [invite EXCEPT ![c] = [u \in Users |-> IF u \in owners \ {Initiator[c]} THEN "queued" ELSE "none"]]
    /\ UNCHANGED <<rosterVars, windowVars, effected, closedSubj, voteVars, mailLock, seatLock, closing, runVars>>

\* A valuation override, a grant, seed capital, a fee policy: opened alone.
OpenRequest(c) ==
    /\ ~IsPayment(c)
    /\ OpenOn(c)
    /\ UNCHANGED <<opening, payVars>>

\* A payment: no other may be open against its source when it is asked, ...
OpenPaymentAsked(c) ==
    /\ IsPayment(c) /\ opening[c] = "none"
    /\ CheckExecutable(OrderOf[c]) /\ ~HasOpenAgainst(Source[OrderOf[c]])
    /\ opening' = [opening EXCEPT ![c] = "quorum"]
    /\ UNCHANGED <<rosterVars, windowVars, cstate, roster, effected, closedSubj, voteVars, mailVars, runVars, payVars>>

\* then the quorum is seated, or refused,
OpenQuorum(c) ==
    /\ opening[c] = "quorum"
    /\ \/ OpenOn(c) /\ opening' = [opening EXCEPT ![c] = "order"]
       \/ /\ ~MayOpen(c) /\ opening' = [opening EXCEPT ![c] = "done"]
          /\ UNCHANGED <<rosterVars, windowVars, cstate, roster, effected, closedSubj, voteVars, mailVars, runVars>>
    /\ UNCHANGED payVars

\* then the order is written over it,
OpenOrder(c) ==
    /\ opening[c] = "order"
    /\ InsertOrder(OrderOf[c])
    /\ opening' = [opening EXCEPT ![c] = "done"]
    /\ UNCHANGED <<row, wd, decisionVars, ledgerVars, appr, known, execBy, dead, reported, withdrawn, execVars>>
    /\ UNCHANGED <<rosterVars, windowVars, cstate, roster, effected, closedSubj, voteVars, mailVars, runVars>>

\* or the call fails (the answer of a commit may be lost too), and the quorum is to be
\* cancelled (UndoQuorum).
OpenOrderFails(c) ==
    /\ opening[c] = "order"
    /\ \/ /\ "unavailable" \in PayFaults \/ HasOpenAgainst(Source[OrderOf[c]])
          /\ UNCHANGED payVars
       \/ /\ "unavailable" \in PayFaults /\ InsertOrder(OrderOf[c])
          /\ UNCHANGED <<row, wd, decisionVars, ledgerVars, appr, known, execBy, dead, reported,
                         withdrawn, execVars>>
    /\ opening' = [opening EXCEPT ![c] = "undo"]
    /\ UNCHANGED <<rosterVars, windowVars, cstate, roster, effected, closedSubj, voteVars, mailVars, runVars>>

-----------------------------------------------------------------------------
(***************************************************************************)
(* Closing a request closes its subject in the same transaction.           *)
(***************************************************************************)

CloseDecidedSubject(c) ==
    CASE Kind[c] = "payment" ->
            pstate[OrderOf[c]] # "none" /\ RejectOn(OrderOf[c]) /\ UNCHANGED closedSubj
      [] Kind[c] = "fee_policy" ->
            closedSubj' = (IF c \in effected THEN closedSubj ELSE closedSubj \union {c}) /\ UNCHANGED <<pstate, row>>
      [] OTHER -> UNCHANGED <<pstate, row, closedSubj>>

PayRest == UNCHANGED <<wd, decisionVars, ledgerVars, seatVars, execVars>>

-----------------------------------------------------------------------------
(***************************************************************************)
(* Voting: one transaction under the request's and the seats' locks.       *)
(***************************************************************************)
SeatLive(c, u) ==
    /\ cstate[c] = "open" /\ u \in Eligible(c) /\ u \notin burnt[c]
    /\ ballot[c][u] = "pending" /\ c \notin lapsed
    /\ seatLock[c] = "free"

\* A wrong code: the last one burns this seat alone.
SubmitWrongCode(c, u) ==
    /\ SeatLive(c, u)
    /\ codeTries' = [codeTries EXCEPT ![c][u] = @ + 1]
    /\ burnt' = IF codeTries'[c][u] >= CodeAttempts THEN [burnt EXCEPT ![c] = @ \union {u}] ELSE burnt
    /\ UNCHANGED <<rosterVars, windowVars, subjectVars, cstate, roster, ballot, mailVars, runVars, payVars>>

\* The right one: the vote is recorded and the tally settled.
SubmitVote(c, u, decision) ==
    LET votes == [ballot[c] EXCEPT ![u] = decision] IN
    /\ SeatLive(c, u)
    /\ ballot' = [ballot EXCEPT ![c] = votes]
    /\ codeTries' = [codeTries EXCEPT ![c][u] = IF @ < CodeAttempts THEN @ + 1 ELSE @]
    /\ cstate' = [cstate EXCEPT ![c] = Tally(c, votes, u)]
    /\ IF cstate'[c] = "rejected" THEN CloseDecidedSubject(c) ELSE UNCHANGED <<pstate, row, closedSubj>>
    /\ PayRest
    /\ UNCHANGED <<rosterVars, windowVars, roster, opening, effected, burnt, mailVars, runVars>>

-----------------------------------------------------------------------------
(***************************************************************************)
(* The closing transactions: the undelivered invitations are withdrawn     *)
(* first, then the request and its seats are locked.  The mailer holds an  *)
(* invitation's row across the relay call and then marks the seat.         *)
(***************************************************************************)
MayClose(c, verdict) ==
    /\ cstate[c] = "open"
    /\ \/ verdict = "expired" /\ c \in lapsed
       \/ verdict = "cancelled"      \* by its initiator, or as void after a roster change

NextLock(c) == IF mailLock[c] # "closer" THEN "mail" ELSE "seats"

CloseStarts(c, verdict) ==
    /\ closing[c] = "none" /\ MayClose(c, verdict)
    /\ closing' = [closing EXCEPT ![c] = verdict]
    /\ UNCHANGED <<rosterVars, windowVars, subjectVars, cstate, roster, voteVars, invite, mailLock, seatLock, runVars, payVars>>

CloseLocks(c) ==
    /\ closing[c] # "none"
    /\ \/ NextLock(c) = "mail" /\ mailLock[c] = "free"
          /\ mailLock' = [mailLock EXCEPT ![c] = "closer"] /\ UNCHANGED seatLock
       \/ NextLock(c) = "seats" /\ seatLock[c] = "free"
          /\ seatLock' = [seatLock EXCEPT ![c] = "closer"] /\ UNCHANGED mailLock
    /\ UNCHANGED <<rosterVars, windowVars, subjectVars, cstate, roster, voteVars, invite, closing, runVars, payVars>>

CloseEnds(c) ==
    /\ mailLock' = [mailLock EXCEPT ![c] = "free"] /\ seatLock' = [seatLock EXCEPT ![c] = "free"]
    /\ closing' = [closing EXCEPT ![c] = "none"]

WithdrawInvitations(c) ==
    invite' = [invite EXCEPT ![c] = [u \in Users |-> IF @[u] = "queued" THEN "withdrawn" ELSE @[u]]]

\* Commits over a request still open; the subject is closed with it.
CloseCommits(c) ==
    /\ mailLock[c] = "closer" /\ seatLock[c] = "closer" /\ cstate[c] = "open"
    /\ CloseDecidedSubject(c)
    /\ cstate' = [cstate EXCEPT ![c] = closing[c]]
    /\ WithdrawInvitations(c)
    /\ CloseEnds(c) /\ PayRest
    /\ UNCHANGED <<rosterVars, windowVars, roster, opening, effected, voteVars, runVars>>

\* Rolls back: decided meanwhile, or the subject is not there.
CloseRollsBack(c) ==
    /\ mailLock[c] = "closer" /\ seatLock[c] = "closer"
    /\ cstate[c] # "open" \/ (IsPayment(c) /\ pstate[OrderOf[c]] = "none")
    /\ CloseEnds(c)
    /\ UNCHANGED <<rosterVars, windowVars, subjectVars, cstate, roster, voteVars, invite, runVars, payVars>>

\* The open call cancels the quorum of the order it could not write, as any
\* request is cancelled; a failure to is only logged.
UndoQuorum(c) ==
    /\ opening[c] = "undo" /\ mailLock[c] = "free" /\ seatLock[c] = "free"
    /\ \/ /\ cstate[c] = "open" /\ CloseDecidedSubject(c)
          /\ cstate' = [cstate EXCEPT ![c] = "cancelled"]
          /\ WithdrawInvitations(c)
       \/ /\ cstate[c] # "open" \/ pstate[OrderOf[c]] = "none"
          /\ UNCHANGED <<cstate, invite, pstate, row, closedSubj>>
    /\ opening' = [opening EXCEPT ![c] = "done"]
    /\ PayRest
    /\ UNCHANGED <<rosterVars, windowVars, roster, effected, voteVars, mailLock, seatLock, closing, runVars>>

\* deliver: the row is locked, the relay takes the mail, the seat is marked.
DeliverLocks(c) ==
    /\ mailLock[c] = "free" /\ \E u \in Users : invite[c][u] = "queued"
    /\ mailLock' = [mailLock EXCEPT ![c] = "mailer"]
    /\ UNCHANGED <<rosterVars, windowVars, subjectVars, cstate, roster, voteVars, invite, seatLock, closing, runVars, payVars>>

Deliver(c, u, outcome) ==
    /\ mailLock[c] = "mailer" /\ invite[c][u] = "queued"
    /\ outcome = "sent" => seatLock[c] = "free"
    /\ invite' = [invite EXCEPT ![c][u] = outcome]
    /\ mailLock' = [mailLock EXCEPT ![c] = "free"]
    /\ UNCHANGED <<rosterVars, windowVars, subjectVars, cstate, roster, voteVars, seatLock, closing, runVars, payVars>>

-----------------------------------------------------------------------------
(***************************************************************************)
(* Executing an approved request.                                          *)
(***************************************************************************)
RunGoes(x, label) == cat' = [cat EXCEPT ![x] = label]
RunKeeps(x, c, outcome) == cjob' = [cjob EXCEPT ![x] = c] /\ cout' = [cout EXCEPT ![x] = outcome]

\* Slip: the roster is not asked again before the effect.
StillCarriesAlways(c) == c \notin graceOver

\* The approval still stands: enough approvals of owners of now, no roster
\* change since it was opened, and the grace is not over.
StillCarries(c) == Approvals(c) >= Quorum(c) /\ c \notin moved /\ c \notin graceOver

\* The sweeper, or the caller whose vote carried it.
ExecuteChecks(x, c) ==
    /\ cat[x] = "idle" /\ cstate[c] = "approved"
    /\ IF StillCarries(c) THEN RunKeeps(x, c, "none") /\ RunGoes(x, "effect")
                          ELSE RunKeeps(x, c, "failed") /\ RunGoes(x, "record")
    /\ UNCHANGED <<rosterVars, windowVars, subjectVars, cstate, roster, voteVars, mailVars, payVars>>

\* execute_payment: an order already approved, or past it, counts as carried.
ExecutePayment(x) ==
    LET o == OrderOf[cjob[x]] IN
    /\ cat[x] = "effect" /\ IsPayment(cjob[x])
    /\ \/ Approve(o) /\ RunKeeps(x, cjob[x], "executed")
       \/ pstate[o] \in {"approved", "executed", "execution_failed"} /\ RunKeeps(x, cjob[x], "executed") /\ UNCHANGED <<pstate, row>>
       \/ pstate[o] \in {"none", "rejected", "expired", "cancelled"} /\ RunKeeps(x, cjob[x], "failed") /\ UNCHANGED <<pstate, row>>
    /\ RunGoes(x, "record")
    /\ PayRest
    /\ UNCHANGED <<rosterVars, windowVars, subjectVars, cstate, roster, voteVars, mailVars>>

\* The other kinds: applied once under an id derived from the request, found
\* applied, or refused; an infrastructure error leaves the request approved.
ExecuteEffect(x) ==
    LET c == cjob[x] IN
    /\ cat[x] = "effect" /\ ~IsPayment(c)
    /\ \/ c \notin closedSubj /\ effected' = effected \union {c} /\ RunKeeps(x, c, "executed") /\ RunGoes(x, "record")
       \/ c \notin effected /\ UNCHANGED effected /\ RunKeeps(x, c, "failed") /\ RunGoes(x, "record")
       \/ "unavailable" \in PayFaults /\ UNCHANGED <<effected, cjob, cout>> /\ RunGoes(x, "idle")
    /\ UNCHANGED <<rosterVars, windowVars, cstate, roster, opening, closedSubj, voteVars, mailVars, payVars>>

\* record_execution: a repeat of the recorded outcome is a no-op, any other
\* conflicts; a failure closes the subject and is not recorded without it.
RecordConsilium(x) ==
    LET c == cjob[x] IN
    /\ cat[x] = "record" /\ seatLock[c] = "free"
    /\ \/ cstate[c] = "approved" /\ cout[x] = "executed"
          /\ cstate' = [cstate EXCEPT ![c] = "executed"] /\ UNCHANGED <<pstate, row, closedSubj>>
       \/ cstate[c] = "approved" /\ cout[x] = "failed"
          /\ cstate' = [cstate EXCEPT ![c] = "execution_failed"] /\ CloseDecidedSubject(c)
       \/ /\ cstate[c] # "approved" \/ (IsPayment(c) /\ pstate[OrderOf[c]] = "none" /\ cout[x] = "failed")
          /\ UNCHANGED <<cstate, pstate, row, closedSubj>>
    /\ RunGoes(x, "idle")
    /\ PayRest
    /\ UNCHANGED <<rosterVars, windowVars, roster, opening, effected, voteVars, mailVars, cjob, cout>>

RunnerDies(x) ==
    /\ "crash" \in PayFaults /\ cat[x] # "idle"
    /\ RunGoes(x, "idle")
    /\ UNCHANGED <<rosterVars, windowVars, subjectVars, cstate, roster, voteVars, mailVars, cjob, cout, payVars>>

-----------------------------------------------------------------------------
(***************************************************************************)
(* The roster and time.                                                    *)
(***************************************************************************)
Running(c) == \E x \in Runners : cjob[x] = c /\ cat[x] # "idle"
Done(c) == c \in effected \/ (IsPayment(c) /\ pstate[OrderOf[c]] \in {"approved", "executed", "execution_failed"})

\* An owner is named or leaves; the change is journalled.
ChangeRoster(u) ==
    /\ ~cooling
    /\ owners' = IF u \in owners THEN owners \ {u} ELSE owners \union {u}
    /\ cooling' = TRUE
    /\ moved' = moved \union {c \in Consilia : cstate[c] \in {"open", "approved"}}
    /\ settled' = settled \union {c \in Consilia : cstate[c] \in {"open", "approved"} /\ ~Running(c) /\ ~Done(c)}
    /\ UNCHANGED <<windowVars, subjectVars, cstate, roster, voteVars, mailVars, runVars, payVars>>

CoolingLifts ==
    /\ cooling /\ cooling' = FALSE
    /\ UNCHANGED <<windowVars, subjectVars, owners, cstate, roster, moved, settled, voteVars, mailVars, runVars, payVars>>

WindowCloses(c) ==
    /\ cstate[c] \in {"open", "approved"}
    /\ \/ c \notin lapsed /\ lapsed' = lapsed \union {c} /\ UNCHANGED graceOver
       \/ c \in lapsed \ graceOver /\ graceOver' = graceOver \union {c} /\ UNCHANGED lapsed
    /\ UNCHANGED <<rosterVars, subjectVars, cstate, roster, voteVars, mailVars, runVars, payVars>>

RequestStep(c) ==
    \/ OpenRequest(c) \/ OpenPaymentAsked(c) \/ OpenQuorum(c) \/ OpenOrder(c) \/ OpenOrderFails(c)
    \/ \E v \in {"expired", "cancelled"} : CloseStarts(c, v)
    \/ CloseLocks(c) \/ CloseCommits(c) \/ CloseRollsBack(c) \/ UndoQuorum(c)
    \/ DeliverLocks(c) \/ WindowCloses(c)
    \/ \E u \in Users, outcome \in {"sent", "given_up"} : Deliver(c, u, outcome)
VoteStep(c) ==
    \E u \in Users : SubmitWrongCode(c, u) \/ \E d \in {"approve", "reject"} : SubmitVote(c, u, d)
RunStep(x) ==
    \/ \E c \in Consilia : ExecuteChecks(x, c)
    \/ ExecutePayment(x) \/ ExecuteEffect(x) \/ RecordConsilium(x) \/ RunnerDies(x)
ConsiliumStep ==
    \/ \E c \in Consilia : RequestStep(c) \/ VoteStep(c)
    \/ \E x \in Runners : RunStep(x)
    \/ \E u \in Users : ChangeRoster(u)
    \/ CoolingLifts

\* Payments go on as they do alone.
PaymentStep == PayNext /\ UNCHANGED consiliumVars

ConsiliumNext == ConsiliumStep \/ PaymentStep
ConsiliumSpec == PayInit /\ ConsiliumInit /\ [][ConsiliumNext]_allVars

-----------------------------------------------------------------------------
\* Types of the requests, their seats and mails, and the runners.
ConsiliumTypeOK ==
    /\ owners \subseteq Users /\ cooling \in BOOLEAN
    /\ cstate \in [Consilia -> ConsiliumStates \union {"none"}]
    /\ roster \in [Consilia -> SUBSET Users] /\ burnt \in [Consilia -> SUBSET Users]
    /\ ballot \in [Consilia -> [Users -> VoteDecisions]]
    /\ codeTries \in [Consilia -> [Users -> 0..CodeAttempts]]
    /\ UNION {lapsed, graceOver, moved, effected, closedSubj, settled} \subseteq Consilia
    /\ opening \in [Consilia -> {"none", "quorum", "order", "undo", "done"}]
    /\ invite \in [Consilia -> [Users -> {"none", "queued", "sent", "given_up", "withdrawn"}]]
    /\ mailLock \in [Consilia -> {"free", "mailer", "closer"}] /\ seatLock \in [Consilia -> {"free", "closer"}]
    /\ closing \in [Consilia -> {"none", "expired", "cancelled"}]
    /\ cat \in [Runners -> {"idle", "effect", "record"}] /\ cjob \in [Runners -> Consilia]
    /\ cout \in [Runners -> {"none", "executed", "failed"}]

\* Nothing is done without a quorum: what a request brought about was approved
\* by a majority of the owners it was opened over, its initiator not counted.
EffectHasQuorum ==
    \A c \in Consilia :
        Done(c) /\ cstate[c] # "none" =>
            Cardinality({u \in roster[c] \ {Initiator[c]} : ballot[c][u] = "approve"}) * 2 > Cardinality(roster[c])

\* A roster change voids what was asked before it: nothing comes of a request
\* the owners changed under, unless a runner was already past its checks.
RosterChangeVoids == \A c \in settled : ~Done(c)

\* A dead quorum leaves no order answerable.
DeadQuorumClosesOrder ==
    \A c \in Consilia :
        IsPayment(c) /\ cstate[c] \in {"rejected", "expired", "cancelled", "execution_failed"} =>
            pstate[OrderOf[c]] # "pending"

\* No closing transaction and delivery wait for each other.
NoLockCycle ==
    \A c \in Consilia :
        ~(mailLock[c] = "mailer" /\ seatLock[c] = "closer")

\* An invitation reaches no owner after its request was closed by its window or
\* its initiator.
NoInviteToDeadRequest ==
    [][\A c \in Consilia, u \in Users :
        invite[c][u] # "sent" /\ invite'[c][u] = "sent" => cstate[c] \notin {"expired", "cancelled"}]_allVars

\* A quorum does not outlive the order it was seated for: once its open call is
\* over, an open request has its order.
QuorumOutlivesNoOrder ==
    \A c \in Consilia :
        cstate[c] = "open" /\ opening[c] = "done" => pstate[OrderOf[c]] # "none"

\* The types of the orders, the requests, their ballots, mails and runners.
GovernanceTypeOK == PayTypeOK /\ ConsiliumTypeOK

\* The owners' word binds: what is done had a quorum of a roster that still stood, what the
\* quorum refused is closed, and no two of its transactions wait for each other.
QuorumBinds == EffectHasQuorum /\ RosterChangeVoids /\ DeadQuorumClosesOrder /\ NoLockCycle

\* A consent is used, and an invitation delivered, only while the seat or the request it is
\* for still stands.
ConsentIsFresh == ConsentStandsAtExecution /\ NoInviteToDeadRequest
=============================================================================
