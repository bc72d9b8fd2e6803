--------------------------- MODULE GovernanceProofs --------------------------
(***************************************************************************)
(* Proofs about payment orders and the owners' consilium that decides      *)
(* them, for any set of orders, claims, seats, owners, requests and        *)
(* concurrent executors and runners, and under every fault the models      *)
(* have.  The orders alone: the ledger follows the order, what a failed    *)
(* order holds is released, a closed order pays nothing out, concierge is  *)
(* told what became of its decision, and a consent stands when its order   *)
(* executes.  The consilium: nothing is done without a majority of the     *)
(* roster a request was opened over, a roster change voids what nobody had *)
(* begun, a dead quorum leaves no order answerable, the closing            *)
(* transaction and the mailer never wait for each other, and what was      *)
(* shown of the orders holds with the consilium too.                       *)
(***************************************************************************)
EXTENDS Consilium, Sums

-----------------------------------------------------------------------------
(***************************************************************************)
(* The payment orders.                                                     *)
(***************************************************************************)

Past == {"approved", "executed", "execution_failed"}

\* The outbox rows an order raised are the ones of the states it went through.
RowsFit(o) ==
    /\ row[o]["reserved"] # "none" <=> SettlesOnTheLedger(o) /\ pstate[o] \in Past
    /\ row[o]["settled"] # "none" <=> SettlesOnTheLedger(o) /\ pstate[o] = "executed"
    /\ row[o]["released"] # "none" <=> SettlesOnTheLedger(o) /\ pstate[o] = "execution_failed"

\* A delivered row has its legs on the ledger, a parked one has its id refused there for
\* good, and nothing settles without its reservation.
LedgerFits(o) ==
    /\ "reserve" \in xfer[o] => row[o]["reserved"] # "none" /\ "reserve" \notin refused[o]
    /\ row[o]["reserved"] = "parked" => "reserve" \in refused[o]
    /\ row[o]["reserved"] = "done" => "reserve" \in xfer[o]
    /\ o \in step => "reserve" \in xfer[o]
    /\ "settle" \in xfer[o] \/ "transfer" \in xfer[o] => row[o]["settled"] # "none"
    /\ "void" \in xfer[o] => row[o]["released"] # "none"
    /\ "void" \in refused[o] => "reserve" \in refused[o]
    /\ row[o]["settled"] # "none" => "reserve" \in xfer[o] /\ row[o]["settled"] # "parked"
    /\ row[o]["released"] = "parked" => "void" \in refused[o]
    /\ row[o]["released"] = "done" => "void" \in xfer[o]

\* A withdrawal is made for an approved external order only, and one still queued is in the
\* hands of its creator, unless the order executed or the creator died.
WithdrawalFits(o) ==
    /\ wd[o] # "none" => Tier[o] = "external" /\ pstate[o] \in Past
    /\ wd[o] = "queued" /\ o \notin orphaned /\ pstate[o] # "executed" =>
          \E x \in Executors : job[x] = o /\ at[x] = "record" /\ out[x] = "executed"

\* The attempts of a mailed code run out only with the credential; only an order of
\* concierge's seat has an approval, and concierge was told what became of it.
SeatFits(o) ==
    /\ tries[o] >= MaxCodeAttempts => o \in burned \/ answer[o] # "pending"
    /\ o \in opener \/ appr[o] # "none" => Seat[o] = "concierge" /\ pstate[o] # "none"
    /\ appr[o] = "executed" => pstate[o] = "executed"
    /\ appr[o] = "failed" => pstate[o] = "execution_failed"
    /\ appr[o] = "void" => ~(pstate[o] \in {"approved", "executed"}) /\ ~Live(o)

\* The order of a decision that cannot be carried out any more.
Told(o) == pstate[o] \notin {"none", "approved", "executed"} /\ ~Live(o)

\* What an executor holds still stands: its order is past approval, an outcome it is about to
\* record is backed, and an outcome it is about to report is the one recorded.
ExecutorFits(x) ==
    /\ at[x] \in {"settle", "create", "refind", "record"} => pstate[job[x]] \in Past
    /\ at[x] = "settle" => SettlesOnTheLedger(job[x])
    /\ at[x] \in {"create", "refind"} => Tier[job[x]] = "external"
    /\ at[x] = "record" =>
          /\ out[x] # "none"
          /\ out[x] = "executed" /\ SettlesOnTheLedger(job[x]) => "reserve" \in xfer[job[x]]
    /\ at[x] \in {"pulled", "confirm", "approve"} => appr[job[x]] # "none"
    /\ at[x] \in {"pulled", "confirm", "approve", "execute"} => out[x] = "none"
    /\ at[x] = "report" =>
          IF out[x] = "void"
          THEN Told(job[x]) /\ appr[job[x]] # "none"
          ELSE pstate[job[x]] \in {"executed", "execution_failed"}

PayInv ==
    /\ PayTypeOK
    /\ \A o \in Orders : RowsFit(o) /\ LedgerFits(o) /\ WithdrawalFits(o) /\ SeatFits(o)
    /\ \A x \in Executors : ExecutorFits(x)

-----------------------------------------------------------------------------
(***************************************************************************)
(* What no step takes back, and what follows for the executors at rest.    *)
(***************************************************************************)
Keeps(o) ==
    /\ pstate[o] \in Past => pstate'[o] \in Past
    /\ pstate[o] \in {"executed", "execution_failed"} => pstate'[o] = pstate[o]
    /\ pstate[o] # "none" => pstate'[o] # "none"
    /\ Told(o) /\ appr[o] # "none" => Told(o)'
    /\ xfer[o] \subseteq xfer'[o]
    /\ appr[o] # "none" => appr'[o] # "none"

LEMMA ExecutorRests ==
    ASSUME PayTypeOK, NEW x \in Executors, ExecutorFits(x),
           at'[x] = at[x], job'[x] = job[x], out'[x] = out[x],
           Keeps(job[x])
    PROVE  ExecutorFits(x)'
<1>1. job[x] \in Orders
  BY DEF PayTypeOK
<1> QED BY <1>1 DEF ExecutorFits, Keeps, Told, Past, SettlesOnTheLedger

LEMMA InvInit == PayInit => PayInv
<1> SUFFICES ASSUME PayInit PROVE PayInv
  OBVIOUS
<1> USE PayAssumption DEF PayInit, PayInitWith
<1>1. PayTypeOK
  BY DEF PayTypeOK, PaymentStates
<1>2. ASSUME NEW o \in Orders PROVE RowsFit(o) /\ LedgerFits(o) /\ WithdrawalFits(o) /\ SeatFits(o)
  BY <1>2 DEF RowsFit, LedgerFits, WithdrawalFits, SeatFits, PayEvents, Past
<1>3. ASSUME NEW x \in Executors PROVE ExecutorFits(x)
  BY <1>3 DEF ExecutorFits
<1> QED BY <1>1, <1>2, <1>3 DEF PayInv

(***************************************************************************)
(* The aggregate's transitions: the order's state and the row it raises.   *)
(***************************************************************************)
Transition(o) ==
    \/ pstate[o] = "none" /\ pstate' = [pstate EXCEPT ![o] = "pending"] /\ UNCHANGED row
    \/ Approve(o)
    \/ \E verdict \in {"rejected", "expired", "cancelled"} : EnterVerdict(o, verdict)
    \/ MarkExecuted(o) /\ (SettlesOnTheLedger(o) => "reserve" \in xfer[o])
    \/ MarkExecutionFailed(o)

LEMMA TransitionTypes ==
    ASSUME PayTypeOK, NEW o \in Orders, Transition(o)
    PROVE  /\ pstate' \in [Orders -> PaymentStates \union {"none"}]
           /\ row' \in [Orders -> [PayEvents -> {"none", "queued", "parked", "done"}]]
<1>1. pstate' \in [Orders -> PaymentStates \union {"none"}]
  <2>1. \E v \in PaymentStates : pstate' = [pstate EXCEPT ![o] = v]
    BY Zenon DEF Transition, Approve, EnterVerdict, MarkExecuted, MarkExecutionFailed, PaymentStates
  <2> QED BY <2>1 DEF PayTypeOK
<1>2. ASSUME NEW e \in PayEvents, Raise(o, e)
      PROVE  row' \in [Orders -> [PayEvents -> {"none", "queued", "parked", "done"}]]
  BY <1>2 DEF PayTypeOK, Raise
<1>3. row' = row \/ \E e \in PayEvents : Raise(o, e)
  BY DEF Transition, Approve, EnterVerdict, MarkExecuted, MarkExecutionFailed, PayEvents
<1> QED BY <1>1, <1>2, <1>3 DEF PayTypeOK

LEMMA TransitionFits ==
    ASSUME PayTypeOK, NEW o \in Orders, Transition(o), UNCHANGED <<xfer, refused, step>>,
           NEW p \in Orders, RowsFit(p), LedgerFits(p)
    PROVE  RowsFit(p)' /\ LedgerFits(p)'
<1>1. CASE p # o
  BY <1>1 DEF PayTypeOK, Transition, Approve, EnterVerdict, MarkExecuted, MarkExecutionFailed, Raise,
              RowsFit, LedgerFits, SettlesOnTheLedger
<1>2. CASE p = o
  <2> USE <1>2 DEF PayTypeOK, RowsFit, LedgerFits, SettlesOnTheLedger, Past, PayEvents
  <2>1. CASE pstate[o] = "none" /\ pstate' = [pstate EXCEPT ![o] = "pending"] /\ UNCHANGED row
    BY <2>1
  <2>2. CASE Approve(o)
    BY <2>2 DEF Approve, Raise
  <2>3. CASE \E verdict \in {"rejected", "expired", "cancelled"} : EnterVerdict(o, verdict)
    BY <2>3 DEF EnterVerdict
  <2>4. CASE MarkExecuted(o) /\ (SettlesOnTheLedger(o) => "reserve" \in xfer[o])
    BY <2>4 DEF MarkExecuted, Raise
  <2>5. CASE MarkExecutionFailed(o)
    BY <2>5 DEF MarkExecutionFailed, Raise
  <2> QED BY <2>1, <2>2, <2>3, <2>4, <2>5 DEF Transition
<1> QED BY <1>1, <1>2

-----------------------------------------------------------------------------
(***************************************************************************)
(* The callers that open, answer, decide, cancel and expire an order: one  *)
(* transition, or none, and what the seat remembers of it.                 *)
(***************************************************************************)
SeatMoves(o) ==
    /\ Transition(o) \/ UNCHANGED <<pstate, row>>
    /\ Approve(o) => Live(o) \/ Seat[o] # "concierge"
    /\ UNCHANGED <<wd, late, ledgerVars, appr, execVars>>
    /\ opener' \subseteq opener \union {p \in {o} : Seat[o] = "concierge" /\ pstate'[o] # "none"}
    /\ \A p \in Orders : tries'[p] >= MaxCodeAttempts => p \in burned' \/ answer'[p] # "pending"

LEMMA TransitionKeeps ==
    ASSUME PayInv, NEW o \in Orders, Transition(o) \/ UNCHANGED <<pstate, row>>,
           Approve(o) => Live(o) \/ Seat[o] # "concierge",
           UNCHANGED <<xfer, refused, step, appr, late>>, NEW p \in Orders
    PROVE  Keeps(p) /\ RowsFit(p)' /\ LedgerFits(p)'
<1>1. PayTypeOK /\ RowsFit(p) /\ LedgerFits(p)
  BY DEF PayInv
<1>2. \/ pstate'[p] = pstate[p]
      \/ pstate[p] = "none" /\ pstate'[p] = "pending"
      \/ p = o /\ Approve(o) /\ pstate[p] = "pending" /\ pstate'[p] = "approved"
      \/ pstate[p] = "pending" /\ pstate'[p] \in {"rejected", "expired", "cancelled"}
      \/ pstate[p] = "approved" /\ pstate'[p] \in {"executed", "execution_failed"}
  BY <1>1 DEF PayTypeOK, Transition, Approve, EnterVerdict, MarkExecuted, MarkExecutionFailed
<1>3. Approve(o) /\ appr[o] # "none" => Live(o)
  BY DEF PayInv, SeatFits
<1>4. Keeps(p)
  BY <1>2, <1>3 DEF Keeps, Told, Live, Past
<1>5. RowsFit(p)' /\ LedgerFits(p)'
  <2>1. CASE Transition(o)
    BY <1>1, <2>1, TransitionFits
  <2>2. CASE UNCHANGED <<pstate, row>>
    BY <1>1, <2>2 DEF RowsFit, LedgerFits
  <2> QED BY <2>1, <2>2
<1> QED BY <1>4, <1>5

LEMMA SeatStep ==
    ASSUME PayInv, PayTypeOK', NEW o \in Orders, SeatMoves(o)
    PROVE  PayInv'
<1>1. ASSUME NEW p \in Orders PROVE Keeps(p) /\ RowsFit(p)' /\ LedgerFits(p)'
  BY TransitionKeeps DEF SeatMoves, ledgerVars
<1>2. ASSUME NEW p \in Orders PROVE WithdrawalFits(p)' /\ SeatFits(p)'
  <2>1. WithdrawalFits(p) /\ SeatFits(p) /\ Keeps(p)
    BY <1>1 DEF PayInv
  <2>2. WithdrawalFits(p)'
    BY <2>1 DEF WithdrawalFits, Keeps, SeatMoves, execVars
  <2>3. SeatFits(p)'
    <3>1. p \in opener' => Seat[p] = "concierge" /\ pstate'[p] # "none"
      BY <2>1 DEF SeatFits, Keeps, SeatMoves
    <3>2. appr[p] # "none" => Seat[p] = "concierge" /\ pstate'[p] # "none"
      BY <2>1 DEF SeatFits, Keeps
    <3>3. appr[p] = "void" => Told(p)'
      BY <2>1 DEF SeatFits, Keeps, Told
    <3> QED BY <2>1, <3>1, <3>2, <3>3 DEF SeatFits, Keeps, SeatMoves, Told
  <2> QED BY <2>2, <2>3
<1>3. ASSUME NEW x \in Executors PROVE ExecutorFits(x)'
  <2>1. job[x] \in Orders /\ ExecutorFits(x) /\ UNCHANGED <<at, job, out>>
    BY DEF PayInv, PayTypeOK, SeatMoves, execVars
  <2> QED BY <1>1, <2>1, ExecutorRests DEF PayInv
<1> QED BY <1>1, <1>2, <1>3 DEF PayInv

LEMMA SeatTypes ==
    ASSUME PayTypeOK, NEW o \in Orders, SeatMoves(o),
           UNCHANGED <<pins, known, execBy, dead, reported, withdrawn>>,
           answer' \in [Orders -> {"pending", "approve", "reject"}],
           tries' \in [Orders -> 0..MaxCodeAttempts], burned' \subseteq Orders
    PROVE  PayTypeOK'
<1>1. /\ pstate' \in [Orders -> PaymentStates \union {"none"}]
      /\ row' \in [Orders -> [PayEvents -> {"none", "queued", "parked", "done"}]]
  BY TransitionTypes DEF SeatMoves, PayTypeOK
<1>2. opener' \subseteq Orders
  BY DEF SeatMoves, PayTypeOK
<1> QED BY <1>1, <1>2 DEF SeatMoves, PayTypeOK, ledgerVars, execVars

LEMMA AttemptsStand ==
    ASSUME PayInv, UNCHANGED <<tries, burned, answer>>
    PROVE  \A p \in Orders : tries'[p] >= MaxCodeAttempts => p \in burned' \/ answer'[p] # "pending"
BY DEF PayInv, SeatFits

LEMMA RejectMoves ==
    ASSUME NEW o \in Orders, RejectOn(o)
    PROVE  (Transition(o) \/ UNCHANGED <<pstate, row>>) /\ (PayTypeOK => ~Approve(o))
<1>1. Transition(o) \/ UNCHANGED <<pstate, row>>
  BY DEF RejectOn, Transition
<1>2. ASSUME PayTypeOK PROVE ~Approve(o)
  BY <1>2 DEF PayTypeOK, RejectOn, EnterVerdict, Approve
<1> QED BY <1>1, <1>2

LEMMA ClosePreserves ==
    ASSUME PayInv, NEW o \in Orders, RejectOn(o) \/ \E v \in {"rejected", "expired", "cancelled"} : EnterVerdict(o, v),
           UNCHANGED <<wd, decisionVars, ledgerVars, appr, known, execBy, dead, reported, withdrawn, execVars>>,
           opener' \subseteq opener
    PROVE  PayInv'
<1>1. PayTypeOK
  BY DEF PayInv
<1>2. Transition(o) \/ UNCHANGED <<pstate, row>>
  BY RejectMoves DEF Transition
<1>3. ~Approve(o)
  BY <1>1, RejectMoves DEF PayTypeOK, EnterVerdict, Approve
<1>4. SeatMoves(o)
  BY <1>2, <1>3, AttemptsStand DEF SeatMoves, decisionVars
<1>5. PayTypeOK'
  BY <1>1, <1>4, SeatTypes DEF PayTypeOK, decisionVars
<1> QED BY <1>4, <1>5, SeatStep

\* An order enters: InsertOrder, with the opener of a concierge seat.
LEMMA InsertPreserves ==
    ASSUME PayInv, NEW o \in Orders, InsertOrder(o),
           UNCHANGED <<row, wd, decisionVars, ledgerVars, appr, known, execBy, dead, reported, withdrawn, execVars>>
    PROVE  PayInv'
<1>1. PayTypeOK
  BY DEF PayInv
<1>2. Transition(o) /\ pstate'[o] = "pending" /\ ~Approve(o)
  BY <1>1 DEF Transition, InsertOrder, Approve, PayTypeOK
<1>3. SeatMoves(o)
  BY <1>2, AttemptsStand DEF SeatMoves, InsertOrder, decisionVars
<1>4. PayTypeOK'
  BY <1>1, <1>3, SeatTypes DEF PayTypeOK, decisionVars
<1> QED BY <1>3, <1>4, SeatStep

\* An order is approved with nothing else written, by a seat that is not concierge's.
LEMMA ApprovePreserves ==
    ASSUME PayInv, NEW o \in Orders, Approve(o), Seat[o] # "concierge",
           UNCHANGED <<wd, decisionVars, ledgerVars, seatVars, execVars>>
    PROVE  PayInv'
<1>1. PayTypeOK
  BY DEF PayInv
<1>2. SeatMoves(o)
  BY AttemptsStand DEF SeatMoves, Transition, decisionVars, seatVars
<1>3. PayTypeOK'
  BY <1>1, <1>2, SeatTypes DEF PayTypeOK, decisionVars, seatVars
<1> QED BY <1>2, <1>3, SeatStep

LEMMA OrderStepPreserves ==
    ASSUME PayInv, NEW o \in Orders, OrderStep(o)
    PROVE  PayInv'
<1>0. PayTypeOK /\ MaxCodeAttempts \in Nat \ {0}
  BY PayAssumption DEF PayInv
<1>1. CASE OpenPayment(o)
  BY <1>1, InsertPreserves DEF OpenPayment
<1>2. CASE CancelPayment(o)
  BY <1>2, ClosePreserves DEF CancelPayment, seatVars
<1>3. CASE ExpirePayment(o)
  BY <1>3, ClosePreserves DEF ExpirePayment, seatVars
<1>4. CASE AnswerInvalid(o)
  BY <1>4, ClosePreserves DEF AnswerInvalid, seatVars
<1>5. CASE SubmitWrong(o)
  <2>1. /\ tries' \in [Orders -> 0..MaxCodeAttempts] /\ burned' \subseteq Orders
        /\ \A p \in Orders : tries'[p] >= MaxCodeAttempts => p \in burned' \/ answer'[p] # "pending"
    BY <1>0, <1>5 DEF SubmitWrong, PayInv, SeatFits, PayTypeOK
  <2>2. EnterVerdict(o, "rejected") \/ UNCHANGED <<pstate, row>>
    BY <1>5 DEF SubmitWrong
  <2>3. (Transition(o) \/ UNCHANGED <<pstate, row>>) /\ ~Approve(o)
    BY <1>0, <2>2 DEF Transition, EnterVerdict, Approve, PayTypeOK
  <2>4. SeatMoves(o)
    BY <1>5, <2>1, <2>3 DEF SeatMoves, SubmitWrong, seatVars
  <2>5. PayTypeOK'
    BY <1>0, <1>5, <2>1, <2>4, SeatTypes DEF SubmitWrong, seatVars, PayTypeOK
  <2> QED BY <2>4, <2>5, SeatStep
<1>6. ASSUME NEW d \in {"approve", "reject"}, SubmitConsent(o, d) \/ AnswerSessionConsent(o, d)
      PROVE  PayInv'
  <2>1. /\ answer' \in [Orders -> {"pending", "approve", "reject"}]
        /\ tries' \in [Orders -> 0..MaxCodeAttempts] /\ burned' \subseteq Orders
        /\ \A p \in Orders : tries'[p] >= MaxCodeAttempts => p \in burned' \/ answer'[p] # "pending"
    <3>1. answer' = [answer EXCEPT ![o] = d] /\ burned' = burned
      BY <1>6 DEF SubmitConsent, AnswerSessionConsent, Decide
    <3>2. tries' = tries \/ tries' = [tries EXCEPT ![o] = IF @ < MaxCodeAttempts THEN @ + 1 ELSE @]
      BY <1>6 DEF SubmitConsent, AnswerSessionConsent
    <3> QED BY <1>0, <3>1, <3>2 DEF PayInv, SeatFits, PayTypeOK
  <2>2. Transition(o) /\ Seat[o] # "concierge"
    BY <1>6 DEF SubmitConsent, AnswerSessionConsent, Decide, Transition
  <2>3. SeatMoves(o)
    BY <1>6, <2>1, <2>2 DEF SeatMoves, SubmitConsent, AnswerSessionConsent, seatVars
  <2>4. PayTypeOK'
    BY <1>0, <1>6, <2>1, <2>3, SeatTypes DEF SubmitConsent, AnswerSessionConsent, seatVars
  <2> QED BY <2>3, <2>4, SeatStep
<1> QED BY <1>1, <1>2, <1>3, <1>4, <1>5, <1>6 DEF OrderStep

-----------------------------------------------------------------------------
(***************************************************************************)
(* Concierge's approval, time, the account, the withdrawal's own saga and  *)
(* other flows: the order and its rows stay as they are.                   *)
(***************************************************************************)
LEMMA QuietPreserves ==
    ASSUME PayInv, PayTypeOK',
           UNCHANGED <<pstate, row, xfer, refused, step, tries, burned, answer, execVars>>,
           late \subseteq late', opener' \subseteq opener,
           \A p \in Orders :
              \/ wd'[p] = wd[p]
              \/ wd[p] # "none" /\ wd'[p] \in {"dispatched", "cancelled"},
           \A p \in Orders :
              \/ appr'[p] = appr[p]
              \/ appr'[p] \in {"open", "passed", "ended"} /\ (p \in opener \/ appr[p] \in {"open", "passed"})
    PROVE  PayInv'
<1>1. ASSUME NEW p \in Orders PROVE RowsFit(p)' /\ LedgerFits(p)'
  BY DEF PayInv, RowsFit, LedgerFits
<1>2. ASSUME NEW p \in Orders PROVE WithdrawalFits(p)' /\ Keeps(p)
  BY DEF PayInv, WithdrawalFits, Keeps, execVars, Told, Live
<1>3. ASSUME NEW p \in Orders PROVE SeatFits(p)'
  BY DEF PayInv, SeatFits, Live
<1>4. ASSUME NEW x \in Executors PROVE ExecutorFits(x)'
  <2>1. job[x] \in Orders /\ ExecutorFits(x) /\ UNCHANGED <<at, job, out>>
    BY DEF PayInv, PayTypeOK, execVars
  <2> QED BY <2>1, <1>2, ExecutorRests DEF PayInv
<1> QED BY <1>1, <1>2, <1>3, <1>4 DEF PayInv

LEMMA ProposalStepPreserves ==
    ASSUME PayInv, NEW o \in Orders, ProposalStep(o)
    PROVE  PayInv'
<1>0. PayTypeOK /\ SeatFits(o)
  BY DEF PayInv
<1>1. CASE ProposeTaken(o)
  <2>1. PayTypeOK'
    BY <1>0, <1>1 DEF ProposeTaken, PayTypeOK, decisionVars, ledgerVars, execVars
  <2> QED BY <1>0, <1>1, <2>1, QuietPreserves DEF ProposeTaken, decisionVars, ledgerVars, PayTypeOK
<1>2. CASE ProposeStored(o) \/ OpenerDies(o)
  <2>1. PayTypeOK'
    BY <1>0, <1>2 DEF ProposeStored, OpenerDies, PayTypeOK, decisionVars, ledgerVars, execVars
  <2> QED BY <1>0, <1>2, <2>1, QuietPreserves DEF ProposeStored, OpenerDies, decisionVars, ledgerVars
<1>3. CASE ProposeRefused(o) \/ CloseUnproposed(o) \/ SettleDecided(o)
  BY <1>3, ClosePreserves DEF ProposeRefused, CloseUnproposed, SettleDecided, seatVars
<1>4. CASE WithdrawDead(o)
  <2>1. PayTypeOK'
    BY <1>0, <1>4 DEF WithdrawDead, PayTypeOK, decisionVars, ledgerVars, execVars
  <2>2. appr' = appr \/ (appr[o] = "open" /\ appr' = [appr EXCEPT ![o] = "ended"])
    BY <1>0, <1>4 DEF WithdrawDead, PayTypeOK
  <2> QED BY <1>0, <1>4, <2>1, <2>2, QuietPreserves DEF WithdrawDead, decisionVars, ledgerVars, PayTypeOK
<1>5. CASE WindowEnds(o)
  <2>1. PayTypeOK'
    BY <1>0, <1>5 DEF WindowEnds, PayTypeOK, decisionVars, ledgerVars, execVars
  <2> QED BY <1>5, <2>1, QuietPreserves DEF WindowEnds, decisionVars, ledgerVars
<1>6. ASSUME NEW to \in {"passed", "ended"}, OwnersDecide(o, to) PROVE PayInv'
  <2>1. PayTypeOK'
    BY <1>0, <1>6 DEF OwnersDecide, PayTypeOK, decisionVars, ledgerVars, execVars
  <2> QED BY <1>0, <1>6, <2>1, QuietPreserves DEF OwnersDecide, decisionVars, ledgerVars, PayTypeOK
<1> QED BY <1>1, <1>2, <1>3, <1>4, <1>5, <1>6 DEF ProposalStep

LEMMA WorldStepPreserves ==
    ASSUME PayInv, NEW o \in Orders, PayWorldStep(o)
    PROVE  PayInv'
<1>0. PayTypeOK /\ Source[o] \in Claims /\ Cost[o] \in Nat
  BY PayAssumption DEF PayInv
<1>1. CASE OrderLapses(o)
  <2>1. PayTypeOK'
    BY <1>0, <1>1 DEF OrderLapses, PayTypeOK, seatVars, ledgerVars, execVars
  <2> QED BY <1>1, <2>1, QuietPreserves DEF OrderLapses, ledgerVars, seatVars
<1>2. CASE DispatchPaid(o)
  <2>1. PayTypeOK'
    BY <1>0, <1>2 DEF DispatchPaid, PayTypeOK, decisionVars, seatVars, ledgerVars, execVars
  <2> QED BY <1>0, <1>2, <2>1, QuietPreserves DEF DispatchPaid, decisionVars, ledgerVars, seatVars, PayTypeOK
<1>3. CASE CancelPaid(o)
  <2>1. wd' \in [Orders -> {"none", "queued", "dispatched", "cancelled"}] /\ free' \in [Claims -> Nat]
    <3>1. /\ wd' = [wd EXCEPT ![o] = "cancelled"]
          /\ free' = [free EXCEPT ![Source[o]] = @ + Cost[o]]
      BY <1>3 DEF CancelPaid, CancelOn
    <3>2. free[Source[o]] + Cost[o] \in Nat
      BY <1>0 DEF PayTypeOK
    <3> QED BY <1>0, <3>1, <3>2 DEF PayTypeOK
  <2>2. PayTypeOK'
    BY <1>0, <1>3, <2>1 DEF CancelPaid, PayTypeOK, decisionVars, seatVars, execVars
  <2> QED BY <1>0, <1>3, <2>2, QuietPreserves DEF CancelPaid, CancelOn, decisionVars, seatVars, PayTypeOK
<1>4. ASSUME NEW to \in {"held", "email", "sessions"}, MovePins(o, to) PROVE PayInv'
  <2>1. PayTypeOK'
    BY <1>0, <1>4 DEF MovePins, PayTypeOK, ledgerVars, seatVars, execVars
  <2> QED BY <1>4, <2>1, QuietPreserves DEF MovePins, ledgerVars, seatVars
<1> QED BY <1>1, <1>2, <1>3, <1>4 DEF PayWorldStep

LEMMA OtherFlowPreserves ==
    ASSUME PayInv, NEW c \in Claims, NEW n \in {-1, 1}, OtherFlow(c, n)
    PROVE  PayInv'
<1>0. PayTypeOK /\ UNCHANGED <<pstate, row, wd, decisionVars, xfer, refused, step, seatVars, execVars>>
  BY DEF PayInv, OtherFlow
<1>1. free' \in [Claims -> Nat]
  BY <1>0, PayAssumption DEF OtherFlow, PayTypeOK
<1>2. PayTypeOK'
  BY <1>0, <1>1 DEF PayTypeOK, decisionVars, seatVars, execVars
<1> QED BY <1>0, <1>2, QuietPreserves DEF decisionVars, seatVars

-----------------------------------------------------------------------------
(***************************************************************************)
(* The relay: the rows and the ledger move, the order stays as it is.      *)
(***************************************************************************)
LEMMA RelayMoves ==
    ASSUME PayInv, PayTypeOK', UNCHANGED <<pstate, wd, decisionVars, seatVars, execVars>>,
           \A p \in Orders : xfer[p] \subseteq xfer'[p] /\ RowsFit(p)' /\ LedgerFits(p)'
    PROVE  PayInv'
<1>1. ASSUME NEW p \in Orders PROVE WithdrawalFits(p)' /\ Keeps(p)
  BY DEF PayInv, WithdrawalFits, Keeps, execVars, decisionVars, seatVars, Told, Live
<1>2. ASSUME NEW p \in Orders PROVE SeatFits(p)'
  BY DEF PayInv, SeatFits, Live, decisionVars, seatVars
<1>3. ASSUME NEW x \in Executors PROVE ExecutorFits(x)'
  <2>1. job[x] \in Orders /\ ExecutorFits(x) /\ UNCHANGED <<at, job, out>>
    BY DEF PayInv, PayTypeOK, execVars
  <2> QED BY <2>1, <1>1, ExecutorRests DEF PayInv
<1> QED BY <1>1, <1>2, <1>3 DEF PayInv

LEMMA RowTypes ==
    ASSUME PayTypeOK, NEW o \in Orders, NEW e \in PayEvents, NEW v \in {"queued", "parked", "done"},
           row' = [row EXCEPT ![o][e] = v]
    PROVE  row' \in [Orders -> [PayEvents -> {"none", "queued", "parked", "done"}]]
BY DEF PayTypeOK

\* One leg taken or refused, one row stamped, parked or queued again.
Leg(o, f, g) == g = f \/ \E leg \in PayLegs : g = [f EXCEPT ![o] = @ \union {leg}]
Stamped(o) == row' = row \/ \E e \in PayEvents, v \in {"queued", "parked", "done"} : row' = [row EXCEPT ![o][e] = v]

LEMMA RelayTypes ==
    ASSUME PayTypeOK, NEW o \in Orders, Stamped(o), Leg(o, xfer, xfer'), Leg(o, refused, refused'),
           step' \subseteq step \union {o}, free' \in [Claims -> Nat],
           UNCHANGED <<pstate, wd, decisionVars, seatVars, execVars>>
    PROVE  PayTypeOK'
<1>1. row' \in [Orders -> [PayEvents -> {"none", "queued", "parked", "done"}]]
  BY RowTypes DEF PayTypeOK, Stamped
<1>2. ASSUME NEW f \in [Orders -> SUBSET PayLegs], NEW g, Leg(o, f, g) PROVE g \in [Orders -> SUBSET PayLegs]
  BY <1>2 DEF Leg
<1>3. xfer' \in [Orders -> SUBSET PayLegs] /\ refused' \in [Orders -> SUBSET PayLegs]
  BY <1>2 DEF PayTypeOK
<1> QED BY <1>1, <1>2, <1>3 DEF PayTypeOK, decisionVars, seatVars, execVars

LEMMA RelayFits ==
    ASSUME PayInv, NEW o \in Orders, Stamped(o), Leg(o, xfer, xfer'), Leg(o, refused, refused'),
           step' \subseteq step \union {o}, free' \in [Claims -> Nat],
           UNCHANGED <<pstate, wd, decisionVars, seatVars, execVars>>,
           RowsFit(o)' /\ LedgerFits(o)'
    PROVE  PayInv'
<1>0. PayTypeOK
  BY DEF PayInv
<1>1. ASSUME NEW p \in Orders PROVE xfer[p] \subseteq xfer'[p]
  BY <1>0, <1>1 DEF PayTypeOK, Leg
<1>2. ASSUME NEW p \in Orders, p # o PROVE RowsFit(p)' /\ LedgerFits(p)'
  <2>1. row'[p] = row[p] /\ xfer'[p] = xfer[p] /\ refused'[p] = refused[p] /\ (p \in step' => p \in step)
    BY <1>0, <1>2 DEF PayTypeOK, Leg, Stamped
  <2> QED BY <1>2, <2>1 DEF PayInv, RowsFit, LedgerFits
<1> QED BY <1>0, <1>1, <1>2, RelayTypes, RelayMoves

LEMMA ReservePreserves ==
    ASSUME PayInv, NEW o \in Orders, RelayReserve(o)
    PROVE  PayInv'
<1>0. PayTypeOK /\ Source[o] \in Claims /\ Cost[o] \in Nat /\ RowsFit(o) /\ LedgerFits(o)
  BY PayAssumption DEF PayInv
<1>1. row[o]["reserved"] = "queued" /\ UNCHANGED <<pstate, wd, decisionVars, seatVars, execVars>>
  BY DEF RelayReserve, Due
<1>2. /\ Stamped(o) /\ Leg(o, xfer, xfer') /\ Leg(o, refused, refused')
      /\ step' \subseteq step \union {o}
  BY DEF RelayReserve, Delivered, ParkPayment, Stamped, Leg, PayEvents, PayLegs
<1>3. free' \in [Claims -> Nat]
  BY <1>0 DEF RelayReserve, PayTypeOK
<1>4. RowsFit(o)' /\ LedgerFits(o)'
  <2> USE DEF RowsFit, LedgerFits, PayTypeOK, PayEvents
  <2>1. CASE /\ "reserve" \notin xfer[o] \union refused[o]
             /\ xfer' = [xfer EXCEPT ![o] = @ \union {"reserve"}]
             /\ UNCHANGED <<row, refused, step>>
    BY <1>0, <1>1, <2>1
  <2>2. CASE "reserve" \in xfer[o] /\ step' = step \union {o} /\ UNCHANGED <<row, xfer, refused>>
    BY <1>0, <1>1, <2>2
  <2>3. CASE o \in step /\ Delivered(o, "reserved") /\ UNCHANGED <<xfer, refused, step>>
    BY <1>0, <1>1, <2>3 DEF Delivered
  <2>4. CASE "reserve" \notin xfer[o] /\ ParkPayment(o, "reserved", "reserve") /\ UNCHANGED <<xfer, step>>
    BY <1>0, <1>1, <2>4 DEF ParkPayment
  <2> QED BY <2>1, <2>2, <2>3, <2>4 DEF RelayReserve
<1> QED BY <1>1, <1>2, <1>3, <1>4, RelayFits

LEMMA SettlePreserves ==
    ASSUME PayInv, NEW o \in Orders, RelaySettle(o)
    PROVE  PayInv'
<1>0. PayTypeOK /\ RowsFit(o) /\ LedgerFits(o)
  BY DEF PayInv
<1>1. row[o]["settled"] = "queued" /\ UNCHANGED <<pstate, wd, decisionVars, step, free, seatVars, execVars>>
  BY DEF RelaySettle, Due
<1>2. Stamped(o) /\ Leg(o, xfer, xfer') /\ Leg(o, refused, refused')
  BY DEF RelaySettle, Delivered, ParkPayment, Stamped, Leg, PayEvents, PayLegs
<1>3. "reserve" \in xfer[o]
  BY <1>0, <1>1 DEF LedgerFits
<1>4. RowsFit(o)' /\ LedgerFits(o)'
  <2> USE DEF RowsFit, LedgerFits, PayTypeOK, PayEvents
  <2>1. CASE /\ \E leg \in {"settle", "transfer"} : xfer' = [xfer EXCEPT ![o] = @ \union {leg}]
             /\ UNCHANGED <<row, refused>>
    BY <1>0, <1>1, <1>3, <2>1
  <2>2. CASE Delivered(o, "settled") /\ UNCHANGED <<xfer, refused>>
    BY <1>0, <1>1, <1>3, <2>2 DEF Delivered
  <2> QED BY <1>3, <2>1, <2>2 DEF RelaySettle
<1> QED BY <1>0, <1>1, <1>2, <1>4, RelayFits DEF PayTypeOK

LEMMA ReleasePreserves ==
    ASSUME PayInv, NEW o \in Orders, RelayRelease(o)
    PROVE  PayInv'
<1>0. PayTypeOK /\ Source[o] \in Claims /\ Cost[o] \in Nat /\ RowsFit(o) /\ LedgerFits(o)
  BY PayAssumption DEF PayInv
<1>1. row[o]["released"] = "queued" /\ UNCHANGED <<pstate, wd, decisionVars, step, seatVars, execVars>>
  BY DEF RelayRelease, Due
<1>2. Stamped(o) /\ Leg(o, xfer, xfer') /\ Leg(o, refused, refused') /\ row[o]["reserved"] # "queued"
  BY DEF RelayRelease, Due, Delivered, ParkPayment, Stamped, Leg, PayEvents, PayLegs
<1>3. free' \in [Claims -> Nat]
  <2>1. free' = free \/ free' = [free EXCEPT ![Source[o]] = @ + Cost[o]]
    BY DEF RelayRelease, ParkPayment
  <2>2. free[Source[o]] + Cost[o] \in Nat
    BY <1>0 DEF PayTypeOK
  <2> QED BY <1>0, <2>1, <2>2 DEF PayTypeOK
<1>4. RowsFit(o)' /\ LedgerFits(o)'
  <2> USE DEF RowsFit, LedgerFits, PayTypeOK, PayEvents
  <2>1. CASE xfer' = [xfer EXCEPT ![o] = @ \union {"void"}] /\ UNCHANGED <<row, refused>>
    BY <1>0, <1>1, <2>1
  <2>2. CASE "void" \in xfer[o] /\ Delivered(o, "released") /\ UNCHANGED <<xfer, refused>>
    BY <1>0, <1>1, <2>2 DEF Delivered
  <2>3. CASE /\ "reserve" \notin xfer[o] \/ "void" \in refused[o]
             /\ ParkPayment(o, "released", "void") /\ UNCHANGED xfer
    <3>1. row[o]["reserved"] \in {"parked", "done"}
      BY <1>0, <1>1, <1>2 DEF Past
    <3>2. "reserve" \in refused[o]
      BY <1>0, <2>3, <3>1
    <3> QED BY <1>0, <1>1, <2>3, <3>2 DEF ParkPayment
  <2> QED BY <2>1, <2>2, <2>3 DEF RelayRelease
<1> QED BY <1>1, <1>2, <1>3, <1>4, RelayFits

LEMMA UnparkPreserves ==
    ASSUME PayInv, NEW o \in Orders, NEW e \in PayEvents, UnparkPayment(o, e)
    PROVE  PayInv'
<1>0. PayTypeOK /\ RowsFit(o) /\ LedgerFits(o)
  BY DEF PayInv
<1>1. Stamped(o) /\ Leg(o, xfer, xfer') /\ Leg(o, refused, refused')
  BY DEF UnparkPayment, ledgerVars, Stamped, Leg
<1>2. RowsFit(o)' /\ LedgerFits(o)'
  BY <1>0 DEF UnparkPayment, ledgerVars, PayEvents, RowsFit, LedgerFits, PayTypeOK
<1> QED BY <1>0, <1>1, <1>2, RelayFits DEF UnparkPayment, ledgerVars, PayTypeOK

LEMMA RelayStepPreserves ==
    ASSUME PayInv, NEW o \in Orders, PayRelayStep(o)
    PROVE  PayInv'
BY ReservePreserves, SettlePreserves, ReleasePreserves, UnparkPreserves DEF PayRelayStep

-----------------------------------------------------------------------------
(***************************************************************************)
(* The executors: one moves, the others stay as they are.                  *)
(***************************************************************************)
Labels == {"idle", "settle", "create", "refind", "record", "pulled", "confirm", "approve", "execute",
           "report", "stamp"}
Outcomes == {"none", "executed", "failed", "void"}

Moves(x) ==
    /\ \E l \in Labels : at' = [at EXCEPT ![x] = l]
    /\ job' = job \/ \E o \in Orders : job' = [job EXCEPT ![x] = o]
    /\ out' = out \/ \E v \in Outcomes : out' = [out EXCEPT ![x] = v]
    /\ round' = round \/ \E b \in BOOLEAN : round' = [round EXCEPT ![x] = b]

LEMMA MovesAlone ==
    ASSUME PayTypeOK, NEW x \in Executors, Moves(x)
    PROVE  /\ at' \in [Executors -> Labels] /\ job' \in [Executors -> Orders]
           /\ out' \in [Executors -> Outcomes] /\ round' \in [Executors -> BOOLEAN]
           /\ \A y \in Executors : y # x => at'[y] = at[y] /\ job'[y] = job[y] /\ out'[y] = out[y]
<1>1. at' \in [Executors -> Labels] /\ \A y \in Executors : y # x => at'[y] = at[y]
  BY DEF PayTypeOK, Moves, Labels
<1>2. job' \in [Executors -> Orders] /\ \A y \in Executors : y # x => job'[y] = job[y]
  <2>1. job \in [Executors -> Orders]
    BY DEF PayTypeOK
  <2>2. job' = job \/ \E o \in Orders : job' = [job EXCEPT ![x] = o]
    BY DEF Moves
  <2> QED BY <2>1, <2>2
<1>3. out' \in [Executors -> Outcomes] /\ \A y \in Executors : y # x => out'[y] = out[y]
  <2>1. out \in [Executors -> Outcomes]
    BY DEF PayTypeOK, Outcomes
  <2> QED BY <2>1 DEF Moves
<1>4. round' \in [Executors -> BOOLEAN]
  <2>1. round \in [Executors -> BOOLEAN]
    BY DEF PayTypeOK
  <2> QED BY <2>1 DEF Moves
<1> QED BY <1>1, <1>2, <1>3, <1>4

LEMMA ExecutorMoves ==
    ASSUME PayInv, PayTypeOK', NEW x \in Executors, Moves(x), ExecutorFits(x)',
           \A o \in Orders : Keeps(o),
           \A o \in Orders : RowsFit(o)' /\ LedgerFits(o)' /\ WithdrawalFits(o)' /\ SeatFits(o)'
    PROVE  PayInv'
<1>1. ASSUME NEW y \in Executors, y # x PROVE ExecutorFits(y)'
  <2>1. job[y] \in Orders /\ ExecutorFits(y) /\ at'[y] = at[y] /\ job'[y] = job[y] /\ out'[y] = out[y]
    BY <1>1, MovesAlone DEF PayInv, PayTypeOK
  <2> QED BY <2>1, ExecutorRests DEF PayInv
<1> QED BY <1>1 DEF PayInv

\* The executor's own step: no order is touched, and what it was about to record it does not
\* leave behind.
LEMMA OwnStep ==
    ASSUME PayInv, NEW x \in Executors, Moves(x), ExecutorFits(x)',
           UNCHANGED <<pstate, row, wd, decisionVars, ledgerVars, opener, appr, dead, withdrawn>>,
           known' \subseteq known \union {job[x]}, execBy' \subseteq execBy \union {job[x]},
           reported' \subseteq reported \union {job[x]},
           orphaned \subseteq orphaned', orphaned' \subseteq orphaned \union {job[x]},
           at[x] = "record" /\ out[x] = "executed" => job[x] \in orphaned'
    PROVE  PayInv'
<1>0. PayTypeOK /\ job[x] \in Orders
  BY DEF PayInv, PayTypeOK
<1>1. PayTypeOK'
  BY <1>0, MovesAlone DEF PayTypeOK, Labels, Outcomes, decisionVars, ledgerVars
<1>2. ASSUME NEW o \in Orders PROVE Keeps(o) /\ RowsFit(o)' /\ LedgerFits(o)' /\ SeatFits(o)'
  <2>1. RowsFit(o) /\ LedgerFits(o) /\ SeatFits(o)
    BY DEF PayInv
  <2>2. UNCHANGED <<xfer, refused, step, late, tries, burned, answer>>
    BY DEF decisionVars, ledgerVars
  <2>3. Keeps(o) /\ SeatFits(o)'
    BY <2>1, <2>2 DEF Keeps, SeatFits, Told, Live
  <2> QED BY <2>1, <2>2, <2>3 DEF RowsFit, LedgerFits
<1>3. ASSUME NEW o \in Orders PROVE WithdrawalFits(o)'
  <2>1. ASSUME wd[o] = "queued", o \notin orphaned', pstate[o] # "executed"
        PROVE  \E y \in Executors : job'[y] = o /\ at'[y] = "record" /\ out'[y] = "executed"
    <3>1. PICK y \in Executors : job[y] = o /\ at[y] = "record" /\ out[y] = "executed"
      BY <2>1 DEF PayInv, WithdrawalFits
    <3>2. y # x
      BY <2>1, <3>1
    <3> QED BY <1>0, <3>1, <3>2, MovesAlone
  <2> QED BY <2>1 DEF PayInv, WithdrawalFits
<1> QED BY <1>1, <1>2, <1>3, ExecutorMoves

LEMMA ReadsFit ==
    ASSUME PayInv, NEW x \in Executors, NEW o \in Orders, pstate[o] = "approved", ExecuteReads(x, o),
           round' = round \/ round' = [round EXCEPT ![x] = FALSE],
           UNCHANGED <<pstate, xfer, appr, late>>
    PROVE  Moves(x) /\ ExecutorFits(x)'
<1>0. PayTypeOK /\ Tier[o] \in {"internal", "service", "external"}
  BY PayAssumption DEF PayInv
<1>1. Verdict(o) \in {"failed", "void", "none"}
  BY DEF Verdict
<1>2. PICK l \in {"record", "settle", "create"} :
         /\ at' = [at EXCEPT ![x] = l]
         /\ Verdict(o) # "none" <=> l = "record"
         /\ l = "settle" => SettlesOnTheLedger(o)
         /\ l = "create" => Tier[o] = "external"
  <2>1. SettlesOnTheLedger(o) \/ Tier[o] = "external"
    BY <1>0 DEF SettlesOnTheLedger
  <2> QED BY <2>1 DEF ExecuteReads, Goes
<1>3. job' = [job EXCEPT ![x] = o] /\ out' = [out EXCEPT ![x] = Verdict(o)]
  BY DEF ExecuteReads, Keep
<1>4. Moves(x)
  BY <1>1, <1>2, <1>3 DEF Moves, Labels, Outcomes
<1>5. at'[x] = l /\ job'[x] = o /\ out'[x] = Verdict(o)
  BY <1>0, <1>2, <1>3 DEF PayTypeOK
<1> QED BY <1>1, <1>2, <1>4, <1>5 DEF ExecutorFits, Past, SettlesOnTheLedger

LEMMA SweepPreserves ==
    ASSUME PayInv, NEW x \in Executors, NEW o \in Orders, SweepPayment(x, o)
    PROVE  PayInv'
<1>1. Moves(x) /\ ExecutorFits(x)'
  BY ReadsFit DEF SweepPayment, AwaitingExecution, seatVars, decisionVars, ledgerVars
<1> QED BY <1>1, OwnStep DEF SweepPayment, seatVars

LEMMA IdleFits ==
    ASSUME PayTypeOK, NEW x \in Executors, Goes(x, "idle")
    PROVE  ExecutorFits(x)' /\ \E l \in Labels : at' = [at EXCEPT ![x] = l]
BY DEF PayTypeOK, Goes, ExecutorFits, Labels

LEMMA OwnStepsPreserve ==
    ASSUME PayInv, NEW x \in Executors,
           SettleOnTheLedger(x) \/ WithdrawalHeld(x) \/ RefindWithdrawal(x) \/ ExecutorDies(x)
    PROVE  PayInv'
<1>0. PayTypeOK /\ ExecutorFits(x) /\ job[x] \in Orders
  BY DEF PayInv, PayTypeOK
<1>1. CASE SettleOnTheLedger(x)
  <2>1. /\ at[x] = "settle" /\ UNCHANGED round
        /\ UNCHANGED <<pstate, row, wd, decisionVars, ledgerVars, seatVars, orphaned>>
    BY <1>1 DEF SettleOnTheLedger
  <2>2. CASE Goes(x, "idle") /\ UNCHANGED <<job, out>>
    <3>1. Moves(x) /\ ExecutorFits(x)'
      BY <1>0, <2>1, <2>2, IdleFits DEF Moves
    <3> QED BY <2>1, <3>1, OwnStep DEF seatVars
  <2>3. CASE "reserve" \in xfer[job[x]] /\ Keep(x, job[x], "executed") /\ Goes(x, "record")
    <3>1. Moves(x)
      BY <1>0, <2>1, <2>3 DEF Moves, Goes, Keep, Labels, Outcomes
    <3>2. at'[x] = "record" /\ job'[x] = job[x] /\ out'[x] = "executed"
      BY <1>0, <2>3 DEF Goes, Keep, PayTypeOK
    <3>3. ExecutorFits(x)'
      BY <1>0, <2>1, <2>3, <3>2 DEF ExecutorFits, ledgerVars, SettlesOnTheLedger
    <3> QED BY <2>1, <3>1, <3>3, OwnStep DEF seatVars
  <2>4. CASE Keep(x, job[x], "failed") /\ Goes(x, "record")
    <3>1. Moves(x)
      BY <1>0, <2>1, <2>4 DEF Moves, Goes, Keep, Labels, Outcomes
    <3>2. at'[x] = "record" /\ job'[x] = job[x] /\ out'[x] = "failed"
      BY <1>0, <2>4 DEF Goes, Keep, PayTypeOK
    <3>3. ExecutorFits(x)'
      BY <1>0, <2>1, <3>2 DEF ExecutorFits, SettlesOnTheLedger
    <3> QED BY <2>1, <3>1, <3>3, OwnStep DEF seatVars
  <2> QED BY <1>1, <2>2, <2>3, <2>4 DEF SettleOnTheLedger
<1>2. CASE WithdrawalHeld(x)
  <2>1. Moves(x) /\ ExecutorFits(x)'
    BY <1>0, <1>2, IdleFits DEF WithdrawalHeld, Moves
  <2> QED BY <1>2, <2>1, OwnStep DEF WithdrawalHeld, seatVars
<1>3. CASE RefindWithdrawal(x)
  <2>1. PICK v \in {"executed", "failed"} : Keep(x, job[x], v) /\ Goes(x, "record")
    BY <1>3 DEF RefindWithdrawal
  <2>2. Moves(x)
    BY <1>0, <1>3, <2>1 DEF RefindWithdrawal, Moves, Goes, Keep, Labels, Outcomes
  <2>3. at'[x] = "record" /\ job'[x] = job[x] /\ out'[x] = v
    BY <1>0, <2>1 DEF Goes, Keep, PayTypeOK
  <2>4. ExecutorFits(x)'
    BY <1>0, <1>3, <2>3 DEF RefindWithdrawal, ExecutorFits, SettlesOnTheLedger
  <2> QED BY <1>3, <2>2, <2>4, OwnStep DEF RefindWithdrawal, seatVars
<1>4. CASE ExecutorDies(x)
  <2>1. Moves(x) /\ ExecutorFits(x)'
    BY <1>0, <1>4, IdleFits DEF ExecutorDies, Moves
  <2> QED BY <1>0, <1>4, <2>1, OwnStep DEF ExecutorDies, seatVars
<1> QED BY <1>1, <1>2, <1>3, <1>4

LEMMA RoundOwnPreserves ==
    ASSUME PayInv, NEW x \in Executors,
           \/ \E o \in Orders : PullApproved(x, o) \/ ReportEnded(x, o)
           \/ CarryOut(x) \/ Reread(x) \/ RoundExecutes(x) \/ ReportLater(x) \/ Reported(x)
    PROVE  PayInv'
<1>0. PayTypeOK /\ ExecutorFits(x) /\ job[x] \in Orders
  BY DEF PayInv, PayTypeOK
<1>1. ASSUME NEW o \in Orders, PullApproved(x, o) PROVE PayInv'
  <2>1. Moves(x)
    BY <1>1 DEF PullApproved, Moves, Goes, Keep, Labels, Outcomes
  <2>2. at'[x] = "pulled" /\ job'[x] = o /\ out'[x] = "none"
    BY <1>0, <1>1 DEF PullApproved, Goes, Keep, PayTypeOK
  <2>3. ExecutorFits(x)'
    BY <1>1, <2>2 DEF PullApproved, ExecutorFits, seatVars
  <2> QED BY <1>1, <2>1, <2>3, OwnStep DEF PullApproved, seatVars
<1>2. ASSUME NEW o \in Orders, ReportEnded(x, o) PROVE PayInv'
  <2>1. Moves(x)
    BY <1>2 DEF ReportEnded, Moves, Goes, Keep, Labels, Outcomes
  <2>2. at'[x] = "report" /\ job'[x] = o /\ out'[x] = "none"
    BY <1>0, <1>2 DEF ReportEnded, Goes, Keep, PayTypeOK
  <2>3. ExecutorFits(x)'
    BY <1>2, <2>2 DEF ReportEnded, DueToReport, ExecutorFits
  <2> QED BY <1>2, <2>1, <2>3, OwnStep DEF ReportEnded, seatVars
<1>3. CASE CarryOut(x)
  <2>1. /\ at[x] = "pulled" /\ out[x] = "none" /\ appr[job[x]] # "none"
        /\ UNCHANGED <<pstate, row, wd, decisionVars, ledgerVars, seatVars, round, orphaned>>
    BY <1>0, <1>3 DEF CarryOut, ExecutorFits
  <2>2. CASE Goes(x, "confirm") /\ UNCHANGED <<job, out>>
    <3>1. Moves(x) /\ at'[x] = "confirm"
      BY <1>0, <2>1, <2>2 DEF Moves, Goes, Labels, PayTypeOK
    <3>2. ExecutorFits(x)'
      BY <2>1, <2>2, <3>1 DEF ExecutorFits, seatVars
    <3> QED BY <2>1, <3>1, <3>2, OwnStep DEF seatVars
  <2>3. CASE pstate[job[x]] \in {"executed", "execution_failed"} /\ Goes(x, "report") /\ UNCHANGED <<job, out>>
    <3>1. Moves(x) /\ at'[x] = "report"
      BY <1>0, <2>1, <2>3 DEF Moves, Goes, Labels, PayTypeOK
    <3>2. ExecutorFits(x)'
      BY <2>1, <2>3, <3>1 DEF ExecutorFits
    <3> QED BY <2>1, <3>1, <3>2, OwnStep DEF seatVars
  <2>4. CASE /\ pstate[job[x]] \notin {"pending", "approved", "executed", "execution_failed"}
             /\ Goes(x, "report") /\ Keep(x, job[x], "void")
    <3>1. Moves(x)
      BY <1>0, <2>1, <2>4 DEF Moves, Goes, Keep, Labels, Outcomes
    <3>2. at'[x] = "report" /\ job'[x] = job[x] /\ out'[x] = "void"
      BY <1>0, <2>4 DEF Goes, Keep, PayTypeOK
    <3>3. Told(job[x])
      BY <1>0, <2>1, <2>4 DEF PayInv, SeatFits, Told, Live
    <3>4. ExecutorFits(x)'
      BY <2>1, <3>2, <3>3 DEF ExecutorFits, Told, Live, seatVars, decisionVars
    <3> QED BY <2>1, <3>1, <3>4, OwnStep DEF seatVars
  <2> QED BY <1>3, <2>2, <2>3, <2>4 DEF CarryOut
<1>4. CASE Reread(x)
  <2>1. PICK l \in {"approve", "idle"} : Goes(x, l)
    BY <1>4 DEF Reread
  <2>2. Moves(x) /\ at'[x] = l
    BY <1>0, <1>4, <2>1 DEF Reread, Moves, Goes, Labels, PayTypeOK
  <2>3. ExecutorFits(x)'
    BY <1>0, <1>4, <2>2 DEF Reread, ExecutorFits, seatVars
  <2> QED BY <1>4, <2>2, <2>3, OwnStep DEF Reread, seatVars
<1>5. CASE RoundExecutes(x)
  <2>1. /\ at[x] = "execute" /\ out[x] = "none"
        /\ UNCHANGED <<pstate, row, wd, decisionVars, ledgerVars, seatVars, round, orphaned>>
    BY <1>0, <1>5 DEF RoundExecutes, ExecutorFits
  <2>2. CASE pstate[job[x]] = "approved" /\ ExecuteReads(x, job[x])
    <3>1. Moves(x) /\ ExecutorFits(x)'
      BY <1>0, <2>1, <2>2, ReadsFit DEF seatVars, decisionVars, ledgerVars
    <3> QED BY <2>1, <3>1, OwnStep DEF seatVars
  <2>3. CASE pstate[job[x]] = "executed" /\ Goes(x, "report") /\ UNCHANGED <<job, out>>
    <3>1. Moves(x) /\ at'[x] = "report"
      BY <1>0, <2>1, <2>3 DEF Moves, Goes, Labels, PayTypeOK
    <3>2. ExecutorFits(x)'
      BY <2>1, <2>3, <3>1 DEF ExecutorFits
    <3> QED BY <2>1, <3>1, <3>2, OwnStep DEF seatVars
  <2>4. CASE Goes(x, "idle") /\ UNCHANGED <<job, out>>
    <3>1. Moves(x) /\ ExecutorFits(x)'
      BY <1>0, <2>1, <2>4, IdleFits DEF Moves
    <3> QED BY <2>1, <3>1, OwnStep DEF seatVars
  <2> QED BY <1>5, <2>2, <2>3, <2>4 DEF RoundExecutes
<1>6. CASE ReportLater(x)
  <2>1. Moves(x) /\ ExecutorFits(x)'
    BY <1>0, <1>6, IdleFits DEF ReportLater, Moves
  <2> QED BY <1>6, <2>1, OwnStep DEF ReportLater, seatVars
<1>7. CASE Reported(x)
  <2>1. Moves(x) /\ ExecutorFits(x)'
    BY <1>0, <1>7, IdleFits DEF Reported, Moves
  <2> QED BY <1>7, <2>1, OwnStep DEF Reported
<1> QED BY <1>1, <1>2, <1>3, <1>4, <1>5, <1>6, <1>7

-----------------------------------------------------------------------------
(***************************************************************************)
(* The executor's steps on the order: its withdrawal, its outcome, the     *)
(* approval of concierge's decision, the report to concierge.              *)
(***************************************************************************)
LEMMA OrderMoves ==
    ASSUME PayInv, NEW x \in Executors, Moves(x), ExecutorFits(x)',
           Transition(job[x]) \/ UNCHANGED <<pstate, row>>,
           Approve(job[x]) => Live(job[x]) \/ Seat[job[x]] # "concierge",
           UNCHANGED <<decisionVars, xfer, refused, step, opener, appr, dead, reported, withdrawn, orphaned>>,
           known' \subseteq known \union {job[x]}, execBy' \subseteq execBy \union {job[x]},
           free' \in [Claims -> Nat],
           \/ UNCHANGED wd
           \/ wd[job[x]] # "none" /\ wd' = [wd EXCEPT ![job[x]] = "cancelled"],
           at[x] = "record" /\ out[x] = "executed" /\ wd'[job[x]] = "queued" => pstate'[job[x]] = "executed"
    PROVE  PayInv'
<1>0. PayTypeOK /\ job[x] \in Orders
  BY DEF PayInv, PayTypeOK
<1>1. UNCHANGED <<late, tries, burned, answer, pins>>
  BY DEF decisionVars
<1>2. /\ pstate' \in [Orders -> PaymentStates \union {"none"}]
      /\ row' \in [Orders -> [PayEvents -> {"none", "queued", "parked", "done"}]]
  BY <1>0, TransitionTypes DEF PayTypeOK
<1>3. PayTypeOK'
  <2>1. wd' \in [Orders -> {"none", "queued", "dispatched", "cancelled"}]
    <3>1. wd \in [Orders -> {"none", "queued", "dispatched", "cancelled"}]
      BY <1>0 DEF PayTypeOK
    <3> QED BY <1>0, <3>1
  <2> QED BY <1>0, <1>1, <1>2, <2>1, MovesAlone DEF PayTypeOK, Labels, Outcomes
<1>4. ASSUME NEW p \in Orders PROVE Keeps(p) /\ RowsFit(p)' /\ LedgerFits(p)'
  BY <1>0, <1>1, TransitionKeeps
<1>5. ASSUME NEW p \in Orders PROVE SeatFits(p)'
  <2>1. SeatFits(p) /\ Keeps(p)
    BY <1>4 DEF PayInv
  <2> QED BY <1>1, <2>1 DEF SeatFits, Keeps, Told, Live
<1>6. ASSUME NEW p \in Orders PROVE WithdrawalFits(p)'
  <2>1. WithdrawalFits(p) /\ Keeps(p)
    BY <1>4 DEF PayInv
  <2>2. wd'[p] = wd[p] \/ (wd[p] # "none" /\ wd'[p] = "cancelled")
    BY <1>0 DEF PayTypeOK
  <2>3. ASSUME wd'[p] = "queued", p \notin orphaned, pstate'[p] # "executed"
        PROVE  \E y \in Executors : job'[y] = p /\ at'[y] = "record" /\ out'[y] = "executed"
    <3>1. PICK y \in Executors : job[y] = p /\ at[y] = "record" /\ out[y] = "executed"
      BY <2>1, <2>2, <2>3 DEF WithdrawalFits, Keeps
    <3>2. y # x
      BY <2>3, <3>1
    <3> QED BY <1>0, <3>1, <3>2, MovesAlone
  <2> QED BY <2>1, <2>2, <2>3 DEF WithdrawalFits, Keeps
<1> QED BY <1>3, <1>4, <1>5, <1>6, ExecutorMoves

LEMMA ReturnsMoves ==
    ASSUME PayTypeOK, NEW x \in Executors, NEW ok \in BOOLEAN, Returns(x, ok), UNCHANGED <<job, round>>
    PROVE  /\ Moves(x) /\ at'[x] \in {"idle", "report"} /\ out'[x] = "none" /\ job'[x] = job[x]
           /\ at'[x] = "report" => ok
BY DEF PayTypeOK, Returns, Goes, Moves, Labels, Outcomes

LEMMA RecordExecutionPreserves ==
    ASSUME PayInv, NEW x \in Executors, RecordExecution(x)
    PROVE  PayInv'
<1>0. PayTypeOK /\ ExecutorFits(x) /\ job[x] \in Orders /\ WithdrawalFits(job[x])
  BY DEF PayInv, PayTypeOK
<1>1. /\ at[x] = "record" /\ pstate[job[x]] \in Past
      /\ ~(out[x] = "executed" /\ Tier[job[x]] = "external" /\ Closed(job[x]))
      /\ UNCHANGED <<wd, decisionVars, ledgerVars, seatVars, job, round, orphaned>>
  BY <1>0 DEF RecordExecution, ExecutorFits
<1>2. PICK ok \in BOOLEAN :
         /\ Returns(x, ok)
         /\ \/ out[x] = "executed" /\ MarkExecuted(job[x])
            \/ out[x] = "failed" /\ MarkExecutionFailed(job[x])
            \/ /\ pstate[job[x]] # "approved" /\ UNCHANGED <<pstate, row>>
               /\ ok => pstate[job[x]] \in {"executed", "execution_failed"}
  BY DEF RecordExecution
<1>3. Transition(job[x]) \/ UNCHANGED <<pstate, row>>
  BY <1>0, <1>1, <1>2 DEF Transition, ExecutorFits
<1>4. ~Approve(job[x])
  BY <1>1 DEF Approve, Past
<1>5. ok => pstate'[job[x]] \in {"executed", "execution_failed"}
  BY <1>0, <1>2 DEF MarkExecuted, MarkExecutionFailed, PayTypeOK
<1>6. out[x] = "executed" /\ wd[job[x]] = "queued" => pstate'[job[x]] = "executed"
  <2>1. CASE MarkExecuted(job[x])
    BY <1>0, <2>1 DEF MarkExecuted, PayTypeOK
  <2>2. CASE pstate[job[x]] # "approved" /\ UNCHANGED <<pstate, row>>
    BY <1>0, <1>1, <2>2 DEF WithdrawalFits, Closed, Past
  <2> QED BY <1>2, <2>1, <2>2
<1>7. Moves(x) /\ ExecutorFits(x)'
  BY <1>0, <1>1, <1>2, <1>5, ReturnsMoves DEF ExecutorFits
<1> QED BY <1>0, <1>1, <1>3, <1>4, <1>6, <1>7, OrderMoves DEF seatVars, ledgerVars, PayTypeOK

LEMMA CancelOnFits ==
    ASSUME PayTypeOK, NEW o \in Orders, CancelOn(o)
    PROVE  /\ free' \in [Claims -> Nat] /\ wd'[o] # "queued"
           /\ UNCHANGED wd \/ (wd[o] # "none" /\ wd' = [wd EXCEPT ![o] = "cancelled"])
<1>1. Source[o] \in Claims /\ free[Source[o]] + Cost[o] \in Nat
  BY PayAssumption DEF PayTypeOK
<1>2. CASE wd[o] = "queued"
  <2>1. wd' = [wd EXCEPT ![o] = "cancelled"] /\ free' = [free EXCEPT ![Source[o]] = @ + Cost[o]]
    BY <1>2 DEF CancelOn
  <2> QED BY <1>1, <1>2, <2>1 DEF PayTypeOK
<1>3. CASE wd[o] # "queued"
  BY <1>3 DEF CancelOn, PayTypeOK
<1> QED BY <1>2, <1>3

LEMMA RecordVoidPreserves ==
    ASSUME PayInv, NEW x \in Executors, RecordVoid(x)
    PROVE  PayInv'
<1>0. PayTypeOK /\ ExecutorFits(x) /\ job[x] \in Orders /\ WithdrawalFits(job[x])
  BY DEF PayInv, PayTypeOK
<1>1. /\ at[x] = "record" /\ pstate[job[x]] = "approved"
      /\ UNCHANGED <<decisionVars, xfer, refused, step, seatVars, job, round, orphaned>>
  BY DEF RecordVoid
<1>2. ~Approve(job[x])
  BY <1>1 DEF Approve
<1>3. CASE wd[job[x]] = "dispatched" /\ MarkExecuted(job[x]) /\ UNCHANGED <<wd, free>> /\ Returns(x, TRUE)
  <2>1. pstate'[job[x]] = "executed"
    BY <1>0, <1>3 DEF MarkExecuted, PayTypeOK
  <2>2. Moves(x) /\ ExecutorFits(x)'
    BY <1>0, <1>1, <1>3, <2>1, ReturnsMoves DEF ExecutorFits
  <2>3. Transition(job[x])
    BY <1>0, <1>3 DEF Transition, WithdrawalFits, SettlesOnTheLedger
  <2> QED BY <1>0, <1>1, <1>2, <1>3, <2>2, <2>3, OrderMoves DEF seatVars, PayTypeOK
<1>4. CASE MarkExecutionFailed(job[x]) /\ CancelOn(job[x]) /\ Returns(x, out[x] = "void")
  <2>1. pstate'[job[x]] = "execution_failed"
    BY <1>0, <1>4 DEF MarkExecutionFailed, PayTypeOK
  <2>2. Moves(x) /\ ExecutorFits(x)'
    BY <1>0, <1>1, <1>4, <2>1, ReturnsMoves DEF ExecutorFits
  <2>3. Transition(job[x])
    BY <1>4 DEF Transition
  <2> QED BY <1>0, <1>1, <1>2, <1>4, <2>2, <2>3, CancelOnFits, OrderMoves DEF seatVars
<1> QED BY <1>3, <1>4 DEF RecordVoid

LEMMA RecordOverClosedPreserves ==
    ASSUME PayInv, NEW x \in Executors, RecordOverClosed(x)
    PROVE  PayInv'
<1>0. PayTypeOK /\ job[x] \in Orders
  BY DEF PayInv, PayTypeOK
<1>1. Moves(x) /\ ExecutorFits(x)'
  BY <1>0, IdleFits DEF RecordOverClosed, Moves
<1>2. ~Approve(job[x])
  BY DEF RecordOverClosed, Closed, Approve
<1> QED BY <1>0, <1>1, <1>2, CancelOnFits, OrderMoves DEF RecordOverClosed, seatVars

LEMMA ConciergeApprovalPreserves ==
    ASSUME PayInv, NEW x \in Executors, RecordConciergeApproval(x)
    PROVE  PayInv'
<1>0. PayTypeOK /\ ExecutorFits(x) /\ job[x] \in Orders
  BY DEF PayInv, PayTypeOK
<1>1. /\ at[x] = "approve" /\ out[x] = "none" /\ appr[job[x]] # "none" /\ pstate[job[x]] # "none"
      /\ UNCHANGED <<wd, decisionVars, ledgerVars, opener, appr, dead, reported, withdrawn, round, orphaned>>
      /\ known' \subseteq known \union {job[x]} /\ execBy' \subseteq execBy \union {job[x]}
  BY <1>0 DEF RecordConciergeApproval, ExecutorFits, PayInv, SeatFits
<1>2. CASE /\ (Live(job[x]) /\ Approve(job[x])) \/ UNCHANGED <<pstate, row>>
           /\ Goes(x, "execute") /\ UNCHANGED <<job, out>>
  <2>1. Moves(x) /\ at'[x] = "execute"
    BY <1>0, <1>1, <1>2 DEF Moves, Goes, Labels, PayTypeOK
  <2>2. ExecutorFits(x)'
    BY <1>1, <1>2, <2>1 DEF ExecutorFits
  <2> QED BY <1>0, <1>1, <1>2, <2>1, <2>2, OrderMoves DEF Transition, ledgerVars, PayTypeOK, Approve, EnterVerdict
<1>3. CASE /\ pstate[job[x]] \notin {"approved", "executed"} /\ ~Live(job[x])
           /\ Keep(x, job[x], "void") /\ Goes(x, "report") /\ UNCHANGED <<pstate, row>>
  <2>1. Moves(x)
    BY <1>0, <1>1, <1>3 DEF Moves, Goes, Keep, Labels, Outcomes
  <2>2. at'[x] = "report" /\ job'[x] = job[x] /\ out'[x] = "void"
    BY <1>0, <1>3 DEF Goes, Keep, PayTypeOK
  <2>3. ExecutorFits(x)'
    BY <1>1, <1>3, <2>2 DEF ExecutorFits, Told, Live, decisionVars
  <2> QED BY <1>1, <1>3, <2>1, <2>3, OwnStep
<1> QED BY <1>2, <1>3 DEF RecordConciergeApproval

LEMMA ReportPreserves ==
    ASSUME PayInv, NEW x \in Executors, Report(x)
    PROVE  PayInv'
<1>0. PayTypeOK /\ ExecutorFits(x) /\ job[x] \in Orders /\ OutcomeOf(x) \in {"void", "executed", "failed"}
  BY DEF PayInv, PayTypeOK, OutcomeOf
<1>1. /\ at[x] = "report"
      /\ appr' = appr \/ (appr[job[x]] = "passed" /\ appr' = [appr EXCEPT ![job[x]] = OutcomeOf(x)])
      /\ UNCHANGED <<pstate, row, wd, decisionVars, ledgerVars, opener, known, execBy, dead, reported,
                     withdrawn, job, out, round, orphaned>>
  BY DEF Report
<1>2. PICK l \in {"idle", "stamp"} : Goes(x, l)
  BY DEF Report
<1>3. Moves(x) /\ at'[x] = l
  BY <1>0, <1>1, <1>2 DEF Moves, Goes, Labels, PayTypeOK
<1>4. ExecutorFits(x)'
  BY <1>3 DEF ExecutorFits
<1>5. PayTypeOK'
  <2>1. appr' \in [Orders -> {"none", "open", "passed", "ended", "executed", "failed", "void"}]
    BY <1>0, <1>1 DEF PayTypeOK
  <2> QED BY <1>0, <1>1, <1>3, <2>1, MovesAlone DEF PayTypeOK, Labels, Outcomes, decisionVars, ledgerVars
<1>6. ASSUME NEW o \in Orders PROVE Keeps(o) /\ RowsFit(o)' /\ LedgerFits(o)'
  <2>1. RowsFit(o) /\ LedgerFits(o) /\ UNCHANGED <<xfer, refused, step, late>>
    BY <1>1 DEF PayInv, decisionVars, ledgerVars
  <2>2. appr[o] # "none" => appr'[o] # "none"
    BY <1>0, <1>1 DEF PayTypeOK
  <2> QED BY <1>1, <2>1, <2>2 DEF Keeps, RowsFit, LedgerFits, Told, Live
<1>7. ASSUME NEW o \in Orders PROVE SeatFits(o)'
  <2>1. SeatFits(o) /\ UNCHANGED <<late, tries, burned, answer>>
    BY <1>1 DEF PayInv, decisionVars
  <2>2. CASE appr'[o] = appr[o]
    BY <1>1, <2>1, <2>2 DEF SeatFits, Live
  <2>3. CASE o = job[x] /\ appr[o] = "passed" /\ appr'[o] = OutcomeOf(x)
    BY <1>0, <1>1, <2>1, <2>3 DEF SeatFits, Live, Told, ExecutorFits, OutcomeOf
  <2> QED BY <1>0, <1>1, <2>2, <2>3 DEF PayTypeOK
<1>8. ASSUME NEW o \in Orders PROVE WithdrawalFits(o)'
  <2>1. ASSUME wd[o] = "queued", o \notin orphaned, pstate[o] # "executed"
        PROVE  \E y \in Executors : job'[y] = o /\ at'[y] = "record" /\ out'[y] = "executed"
    <3>1. PICK y \in Executors : job[y] = o /\ at[y] = "record" /\ out[y] = "executed"
      BY <2>1 DEF PayInv, WithdrawalFits
    <3>2. y # x
      BY <1>1, <3>1
    <3> QED BY <1>0, <3>1, <3>2, <1>3, MovesAlone
  <2> QED BY <1>1, <2>1 DEF PayInv, WithdrawalFits
<1> QED BY <1>3, <1>4, <1>5, <1>6, <1>7, <1>8, ExecutorMoves


\* What is owed to undelivered reservations only lowers what a claim can spend.
LEMMA SpendableWithinFree ==
    ASSUME PayTypeOK, NEW c \in Claims
    PROVE  ClaimSpendable(c) \in Int /\ ClaimSpendable(c) <= free[c]
<1> DEFINE owed == SumFn(Cost, Orders)
<1>1. IsFiniteSet(Orders) /\ \A o \in Orders : Cost[o] \in Nat
  BY PayAssumption
<1>2. IsSum(owed, Cost, Orders)
  BY <1>1, SumFnIs
<1>3. Undelivered(c) \in SUBSET Orders
  BY DEF Undelivered
<1>4. ClaimSpendable(c) = free[c] - owed[Undelivered(c)]
  BY DEF ClaimSpendable, SumFn, IsSum
<1>5. owed[Undelivered(c)] = SumOver(Cost, Undelivered(c))
  BY <1>1, <1>3, SumWithin
<1>6. IsFiniteSet(Undelivered(c)) /\ \A o \in Undelivered(c) : Cost[o] \in Nat
  BY <1>1, <1>3, FS_Subset
<1>7. SumOver(Cost, Undelivered(c)) \in Nat
  BY <1>6, SumNat
<1> HIDE DEF owed
<1> QED BY <1>4, <1>5, <1>7 DEF PayTypeOK

LEMMA CreateWithdrawalPreserves ==
    ASSUME PayInv, NEW x \in Executors, CreateWithdrawal(x)
    PROVE  PayInv'
<1>0. PayTypeOK /\ ExecutorFits(x) /\ job[x] \in Orders /\ Source[job[x]] \in Claims /\ Cost[job[x]] \in Nat
  BY PayAssumption DEF PayInv, PayTypeOK
<1>1. /\ at[x] = "create" /\ pstate[job[x]] \in Past /\ Tier[job[x]] = "external"
      /\ UNCHANGED <<pstate, row, decisionVars, xfer, refused, step, seatVars, round, orphaned>>
  BY <1>0 DEF CreateWithdrawal, ExecutorFits
<1>2. CASE Keep(x, job[x], "executed") /\ Goes(x, "record") /\ UNCHANGED <<wd, free>>
  <2>1. Moves(x)
    BY <1>0, <1>1, <1>2 DEF Moves, Goes, Keep, Labels, Outcomes
  <2>2. at'[x] = "record" /\ job'[x] = job[x] /\ out'[x] = "executed"
    BY <1>0, <1>2 DEF Goes, Keep, PayTypeOK
  <2>3. ExecutorFits(x)'
    BY <1>1, <2>2 DEF ExecutorFits, SettlesOnTheLedger
  <2> QED BY <1>1, <1>2, <2>1, <2>3, OwnStep DEF seatVars, ledgerVars
<1>3. CASE Goes(x, "refind") /\ UNCHANGED <<wd, free, job, out>>
  <2>1. Moves(x) /\ at'[x] = "refind"
    BY <1>0, <1>1, <1>3 DEF Moves, Goes, Labels, PayTypeOK
  <2>2. ExecutorFits(x)'
    BY <1>1, <1>3, <2>1 DEF ExecutorFits
  <2> QED BY <1>1, <1>3, <2>1, <2>2, OwnStep DEF seatVars, ledgerVars
<1>4. CASE /\ wd[job[x]] = "none" /\ ClaimSpendable(Source[job[x]]) >= Cost[job[x]]
           /\ wd' = [wd EXCEPT ![job[x]] = "queued"]
           /\ free' = [free EXCEPT ![Source[job[x]]] = @ - Cost[job[x]]]
           /\ Keep(x, job[x], "executed") /\ Goes(x, "record")
  <2>1. Moves(x)
    BY <1>0, <1>1, <1>4 DEF Moves, Goes, Keep, Labels, Outcomes
  <2>2. at'[x] = "record" /\ job'[x] = job[x] /\ out'[x] = "executed"
    BY <1>0, <1>4 DEF Goes, Keep, PayTypeOK
  <2>3. ExecutorFits(x)'
    BY <1>1, <2>2 DEF ExecutorFits, SettlesOnTheLedger
  <2>4. wd' \in [Orders -> {"none", "queued", "dispatched", "cancelled"}]
    BY <1>0, <1>4 DEF PayTypeOK
  <2>5. free' \in [Claims -> Nat]
    <3>1. free[Source[job[x]]] \in Nat /\ free[Source[job[x]]] - Cost[job[x]] \in Nat
      BY <1>0, <1>4, SpendableWithinFree DEF PayTypeOK
    <3> QED BY <1>0, <1>4, <3>1 DEF PayTypeOK
  <2>6. PayTypeOK'
    BY <1>0, <1>1, <2>1, <2>4, <2>5, MovesAlone DEF PayTypeOK, Labels, Outcomes, decisionVars, seatVars
  <2>7. ASSUME NEW o \in Orders PROVE Keeps(o) /\ RowsFit(o)' /\ LedgerFits(o)' /\ SeatFits(o)'
    <3>1. RowsFit(o) /\ LedgerFits(o) /\ SeatFits(o)
      BY DEF PayInv
    <3>2. UNCHANGED <<pstate, row, xfer, refused, step, late, tries, burned, answer, opener, appr>>
      BY <1>1 DEF decisionVars, seatVars
    <3>3. Keeps(o) /\ SeatFits(o)'
      BY <3>1, <3>2 DEF Keeps, SeatFits, Told, Live
    <3> QED BY <3>1, <3>2, <3>3 DEF RowsFit, LedgerFits
  <2>8. ASSUME NEW o \in Orders PROVE WithdrawalFits(o)'
    <3>1. CASE o = job[x]
      BY <1>0, <1>1, <2>2, <3>1 DEF WithdrawalFits
    <3>2. CASE o # job[x]
      <4>1. wd'[o] = wd[o] /\ WithdrawalFits(o) /\ UNCHANGED <<pstate, orphaned>>
        BY <1>0, <1>1, <1>4, <3>2 DEF PayInv, PayTypeOK
      <4>2. ASSUME wd[o] = "queued", o \notin orphaned, pstate[o] # "executed"
            PROVE  \E y \in Executors : job'[y] = o /\ at'[y] = "record" /\ out'[y] = "executed"
        <5>1. PICK y \in Executors : job[y] = o /\ at[y] = "record" /\ out[y] = "executed"
          BY <4>1, <4>2 DEF WithdrawalFits
        <5>2. y # x
          BY <1>1, <5>1
        <5> QED BY <1>0, <2>1, <5>1, <5>2, MovesAlone
      <4> QED BY <4>1, <4>2 DEF WithdrawalFits
    <3> QED BY <3>1, <3>2
  <2> QED BY <2>1, <2>3, <2>6, <2>7, <2>8, ExecutorMoves
<1> QED BY <1>1, <1>2, <1>3, <1>4 DEF CreateWithdrawal

-----------------------------------------------------------------------------
LEMMA StepPreserves ==
    ASSUME PayInv, PayNext
    PROVE  PayInv'
<1>1. ASSUME NEW o \in Orders, OrderStep(o) \/ ProposalStep(o) \/ PayRelayStep(o) \/ PayWorldStep(o)
      PROVE  PayInv'
  BY <1>1, OrderStepPreserves, ProposalStepPreserves, RelayStepPreserves, WorldStepPreserves
<1>2. ASSUME NEW x \in Executors, ExecuteStep(x)
      PROVE  PayInv'
  BY <1>2, SweepPreserves, OwnStepsPreserve, CreateWithdrawalPreserves, RecordVoidPreserves,
     RecordOverClosedPreserves, RecordExecutionPreserves DEF ExecuteStep
<1>3. ASSUME NEW x \in Executors, RoundStep(x)
      PROVE  PayInv'
  BY <1>3, RoundOwnPreserves, ConciergeApprovalPreserves, ReportPreserves DEF RoundStep
<1>4. ASSUME NEW c \in Claims, NEW n \in {-1, 1}, OtherFlow(c, n)
      PROVE  PayInv'
  BY <1>4, OtherFlowPreserves
<1> QED BY <1>1, <1>2, <1>3, <1>4 DEF PayNext

LEMMA StutterPreserves ==
    ASSUME PayInv, UNCHANGED payVars
    PROVE  PayInv'
<1>1. UNCHANGED <<pstate, row, wd, late, pins, answer, tries, burned, xfer, refused, step, free, opener,
                  appr, known, execBy, dead, reported, withdrawn, at, job, out, round, orphaned>>
  BY DEF payVars, decisionVars, ledgerVars, seatVars, execVars
<1>2. PayTypeOK' /\ \A o \in Orders : RowsFit(o)' /\ LedgerFits(o)' /\ WithdrawalFits(o)' /\ SeatFits(o)'
  BY <1>1 DEF PayInv, PayTypeOK, RowsFit, LedgerFits, WithdrawalFits, SeatFits, Live
<1>3. \A x \in Executors : ExecutorFits(x)'
  BY <1>1 DEF PayInv, ExecutorFits, Told, Live
<1> QED BY <1>2, <1>3 DEF PayInv

\* What the two parties of an order rely on follows from the invariant.
LEMMA InvMoney == PayInv => OrderMoneyIsRight
<1> SUFFICES ASSUME PayInv, NEW o \in Orders
             PROVE  /\ "settle" \in xfer[o] \/ "transfer" \in xfer[o] => pstate[o] = "executed"
                    /\ "void" \in xfer[o] => pstate[o] = "execution_failed"
                    /\ pstate[o] = "executed" /\ SettlesOnTheLedger(o) =>
                          "reserve" \in xfer[o] /\ row[o]["settled"] \in {"queued", "done"}
                    /\ Closed(o) /\ "reserve" \in xfer[o] /\ "void" \notin xfer[o] =>
                          row[o]["released"] = "queued"
  BY DEF OrderMoneyIsRight, MoneyFollowsOrder, HeldIsReleased
<1>1. RowsFit(o) /\ LedgerFits(o)
  BY DEF PayInv
<1>2. /\ row[o]["settled"] \in {"none", "queued", "parked", "done"}
      /\ row[o]["released"] \in {"none", "queued", "parked", "done"}
  BY DEF PayInv, PayTypeOK, PayEvents
<1> QED BY <1>1, <1>2 DEF RowsFit, LedgerFits, Closed, Past

LEMMA InvEnd == PayInv => EndIsKnown
<1> SUFFICES ASSUME PayInv PROVE EndIsKnown
  OBVIOUS
<1>1. ClosedOrderPaysNothing
  BY DEF ClosedOrderPaysNothing, PayInv, WithdrawalFits, Closed
<1>2. ConciergeKnowsTheTruth
  BY DEF ConciergeKnowsTheTruth, PayInv, SeatFits
<1> QED BY <1>1, <1>2 DEF EndIsKnown


\* An order executes in the hands of an executor that records it, under its consent or after
\* the money left.
LEMMA NotExecutedBy ==
    ASSUME PayTypeOK, NEW p \in Orders, NEW v, v # "executed",
           UNCHANGED pstate \/ pstate' = [pstate EXCEPT ![p] = v],
           NEW o \in Orders, pstate'[o] = "executed"
    PROVE  pstate[o] = "executed"
BY DEF PayTypeOK

LEMMA ConsentStep ==
    ASSUME PayInv, PayNext, NEW o \in Orders, pstate[o] # "executed", pstate'[o] = "executed"
    PROVE  ~SeatInvalidation(o) \/ wd[o] = "dispatched"
<1>0. PayTypeOK
  BY DEF PayInv
<1>1. ASSUME NEW p \in Orders, OrderStep(p)
      PROVE  UNCHANGED pstate \/ \E v \in {"pending", "approved", "rejected", "expired", "cancelled"} : pstate' = [pstate EXCEPT ![p] = v]
  BY <1>1 DEF OrderStep, OpenPayment, InsertOrder, CancelPayment, ExpirePayment, AnswerInvalid, SubmitWrong,
     SubmitConsent, AnswerSessionConsent, Decide, Approve, EnterVerdict
<1>2. ASSUME NEW p \in Orders, ProposalStep(p)
      PROVE  UNCHANGED pstate \/ pstate' = [pstate EXCEPT ![p] = "rejected"]
  BY <1>2 DEF ProposalStep, ProposeTaken, ProposeStored, ProposeRefused, OpenerDies, CloseUnproposed,
     SettleDecided, WithdrawDead, WindowEnds, OwnersDecide, RejectOn, EnterVerdict
<1>3. ASSUME NEW p \in Orders, PayRelayStep(p) \/ PayWorldStep(p)
      PROVE  UNCHANGED pstate
  BY <1>3 DEF PayRelayStep, RelayReserve, RelaySettle, RelayRelease, UnparkPayment,
     PayWorldStep, OrderLapses, DispatchPaid, CancelPaid, MovePins
<1>4. ASSUME NEW x \in Executors, RecordVoid(x)
      PROVE  wd[o] = "dispatched"
  <2>1. job[x] \in Orders
    BY <1>0 DEF PayTypeOK
  <2>2. CASE wd[job[x]] = "dispatched" /\ MarkExecuted(job[x])
    BY <1>0, <2>1, <2>2 DEF MarkExecuted, PayTypeOK
  <2>3. CASE MarkExecutionFailed(job[x])
    BY <1>0, <2>1, <2>3, NotExecutedBy DEF MarkExecutionFailed
  <2> QED BY <1>4, <2>2, <2>3 DEF RecordVoid
<1>5. ASSUME NEW x \in Executors, RecordExecution(x)
      PROVE  ~SeatInvalidation(o)
  <2>1. job[x] \in Orders
    BY <1>0 DEF PayTypeOK
  <2>2. CASE ~SeatInvalidation(job[x]) /\ MarkExecuted(job[x])
    BY <1>0, <2>1, <2>2 DEF MarkExecuted, PayTypeOK
  <2>3. CASE MarkExecutionFailed(job[x])
    BY <1>0, <2>1, <2>3, NotExecutedBy DEF MarkExecutionFailed
  <2> QED BY <1>5, <2>2, <2>3 DEF RecordExecution
<1>6. ASSUME NEW x \in Executors, RecordConciergeApproval(x)
      PROVE  FALSE
  <2>1. job[x] \in Orders
    BY <1>0 DEF PayTypeOK
  <2>2. UNCHANGED pstate \/ pstate' = [pstate EXCEPT ![job[x]] = "approved"]
    BY <1>6 DEF RecordConciergeApproval, Approve
  <2> QED BY <1>0, <2>1, <2>2, NotExecutedBy
<1>7. ASSUME NEW x \in Executors,
             \/ ExecuteStep(x) /\ ~RecordVoid(x) /\ ~RecordExecution(x)
             \/ RoundStep(x) /\ ~RecordConciergeApproval(x)
      PROVE  UNCHANGED pstate
  BY <1>7 DEF ExecuteStep, SweepPayment, SettleOnTheLedger, CreateWithdrawal, WithdrawalHeld, RefindWithdrawal,
     RecordOverClosed, ExecutorDies, RoundStep, PullApproved, ReportEnded, CarryOut, Reread, RoundExecutes,
     Report, ReportLater, Reported
<1>8. ASSUME NEW p \in Orders, OrderStep(p) \/ ProposalStep(p) \/ PayRelayStep(p) \/ PayWorldStep(p)
      PROVE  FALSE
  <2>1. CASE OrderStep(p)
    BY <1>0, <1>1, <2>1, NotExecutedBy
  <2>2. CASE ProposalStep(p)
    BY <1>0, <1>2, <2>2, NotExecutedBy
  <2> QED BY <1>3, <1>8, <2>1, <2>2
<1>9. ASSUME NEW c \in Claims, NEW n \in {-1, 1}, OtherFlow(c, n)
      PROVE  FALSE
  BY <1>9 DEF OtherFlow
<1> QED BY <1>4, <1>5, <1>6, <1>7, <1>8, <1>9 DEF PayNext

-----------------------------------------------------------------------------
\* The inductive invariant, in every behaviour and under every fault of the model.
THEOREM PayInvariant == PaySpec => []PayInv
<1>1. PayInv /\ [PayNext]_payVars => PayInv'
  BY StepPreserves, StutterPreserves
<1> QED BY <1>1, InvInit, PTL DEF PaySpec

\* The types of the order, its seat, its rows and transfers and the executors' registers; with
\* it, that no claim is ever overspent (free stays a natural number).
THEOREM PayTypes == PaySpec => []PayTypeOK
<1>1. PayInv => PayTypeOK
  BY DEF PayInv
<1> QED BY <1>1, PayInvariant, PTL

\* The ledger follows the order and what a failed order holds is on its way back, however
\* sweeper, inline callers and rounds interleave with the relay, and whoever dies.
THEOREM OrderMoney == PaySpec => []OrderMoneyIsRight
BY InvMoney, PayInvariant, PTL

\* A closed order pays nothing out, and what concierge was told is what became of the order.
THEOREM EndKnown == PaySpec => []EndIsKnown
BY InvEnd, PayInvariant, PTL

\* An investor's order executes only while its consent stands or after the money left.
THEOREM ConsentStands == PaySpec => ConsentStandsAtExecution
<1>1. PayInv /\ [PayNext]_payVars =>
        [\A o \in Orders :
           pstate[o] # "executed" /\ pstate'[o] = "executed" =>
               ~SeatInvalidation(o) \/ wd[o] = "dispatched"]_payVars
  BY ConsentStep
<1> QED BY <1>1, PayInvariant, PTL DEF PaySpec, ConsentStandsAtExecution

-----------------------------------------------------------------------------
(***************************************************************************)
(* The consilium over the orders it decides.                               *)
(***************************************************************************)

Carried == {"approved", "executed", "execution_failed"}
Refused == {"rejected", "expired", "cancelled", "execution_failed"}

Approvers(c) == {u \in roster[c] \ {Initiator[c]} : ballot[c][u] = "approve"}
HasQuorum(c) == Cardinality(Approvers(c)) * 2 > Cardinality(roster[c])

\* The seats: who voted was asked, and may not answer again.
BallotFits(c) ==
    \A u \in Users :
        /\ ballot[c][u] # "pending" => u \in Eligible(c) /\ cstate[c] # "none"
        /\ codeTries[c][u] >= CodeAttempts => u \in burnt[c] \/ ballot[c][u] # "pending"

\* The request and what it brought about.
OutcomeFits(c) ==
    /\ cstate[c] \in Carried => HasQuorum(c)
    /\ Done(c) => cstate[c] \in Carried
    /\ c \in settled => c \in moved /\ ~Done(c)
    /\ IsPayment(c) /\ cstate[c] \in Refused => pstate[OrderOf[c]] \notin {"none", "pending"}

\* The locks are taken mail before seats, by a transaction that has its verdict; a request
\* closed by its window or its initiator has no invitation left to send.
LocksFit(c) ==
    /\ seatLock[c] = "closer" => mailLock[c] = "closer"
    /\ mailLock[c] = "closer" => closing[c] # "none"
    /\ cstate[c] \in {"expired", "cancelled"} => \A u \in Users : invite[c][u] # "queued"

\* A runner past its checks holds an approval that stood.
RunnerFits(x) == cat[x] = "effect" => cstate[cjob[x]] \in Carried /\ cjob[x] \notin settled

ConInv ==
    /\ ConsiliumTypeOK
    /\ \A c \in Consilia : BallotFits(c) /\ OutcomeFits(c) /\ LocksFit(c)
    /\ \A x \in Runners : RunnerFits(x)


-----------------------------------------------------------------------------
(***************************************************************************)
(* The life of an order in module Payments, and what it leaves a quorum.   *)
(***************************************************************************)
Verdicts == {"rejected", "expired", "cancelled"}

OrderLife(o) ==
    \/ pstate'[o] = pstate[o]
    \/ pstate[o] = "none" /\ pstate'[o] = "pending" /\ Seat[o] # "consilium"
    \/ pstate[o] = "pending" /\ pstate'[o] = "approved" /\ Seat[o] # "consilium"
    \/ pstate[o] = "pending" /\ pstate'[o] \in Verdicts
    \/ pstate[o] = "approved" /\ pstate'[o] \in {"executed", "execution_failed"}

LEMMA OneOrderLives ==
    ASSUME PayTypeOK, NEW p \in Orders, NEW o \in Orders,
           \/ UNCHANGED pstate
           \/ pstate[p] = "none" /\ pstate' = [pstate EXCEPT ![p] = "pending"] /\ Seat[p] # "consilium"
           \/ Approve(p) /\ Seat[p] # "consilium"
           \/ \E verdict \in Verdicts : EnterVerdict(p, verdict)
           \/ MarkExecuted(p) \/ MarkExecutionFailed(p)
    PROVE  OrderLife(o)
BY DEF PayTypeOK, OrderLife, Approve, EnterVerdict, MarkExecuted, MarkExecutionFailed, Verdicts

LEMMA PaymentLives ==
    ASSUME PayInv, PayNext, NEW o \in Orders
    PROVE  OrderLife(o)
<1>0. PayTypeOK
  BY DEF PayInv
<1>1. ASSUME NEW p \in Orders, OrderStep(p)
      PROVE  OrderLife(o)
  <2>1. CASE OpenPayment(p)
    BY <1>0, <2>1, OneOrderLives DEF OpenPayment, InsertOrder
  <2>2. CASE CancelPayment(p) \/ ExpirePayment(p) \/ AnswerInvalid(p)
    BY <1>0, <2>2, OneOrderLives DEF CancelPayment, ExpirePayment, AnswerInvalid, Verdicts
  <2>3. CASE SubmitWrong(p)
    BY <1>0, <2>3, OneOrderLives DEF SubmitWrong, Verdicts
  <2>4. ASSUME NEW d \in {"approve", "reject"}, SubmitConsent(p, d) \/ AnswerSessionConsent(p, d)
        PROVE  OrderLife(o)
    BY <1>0, <2>4, OneOrderLives DEF SubmitConsent, AnswerSessionConsent, Decide, Verdicts
  <2> QED BY <1>1, <2>1, <2>2, <2>3, <2>4 DEF OrderStep
<1>2. ASSUME NEW p \in Orders, ProposalStep(p)
      PROVE  OrderLife(o)
  <2>1. UNCHANGED pstate \/ RejectOn(p)
    BY <1>2 DEF ProposalStep, ProposeTaken, ProposeStored, ProposeRefused, OpenerDies, CloseUnproposed,
       SettleDecided, WithdrawDead, WindowEnds, OwnersDecide
  <2> QED BY <1>0, <2>1, OneOrderLives DEF RejectOn, Verdicts
<1>3. ASSUME NEW p \in Orders, PayRelayStep(p) \/ PayWorldStep(p)
      PROVE  OrderLife(o)
  <2>1. UNCHANGED pstate
    BY <1>3 DEF PayRelayStep, RelayReserve, RelaySettle, RelayRelease, UnparkPayment,
       PayWorldStep, OrderLapses, DispatchPaid, CancelPaid, MovePins
  <2> QED BY <2>1 DEF OrderLife
<1>4. ASSUME NEW x \in Executors, ExecuteStep(x) \/ RoundStep(x)
      PROVE  OrderLife(o)
  <2>0. job[x] \in Orders /\ ExecutorFits(x)
    BY DEF PayInv, PayTypeOK
  <2>1. CASE RecordVoid(x)
    BY <1>0, <2>0, <2>1, OneOrderLives DEF RecordVoid
  <2>2. CASE RecordExecution(x)
    BY <1>0, <2>0, <2>2, OneOrderLives DEF RecordExecution
  <2>3. CASE RecordConciergeApproval(x)
    <3>1. Seat[job[x]] # "consilium"
      BY <2>0, <2>3 DEF RecordConciergeApproval, ExecutorFits, PayInv, SeatFits
    <3> QED BY <1>0, <2>0, <2>3, <3>1, OneOrderLives DEF RecordConciergeApproval
  <2>4. CASE ~RecordVoid(x) /\ ~RecordExecution(x) /\ ~RecordConciergeApproval(x)
    <3>1. UNCHANGED pstate
      BY <1>4, <2>4 DEF ExecuteStep, SweepPayment, SettleOnTheLedger, CreateWithdrawal, WithdrawalHeld,
         RefindWithdrawal, RecordOverClosed, ExecutorDies, RoundStep, PullApproved, ReportEnded, CarryOut,
         Reread, RoundExecutes, Report, ReportLater, Reported
    <3> QED BY <3>1 DEF OrderLife
  <2> QED BY <2>1, <2>2, <2>3, <2>4
<1>5. ASSUME NEW c \in Claims, NEW n \in {-1, 1}, OtherFlow(c, n)
      PROVE  OrderLife(o)
  BY <1>5 DEF OtherFlow, OrderLife
<1> QED BY <1>1, <1>2, <1>3, <1>4, <1>5 DEF PayNext

-----------------------------------------------------------------------------
(***************************************************************************)
(* Votes are counted over subsets of a finite set of users.                *)
(***************************************************************************)
LEMMA FewerOf ==
    ASSUME ConsiliumTypeOK, NEW A, NEW B \in SUBSET Users, A \subseteq B
    PROVE  Cardinality(A) \in Nat /\ Cardinality(B) \in Nat /\ Cardinality(A) <= Cardinality(B)
BY ConsiliumAssumption, FS_Subset, FS_CardinalityType

LEMMA QuorumIsMajority ==
    ASSUME NEW n \in Nat
    PROVE  Threshold(n) \in Nat /\ Threshold(n) * 2 > n
BY DEF Threshold

\* A vote that approves the request has its majority: only members other than the initiator vote.
LEMMA TallyHasQuorum ==
    ASSUME ConsiliumTypeOK, NEW c \in Consilia, BallotFits(c), NEW v \in Eligible(c), NEW d \in VoteDecisions,
           NEW votes, votes = [ballot[c] EXCEPT ![v] = d], Tally(c, votes, v) = "approved"
    PROVE  Cardinality({w \in Eligible(c) : votes[w] = "approve"}) * 2 > Cardinality(roster[c])
<1> DEFINE A == {w \in Users : votes[w] = "approve" /\ (w \in owners \/ w = v)}
           B == {w \in Eligible(c) : votes[w] = "approve"}
<1>1. Cardinality(A) >= Quorum(c)
  BY DEF Tally, Counted
<1>2. roster[c] \in SUBSET Users /\ B \in SUBSET Users
  BY DEF ConsiliumTypeOK, Eligible
<1>3. A \subseteq B
  <2>1. ASSUME NEW w \in Users, votes[w] = "approve" PROVE w \in Eligible(c)
    <3>1. CASE w = v
      BY <3>1
    <3>2. CASE w # v
      BY <2>1, <3>2 DEF BallotFits, ConsiliumTypeOK
    <3> QED BY <3>1, <3>2
  <2> QED BY <2>1
<1>4. Cardinality(A) \in Nat /\ Cardinality(B) \in Nat /\ Cardinality(A) <= Cardinality(B)
  BY <1>2, <1>3, FewerOf
<1>5. Cardinality(roster[c]) \in Nat
  BY <1>2, FewerOf
<1>6. Quorum(c) \in Nat /\ Quorum(c) * 2 > Cardinality(roster[c])
  BY <1>5, QuorumIsMajority DEF Quorum
<1> HIDE DEF A, B
<1>7. Cardinality(B) * 2 > Cardinality(roster[c])
  BY <1>1, <1>4, <1>5, <1>6
<1> QED BY <1>7 DEF B


-----------------------------------------------------------------------------
(***************************************************************************)
(* Frames: a request no step touches stays as it is, and so does a runner. *)
(***************************************************************************)
OrderKept(d) ==
    IsPayment(d) =>
        /\ pstate'[OrderOf[d]] \in Past => pstate[OrderOf[d]] \in Past
        /\ pstate[OrderOf[d]] \notin {"none", "pending"} => pstate'[OrderOf[d]] \notin {"none", "pending"}

SameVotes(d) ==
    /\ roster'[d] = roster[d] /\ ballot'[d] = ballot[d]
    /\ codeTries'[d] = codeTries[d] /\ burnt'[d] = burnt[d]
SameLocks(d) ==
    /\ invite'[d] = invite[d] /\ mailLock'[d] = mailLock[d]
    /\ seatLock'[d] = seatLock[d] /\ closing'[d] = closing[d]
SameOutcome(d) ==
    /\ cstate'[d] = cstate[d]
    /\ d \in effected' => d \in effected
    /\ d \in settled' => d \in settled
    /\ d \in moved => d \in moved'
Untouched(d) == SameVotes(d) /\ SameLocks(d) /\ SameOutcome(d) /\ OrderKept(d)

LEMMA BallotRests ==
    ASSUME NEW d \in Consilia, BallotFits(d), SameVotes(d), cstate[d] # "none" => cstate'[d] # "none"
    PROVE  BallotFits(d)'
BY DEF BallotFits, SameVotes, Eligible

LEMMA OutcomeRests ==
    ASSUME NEW d \in Consilia, OutcomeFits(d), SameOutcome(d), roster'[d] = roster[d], ballot'[d] = ballot[d], OrderKept(d)
    PROVE  OutcomeFits(d)'
<1>1. HasQuorum(d)' <=> HasQuorum(d)
  BY DEF HasQuorum, Approvers
<1>2. Done(d)' => Done(d)
  BY DEF Done, OrderKept, SameOutcome, Past, IsPayment
<1> QED BY <1>1, <1>2 DEF OutcomeFits, SameOutcome, OrderKept, IsPayment

LEMMA LocksRest ==
    ASSUME NEW d \in Consilia, LocksFit(d), SameLocks(d), cstate'[d] = cstate[d]
    PROVE  LocksFit(d)'
BY DEF LocksFit, SameLocks

LEMMA UntouchedFits ==
    ASSUME ConInv, NEW d \in Consilia, Untouched(d)
    PROVE  BallotFits(d)' /\ OutcomeFits(d)' /\ LocksFit(d)'
<1>1. BallotFits(d)'
  BY BallotRests DEF ConInv, Untouched, SameOutcome
<1>2. OutcomeFits(d)'
  BY OutcomeRests DEF ConInv, Untouched, SameVotes
<1>3. LocksFit(d)'
  BY LocksRest DEF ConInv, Untouched, SameOutcome
<1> QED BY <1>1, <1>2, <1>3

LEMMA RunnersRest ==
    ASSUME ConInv, UNCHANGED <<cat, cjob>>,
           \A d \in Consilia : cstate[d] \in Carried => cstate'[d] \in Carried,
           \A x \in Runners : cat[x] = "effect" /\ cjob[x] \in settled' => cjob[x] \in settled
    PROVE  \A x \in Runners : RunnerFits(x)'
BY DEF ConInv, ConsiliumTypeOK, RunnerFits

\* One request moves; the others and the runners rest.
LEMMA OneRequestMoves ==
    ASSUME ConInv, ConsiliumTypeOK', NEW c \in Consilia,
           \A d \in Consilia : d # c => Untouched(d),
           BallotFits(c)' /\ OutcomeFits(c)' /\ LocksFit(c)',
           UNCHANGED <<cat, cjob>>, settled' \subseteq settled,
           cstate[c] \in Carried => cstate'[c] \in Carried
    PROVE  ConInv'
<1>1. \A x \in Runners : RunnerFits(x)'
  BY RunnersRest DEF Untouched, SameOutcome
<1> QED BY <1>1, UntouchedFits DEF ConInv

LEMMA OrdersKept ==
    ASSUME UNCHANGED pstate
    PROVE  \A d \in Consilia : OrderKept(d)
BY DEF OrderKept

LEMMA RejectKeeps ==
    ASSUME PayTypeOK, NEW o \in Orders, RejectOn(o)
    PROVE  pstate[o] # "none" => pstate'[o] \notin {"none", "pending"}
BY DEF PayTypeOK, RejectOn, EnterVerdict

LEMMA SubjectCloses ==
    ASSUME PayTypeOK, NEW c \in Consilia, CloseDecidedSubject(c), closedSubj \subseteq Consilia
    PROVE  /\ UNCHANGED <<pstate, row>> \/ RejectOn(OrderOf[c])
           /\ IsPayment(c) => pstate'[OrderOf[c]] \notin {"none", "pending"}
           /\ closedSubj' \subseteq Consilia
           /\ \A d \in Consilia : OrderKept(d)
<1>0. \A d \in Consilia : OrderOf[d] \in Orders
  BY ConsiliumAssumption
<1>1. CASE Kind[c] = "payment"
  <2>1. pstate[OrderOf[c]] # "none" /\ RejectOn(OrderOf[c]) /\ UNCHANGED closedSubj
    BY <1>1 DEF CloseDecidedSubject
  <2>2. \A d \in Consilia : OrderKept(d)
    BY <1>0, <2>1 DEF PayTypeOK, OrderKept, RejectOn, EnterVerdict, Past
  <2> QED BY <1>0, <2>1, <2>2, RejectKeeps
<1>2. CASE Kind[c] # "payment"
  <2>1. UNCHANGED <<pstate, row>> /\ closedSubj' \subseteq Consilia
    BY <1>2 DEF CloseDecidedSubject
  <2> QED BY <1>2, <2>1, OrdersKept DEF IsPayment
<1> QED BY <1>1, <1>2

\* What a consilium step does to the orders keeps the orders' own invariant.
LEMMA SubjectPreserves ==
    ASSUME PayInv, NEW c \in Consilia, UNCHANGED <<pstate, row>> \/ RejectOn(OrderOf[c]), PayRest
    PROVE  PayInv'
<1>1. CASE UNCHANGED <<pstate, row>>
  BY <1>1, StutterPreserves DEF PayRest, payVars
<1>2. CASE RejectOn(OrderOf[c])
  BY <1>2, ConsiliumAssumption, ClosePreserves DEF PayRest, seatVars
<1> QED BY <1>1, <1>2


-----------------------------------------------------------------------------
(***************************************************************************)
(* Opening a request, and a payment with its quorum.                       *)
(***************************************************************************)
LEMMA OpenOnPreserves ==
    ASSUME ConInv, PayTypeOK, NEW c \in Consilia, OpenOn(c), UNCHANGED pstate,
           opening' \in [Consilia -> {"none", "quorum", "order", "undo", "done"}]
    PROVE  ConInv'
<1>0. ConsiliumTypeOK
  BY DEF ConInv
<1>1. /\ cstate[c] = "none"
      /\ cstate' = [cstate EXCEPT ![c] = "open"] /\ roster' = [roster EXCEPT ![c] = owners]
      /\ UNCHANGED <<rosterVars, windowVars, effected, closedSubj, voteVars, mailLock, seatLock, closing, runVars>>
  BY DEF OpenOn, MayOpen
<1>2. invite' \in [Consilia -> [Users -> {"none", "queued", "sent", "given_up", "withdrawn"}]]
  <2>1. PICK i \in [Users -> {"none", "queued"}] : invite' = [invite EXCEPT ![c] = i]
    BY DEF OpenOn
  <2> QED BY <1>0, <2>1 DEF ConsiliumTypeOK
<1>3. ConsiliumTypeOK'
  <2>1. cstate' \in [Consilia -> ConsiliumStates \union {"none"}]
    BY <1>0, <1>1 DEF ConsiliumTypeOK, ConsiliumStates
  <2>2. roster' \in [Consilia -> SUBSET Users]
    BY <1>0, <1>1 DEF ConsiliumTypeOK
  <2> QED BY <1>0, <1>1, <1>2, <2>1, <2>2 DEF ConsiliumTypeOK, rosterVars, windowVars, voteVars, runVars
<1>4. ASSUME NEW d \in Consilia, d # c PROVE Untouched(d)
  BY <1>0, <1>1, <1>4, OrdersKept DEF OpenOn, ConsiliumTypeOK, Untouched, SameVotes, SameLocks, SameOutcome,
     rosterVars, voteVars
<1>5. cstate'[c] = "open"
  BY <1>0, <1>1 DEF ConsiliumTypeOK
<1>6. BallotFits(c)'
  BY <1>1, <1>5 DEF ConInv, BallotFits, voteVars
<1>7. OutcomeFits(c)'
  <2>1. OutcomeFits(c) /\ ~Done(c)
    BY <1>1 DEF ConInv, OutcomeFits, Carried
  <2>2. ~Done(c)'
    BY <1>1, <2>1 DEF Done, IsPayment
  <2> QED BY <1>1, <1>5, <2>1, <2>2 DEF OutcomeFits, Carried, Refused, rosterVars
<1>8. LocksFit(c)'
  BY <1>1, <1>5 DEF ConInv, LocksFit
<1> QED BY <1>1, <1>3, <1>4, <1>6, <1>7, <1>8, OneRequestMoves DEF rosterVars, runVars, Carried

\* Where the open call of a payment stands is its own affair.
LEMMA OpeningPreserves ==
    ASSUME ConInv, UNCHANGED <<rosterVars, windowVars, cstate, roster, effected, closedSubj, voteVars, mailVars, runVars>>,
           opening' \in [Consilia -> {"none", "quorum", "order", "undo", "done"}],
           \A d \in Consilia : OrderKept(d)
    PROVE  ConInv'
<1>1. UNCHANGED <<owners, cooling, moved, settled, ballot, codeTries, burnt, invite, mailLock, seatLock, closing,
                  lapsed, graceOver, cat, cjob, cout>>
  BY DEF rosterVars, windowVars, voteVars, mailVars, runVars
<1>2. ConsiliumTypeOK'
  BY <1>1 DEF ConInv, ConsiliumTypeOK
<1>3. \A d \in Consilia : Untouched(d)
  BY <1>1 DEF Untouched, SameVotes, SameLocks, SameOutcome
<1>4. \A x \in Runners : RunnerFits(x)'
  BY <1>1 DEF ConInv, RunnerFits
<1> QED BY <1>2, <1>3, <1>4, UntouchedFits DEF ConInv

LEMMA OpeningTypes ==
    ASSUME ConsiliumTypeOK, NEW c \in Consilia, NEW v \in {"none", "quorum", "order", "undo", "done"},
           opening' = [opening EXCEPT ![c] = v]
    PROVE  opening' \in [Consilia -> {"none", "quorum", "order", "undo", "done"}]
BY DEF ConsiliumTypeOK

LEMMA InsertKeeps ==
    ASSUME PayTypeOK, NEW o \in Orders, InsertOrder(o)
    PROVE  \A d \in Consilia : OrderKept(d)
BY ConsiliumAssumption DEF PayTypeOK, InsertOrder, OrderKept, Past

LEMMA OpenStepsPreserve ==
    ASSUME PayInv, ConInv, NEW c \in Consilia,
           OpenRequest(c) \/ OpenPaymentAsked(c) \/ OpenQuorum(c) \/ OpenOrder(c) \/ OpenOrderFails(c)
    PROVE  PayInv' /\ ConInv'
<1>0. PayTypeOK /\ ConsiliumTypeOK /\ OrderOf[c] \in Orders
  BY ConsiliumAssumption DEF PayInv, ConInv
<1>1. CASE OpenRequest(c)
  <2>1. PayInv' /\ UNCHANGED <<pstate, opening>>
    BY <1>1, StutterPreserves DEF OpenRequest, payVars
  <2> QED BY <1>0, <1>1, <2>1, OpenOnPreserves DEF OpenRequest, ConsiliumTypeOK
<1>2. CASE OpenPaymentAsked(c)
  <2>1. PayInv' /\ UNCHANGED pstate
    BY <1>2, StutterPreserves DEF OpenPaymentAsked, payVars
  <2> QED BY <1>0, <1>2, <2>1, OpeningTypes, OpeningPreserves, OrdersKept DEF OpenPaymentAsked
<1>3. CASE OpenQuorum(c)
  <2>1. PayInv' /\ UNCHANGED pstate
    BY <1>3, StutterPreserves DEF OpenQuorum, payVars
  <2>2. opening' \in [Consilia -> {"none", "quorum", "order", "undo", "done"}]
    BY <1>0, <1>3, OpeningTypes DEF OpenQuorum
  <2>3. CASE OpenOn(c)
    BY <1>0, <2>1, <2>2, <2>3, OpenOnPreserves
  <2>4. CASE UNCHANGED <<rosterVars, windowVars, cstate, roster, effected, closedSubj, voteVars, mailVars, runVars>>
    BY <2>1, <2>2, <2>4, OpeningPreserves, OrdersKept
  <2> QED BY <1>3, <2>1, <2>3, <2>4 DEF OpenQuorum
<1>4. CASE OpenOrder(c)
  <2>1. PayInv'
    BY <1>0, <1>4, InsertPreserves DEF OpenOrder
  <2>2. \A d \in Consilia : OrderKept(d)
    BY <1>0, <1>4, InsertKeeps DEF OpenOrder
  <2> QED BY <1>0, <1>4, <2>1, <2>2, OpeningTypes, OpeningPreserves DEF OpenOrder
<1>5. CASE OpenOrderFails(c)
  <2>1. opening' \in [Consilia -> {"none", "quorum", "order", "undo", "done"}]
    BY <1>0, <1>5, OpeningTypes DEF OpenOrderFails
  <2>2. UNCHANGED <<rosterVars, windowVars, cstate, roster, effected, closedSubj, voteVars, mailVars, runVars>>
    BY <1>5 DEF OpenOrderFails
  <2>3. CASE UNCHANGED payVars
    <3>1. PayInv' /\ UNCHANGED pstate
      BY <2>3, StutterPreserves DEF payVars
    <3> QED BY <2>1, <2>2, <3>1, OrdersKept, OpeningPreserves
  <2>4. CASE /\ InsertOrder(OrderOf[c])
             /\ UNCHANGED <<row, wd, decisionVars, ledgerVars, appr, known, execBy, dead, reported, withdrawn, execVars>>
    <3>1. PayInv'
      BY <1>0, <2>4, InsertPreserves
    <3>2. \A d \in Consilia : OrderKept(d)
      BY <1>0, <2>4, InsertKeeps
    <3> QED BY <2>1, <2>2, <3>1, <3>2, OpeningPreserves
  <2> QED BY <1>5, <2>3, <2>4 DEF OpenOrderFails
<1> QED BY <1>1, <1>2, <1>3, <1>4, <1>5


-----------------------------------------------------------------------------
(***************************************************************************)
(* Voting.                                                                 *)
(***************************************************************************)
LEMMA WrongCodePreserves ==
    ASSUME PayInv, ConInv, NEW c \in Consilia, NEW u \in Users, SubmitWrongCode(c, u)
    PROVE  PayInv' /\ ConInv'
<1>0. ConsiliumTypeOK /\ CodeAttempts \in Nat \ {0} /\ BallotFits(c) /\ ballot[c][u] = "pending" /\ u \notin burnt[c]
  BY ConsiliumAssumption DEF ConInv, SubmitWrongCode, SeatLive
<1>1. /\ PayInv' /\ UNCHANGED pstate
      /\ UNCHANGED <<rosterVars, windowVars, subjectVars, cstate, roster, ballot, mailVars, runVars>>
  BY StutterPreserves DEF SubmitWrongCode, payVars
<1>2. codeTries[c][u] \in 0..CodeAttempts - 1
  BY <1>0 DEF BallotFits, ConsiliumTypeOK
<1>3. codeTries' = [codeTries EXCEPT ![c][u] = @ + 1]
  BY DEF SubmitWrongCode
<1>4. codeTries' \in [Consilia -> [Users -> 0..CodeAttempts]]
  BY <1>0, <1>2, <1>3 DEF ConsiliumTypeOK
<1>5. /\ codeTries'[c][u] = codeTries[c][u] + 1
      /\ \A v \in Users : v # u => codeTries'[c][v] = codeTries[c][v]
      /\ \A d \in Consilia : d # c => codeTries'[d] = codeTries[d]
  BY <1>0, <1>3 DEF ConsiliumTypeOK
<1>6. /\ burnt' \in [Consilia -> SUBSET Users]
      /\ \A d \in Consilia : burnt[d] \subseteq burnt'[d] /\ (d # c => burnt'[d] = burnt[d])
      /\ codeTries'[c][u] >= CodeAttempts => u \in burnt'[c]
  <2>1. burnt' = burnt \/ burnt' = [burnt EXCEPT ![c] = @ \union {u}]
    BY DEF SubmitWrongCode
  <2>2. codeTries'[c][u] >= CodeAttempts => burnt' = [burnt EXCEPT ![c] = @ \union {u}]
    BY DEF SubmitWrongCode
  <2>3. burnt \in [Consilia -> SUBSET Users]
    BY <1>0 DEF ConsiliumTypeOK
  <2>4. CASE burnt' = burnt
    <3>1. codeTries'[c][u] >= CodeAttempts => u \in burnt'[c]
      BY <2>2, <2>3
    <3> QED BY <2>3, <2>4, <3>1
  <2>5. CASE burnt' = [burnt EXCEPT ![c] = @ \union {u}]
    BY <2>3, <2>5
  <2> QED BY <2>1, <2>4, <2>5
<1>7. ConsiliumTypeOK'
  BY <1>0, <1>1, <1>4, <1>6 DEF ConsiliumTypeOK, rosterVars, windowVars, subjectVars, mailVars, runVars
<1>8. ASSUME NEW d \in Consilia, d # c PROVE Untouched(d)
  BY <1>1, <1>5, <1>6, <1>8, OrdersKept DEF Untouched, SameVotes, SameLocks, SameOutcome, rosterVars, subjectVars, mailVars
<1>9. BallotFits(c)'
  <2>1. ASSUME NEW v \in Users, codeTries'[c][v] >= CodeAttempts PROVE v \in burnt'[c] \/ ballot'[c][v] # "pending"
    BY <1>0, <1>1, <1>5, <1>6, <2>1 DEF BallotFits
  <2> QED BY <1>0, <1>1, <2>1 DEF BallotFits, Eligible
<1>10. OutcomeFits(c)' /\ LocksFit(c)'
  <2>1. SameLocks(c) /\ SameOutcome(c) /\ roster'[c] = roster[c] /\ ballot'[c] = ballot[c] /\ OrderKept(c)
    BY <1>1, OrdersKept DEF SameLocks, SameOutcome, rosterVars, subjectVars, mailVars
  <2> QED BY <2>1, OutcomeRests, LocksRest DEF ConInv, SameOutcome
<1> QED BY <1>1, <1>7, <1>8, <1>9, <1>10, OneRequestMoves DEF rosterVars, runVars

LEMMA VotePreserves ==
    ASSUME PayInv, ConInv, NEW c \in Consilia, NEW u \in Users, NEW dec \in {"approve", "reject"},
           SubmitVote(c, u, dec)
    PROVE  PayInv' /\ ConInv'
<1> DEFINE votes == [ballot[c] EXCEPT ![u] = dec]
<1>0. /\ PayTypeOK /\ ConsiliumTypeOK /\ CodeAttempts \in Nat \ {0} /\ BallotFits(c) /\ OutcomeFits(c) /\ LocksFit(c)
      /\ cstate[c] = "open" /\ u \in Eligible(c)
  BY ConsiliumAssumption DEF PayInv, ConInv, SubmitVote, SeatLive
<1>1. /\ ballot' = [ballot EXCEPT ![c] = votes]
      /\ codeTries' = [codeTries EXCEPT ![c][u] = IF @ < CodeAttempts THEN @ + 1 ELSE @]
      /\ cstate' = [cstate EXCEPT ![c] = Tally(c, votes, u)]
      /\ PayRest
      /\ UNCHANGED <<rosterVars, windowVars, roster, opening, effected, burnt, mailVars, runVars>>
  BY DEF SubmitVote
<1>2. cstate'[c] = Tally(c, votes, u) /\ Tally(c, votes, u) \in {"approved", "rejected", "open"}
  BY <1>0, <1>1 DEF ConsiliumTypeOK, Tally
<1>3. votes \in [Users -> VoteDecisions] /\ ballot'[c] = votes
  BY <1>0, <1>1 DEF ConsiliumTypeOK, VoteDecisions
<1>4. /\ UNCHANGED <<pstate, row>> \/ RejectOn(OrderOf[c])
      /\ closedSubj' \subseteq Consilia
      /\ \A d \in Consilia : OrderKept(d)
      /\ cstate'[c] = "rejected" /\ IsPayment(c) => pstate'[OrderOf[c]] \notin {"none", "pending"}
  <2>1. closedSubj \subseteq Consilia
    BY <1>0 DEF ConsiliumTypeOK
  <2>2. CASE cstate'[c] = "rejected"
    BY <1>0, <2>1, <2>2, SubjectCloses DEF SubmitVote
  <2>3. CASE cstate'[c] # "rejected"
    BY <2>1, <2>3, OrdersKept DEF SubmitVote
  <2> QED BY <2>2, <2>3
<1>5. PayInv'
  BY <1>1, <1>4, SubjectPreserves
<1>6. codeTries' \in [Consilia -> [Users -> 0..CodeAttempts]]
  BY <1>0, <1>1 DEF ConsiliumTypeOK
<1>7. ConsiliumTypeOK'
  <2>1. cstate' \in [Consilia -> ConsiliumStates \union {"none"}]
    BY <1>0, <1>1, <1>2 DEF ConsiliumTypeOK, ConsiliumStates
  <2>2. ballot' \in [Consilia -> [Users -> VoteDecisions]]
    BY <1>0, <1>1, <1>3 DEF ConsiliumTypeOK
  <2> HIDE DEF votes
  <2> QED BY <1>0, <1>1, <1>4, <1>6, <2>1, <2>2 DEF ConsiliumTypeOK, rosterVars, windowVars, mailVars, runVars
<1>8. ASSUME NEW d \in Consilia, d # c PROVE Untouched(d)
  <2>1. cstate'[d] = cstate[d] /\ ballot'[d] = ballot[d] /\ codeTries'[d] = codeTries[d]
    BY <1>0, <1>1, <1>8 DEF ConsiliumTypeOK
  <2> QED BY <1>1, <1>4, <2>1 DEF Untouched, SameVotes, SameLocks, SameOutcome, rosterVars, mailVars
<1>9. BallotFits(c)'
  <2>1. ASSUME NEW v \in Users
        PROVE  /\ ballot'[c][v] # "pending" => v \in Eligible(c)
               /\ codeTries'[c][v] >= CodeAttempts => v \in burnt[c] \/ ballot'[c][v] # "pending"
    <3>1. CASE v = u
      BY <1>0, <1>3, <3>1 DEF ConsiliumTypeOK
    <3>2. CASE v # u
      <4>1. ballot'[c][v] = ballot[c][v] /\ codeTries'[c][v] = codeTries[c][v]
        BY <1>0, <1>1, <1>3, <3>2 DEF ConsiliumTypeOK
      <4> QED BY <1>0, <4>1 DEF BallotFits
    <3> QED BY <3>1, <3>2
  <2> QED BY <1>1, <1>2, <2>1 DEF BallotFits, Eligible
<1>10. OutcomeFits(c)'
  <2>1. ~Done(c) /\ ~Done(c)'
    BY <1>0, <1>1, <1>4 DEF OutcomeFits, Carried, Done, OrderKept, Past, IsPayment
  <2>2. cstate'[c] = "approved" => HasQuorum(c)'
    <3>1. ASSUME cstate'[c] = "approved"
          PROVE  Cardinality({w \in Eligible(c) : votes[w] = "approve"}) * 2 > Cardinality(roster[c])
      BY <1>0, <1>2, <3>1, TallyHasQuorum DEF VoteDecisions
    <3>2. ballot'[c] = votes /\ roster' = roster
      BY <1>1, <1>3
    <3> HIDE DEF votes
    <3> QED BY <3>1, <3>2 DEF HasQuorum, Approvers, Eligible
  <2> QED BY <1>0, <1>1, <1>2, <1>4, <2>1, <2>2 DEF OutcomeFits, Carried, Refused, IsPayment, rosterVars
<1>11. LocksFit(c)'
  BY <1>0, <1>1, <1>2 DEF LocksFit, mailVars
<1> QED BY <1>0, <1>1, <1>5, <1>7, <1>8, <1>9, <1>10, <1>11, OneRequestMoves DEF Carried, rosterVars, runVars

-----------------------------------------------------------------------------
(***************************************************************************)
(* Closing and delivering.                                                 *)
(***************************************************************************)
\* The mail, its lock and the seats' lock move; nothing is decided.
LEMMA MailPreserves ==
    ASSUME PayInv, ConInv, NEW c \in Consilia,
           UNCHANGED <<rosterVars, windowVars, subjectVars, cstate, roster, voteVars, runVars, payVars>>,
           ConsiliumTypeOK', \A d \in Consilia : d # c => SameLocks(d), LocksFit(c)'
    PROVE  PayInv' /\ ConInv'
<1>1. PayInv' /\ UNCHANGED pstate
  BY StutterPreserves DEF payVars
<1>2. \A d \in Consilia : SameVotes(d) /\ SameOutcome(d) /\ OrderKept(d)
  BY <1>1, OrdersKept DEF SameVotes, SameOutcome, voteVars, rosterVars, subjectVars
<1>3. BallotFits(c)' /\ OutcomeFits(c)'
  BY <1>2, BallotRests, OutcomeRests DEF ConInv, SameOutcome, SameVotes
<1> QED BY <1>1, <1>2, <1>3, OneRequestMoves DEF Untouched, rosterVars, runVars

LEMMA LockStepsPreserve ==
    ASSUME PayInv, ConInv, NEW c \in Consilia,
           \/ \E v \in {"expired", "cancelled"} : CloseStarts(c, v)
           \/ CloseLocks(c) \/ CloseRollsBack(c) \/ DeliverLocks(c)
           \/ \E u \in Users, outcome \in {"sent", "given_up"} : Deliver(c, u, outcome)
    PROVE  PayInv' /\ ConInv'
<1>0. ConsiliumTypeOK /\ LocksFit(c)
  BY DEF ConInv
<1>1. ASSUME NEW v \in {"expired", "cancelled"}, CloseStarts(c, v) PROVE PayInv' /\ ConInv'
  <2>1. closing' = [closing EXCEPT ![c] = v]
    BY <1>1 DEF CloseStarts
  <2>2. ConsiliumTypeOK'
    BY <1>0, <1>1, <2>1 DEF CloseStarts, ConsiliumTypeOK, rosterVars, windowVars, subjectVars, voteVars, runVars
  <2>3. LocksFit(c)' /\ \A d \in Consilia : d # c => SameLocks(d)
    BY <1>0, <1>1, <2>1 DEF CloseStarts, ConsiliumTypeOK, LocksFit, SameLocks
  <2> QED BY <1>1, <2>2, <2>3, MailPreserves DEF CloseStarts
<1>2. CASE CloseLocks(c)
  <2>1. \/ mailLock[c] = "free" /\ mailLock' = [mailLock EXCEPT ![c] = "closer"] /\ UNCHANGED seatLock
        \/ mailLock[c] = "closer" /\ seatLock' = [seatLock EXCEPT ![c] = "closer"] /\ UNCHANGED mailLock
    BY <1>2 DEF CloseLocks, NextLock
  <2>2. mailLock' \in [Consilia -> {"free", "mailer", "closer"}] /\ seatLock' \in [Consilia -> {"free", "closer"}]
    <3>1. mailLock \in [Consilia -> {"free", "mailer", "closer"}] /\ seatLock \in [Consilia -> {"free", "closer"}]
      BY <1>0 DEF ConsiliumTypeOK
    <3>2. CASE mailLock' = [mailLock EXCEPT ![c] = "closer"] /\ UNCHANGED seatLock
      BY <3>1, <3>2
    <3>3. CASE seatLock' = [seatLock EXCEPT ![c] = "closer"] /\ UNCHANGED mailLock
      BY <3>1, <3>3
    <3> QED BY <2>1, <3>2, <3>3
  <2>3. ConsiliumTypeOK'
    BY <1>0, <1>2, <2>2 DEF CloseLocks, ConsiliumTypeOK, rosterVars, windowVars, subjectVars, voteVars, runVars
  <2>4. LocksFit(c)' /\ \A d \in Consilia : d # c => SameLocks(d)
    BY <1>0, <1>2, <2>1 DEF CloseLocks, ConsiliumTypeOK, LocksFit, SameLocks
  <2> QED BY <1>2, <2>3, <2>4, MailPreserves DEF CloseLocks
<1>3. CASE CloseRollsBack(c)
  <2>1. CloseEnds(c)
    BY <1>3 DEF CloseRollsBack
  <2>2. ConsiliumTypeOK'
    BY <1>0, <1>3, <2>1 DEF CloseRollsBack, CloseEnds, ConsiliumTypeOK, rosterVars, windowVars, subjectVars, voteVars, runVars
  <2>3. LocksFit(c)' /\ \A d \in Consilia : d # c => SameLocks(d)
    BY <1>0, <1>3, <2>1 DEF CloseRollsBack, CloseEnds, ConsiliumTypeOK, LocksFit, SameLocks
  <2> QED BY <1>3, <2>2, <2>3, MailPreserves DEF CloseRollsBack
<1>4. CASE DeliverLocks(c)
  <2>1. mailLock[c] = "free" /\ mailLock' = [mailLock EXCEPT ![c] = "mailer"]
    BY <1>4 DEF DeliverLocks
  <2>2. ConsiliumTypeOK'
    BY <1>0, <1>4, <2>1 DEF DeliverLocks, ConsiliumTypeOK, rosterVars, windowVars, subjectVars, voteVars, runVars
  <2>3. LocksFit(c)' /\ \A d \in Consilia : d # c => SameLocks(d)
    BY <1>0, <1>4, <2>1 DEF DeliverLocks, ConsiliumTypeOK, LocksFit, SameLocks
  <2> QED BY <1>4, <2>2, <2>3, MailPreserves DEF DeliverLocks
<1>5. ASSUME NEW u \in Users, NEW outcome \in {"sent", "given_up"}, Deliver(c, u, outcome)
      PROVE  PayInv' /\ ConInv'
  <2>1. /\ mailLock[c] = "mailer" /\ mailLock' = [mailLock EXCEPT ![c] = "free"]
        /\ invite' = [invite EXCEPT ![c][u] = outcome]
    BY <1>5 DEF Deliver
  <2>2. invite' \in [Consilia -> [Users -> {"none", "queued", "sent", "given_up", "withdrawn"}]]
    BY <1>0, <2>1 DEF ConsiliumTypeOK
  <2>3. ConsiliumTypeOK'
    BY <1>0, <1>5, <2>1, <2>2 DEF Deliver, ConsiliumTypeOK, rosterVars, windowVars, subjectVars, voteVars, runVars
  <2>4. \A v \in Users : invite'[c][v] = "queued" => invite[c][v] = "queued"
    BY <1>0, <2>1 DEF ConsiliumTypeOK
  <2>5. LocksFit(c)' /\ \A d \in Consilia : d # c => SameLocks(d)
    BY <1>0, <1>5, <2>1, <2>4 DEF Deliver, ConsiliumTypeOK, LocksFit, SameLocks
  <2> QED BY <1>5, <2>3, <2>5, MailPreserves DEF Deliver
<1> QED BY <1>1, <1>2, <1>3, <1>4, <1>5


\* A request is closed by its window or its initiator, with its invitations and its subject.
LEMMA RequestCloses ==
    ASSUME PayInv, ConInv, ConsiliumTypeOK', NEW c \in Consilia, NEW v \in {"expired", "cancelled"},
           cstate[c] = "open", cstate' = [cstate EXCEPT ![c] = v],
           CloseDecidedSubject(c), WithdrawInvitations(c), PayRest,
           \A d \in Consilia :
              d # c => mailLock'[d] = mailLock[d] /\ seatLock'[d] = seatLock[d] /\ closing'[d] = closing[d],
           seatLock'[c] = "free", mailLock'[c] = "free",
           UNCHANGED <<rosterVars, windowVars, roster, effected, voteVars, runVars>>
    PROVE  PayInv' /\ ConInv'
<1>0. PayTypeOK /\ ConsiliumTypeOK /\ closedSubj \subseteq Consilia /\ BallotFits(c) /\ OutcomeFits(c)
  BY DEF PayInv, ConInv, ConsiliumTypeOK
<1>1. /\ UNCHANGED <<pstate, row>> \/ RejectOn(OrderOf[c])
      /\ \A d \in Consilia : OrderKept(d)
      /\ IsPayment(c) => pstate'[OrderOf[c]] \notin {"none", "pending"}
  BY <1>0, SubjectCloses
<1>2. PayInv'
  BY <1>1, SubjectPreserves
<1>3. cstate'[c] = v
  BY <1>0 DEF ConsiliumTypeOK
<1>4. invite'[c] = [u \in Users |-> IF invite[c][u] = "queued" THEN "withdrawn" ELSE invite[c][u]]
      /\ \A d \in Consilia : d # c => invite'[d] = invite[d]
  BY <1>0 DEF ConsiliumTypeOK, WithdrawInvitations
<1>5. ASSUME NEW d \in Consilia, d # c PROVE Untouched(d)
  BY <1>0, <1>1, <1>4, <1>5 DEF ConsiliumTypeOK, Untouched, SameVotes, SameLocks, SameOutcome, rosterVars, voteVars
<1>6. BallotFits(c)'
  BY <1>0, <1>3, BallotRests DEF SameVotes, voteVars
<1>7. OutcomeFits(c)'
  <2>1. ~Done(c) /\ ~Done(c)'
    BY <1>0, <1>1 DEF OutcomeFits, Carried, Done, OrderKept, Past, IsPayment
  <2> QED BY <1>0, <1>1, <1>3, <2>1 DEF OutcomeFits, Carried, Refused, IsPayment, rosterVars
<1>8. LocksFit(c)'
  BY <1>4 DEF LocksFit
<1> QED BY <1>2, <1>5, <1>6, <1>7, <1>8, OneRequestMoves DEF Carried, rosterVars, runVars

LEMMA CloseStepsPreserve ==
    ASSUME PayInv, ConInv, NEW c \in Consilia, CloseCommits(c) \/ UndoQuorum(c)
    PROVE  PayInv' /\ ConInv'
<1>0. PayTypeOK /\ ConsiliumTypeOK /\ closedSubj \subseteq Consilia /\ LocksFit(c)
  BY DEF PayInv, ConInv, ConsiliumTypeOK
<1>1. ASSUME WithdrawInvitations(c)
      PROVE  invite' \in [Consilia -> [Users -> {"none", "queued", "sent", "given_up", "withdrawn"}]]
  <2>1. invite[c] \in [Users -> {"none", "queued", "sent", "given_up", "withdrawn"}]
    BY <1>0 DEF ConsiliumTypeOK
  <2>2. PICK i \in [Users -> {"none", "queued", "sent", "given_up", "withdrawn"}] : invite' = [invite EXCEPT ![c] = i]
    BY <1>1, <2>1 DEF WithdrawInvitations
  <2> QED BY <1>0, <2>2 DEF ConsiliumTypeOK
<1>2. CASE CloseCommits(c)
  <2>1. closing[c] \in {"expired", "cancelled"}
    BY <1>0, <1>2 DEF CloseCommits, LocksFit, ConsiliumTypeOK
  <2>2. /\ cstate[c] = "open" /\ cstate' = [cstate EXCEPT ![c] = closing[c]]
        /\ CloseDecidedSubject(c) /\ WithdrawInvitations(c) /\ CloseEnds(c) /\ PayRest
        /\ UNCHANGED <<rosterVars, windowVars, roster, opening, effected, voteVars, runVars>>
    BY <1>2 DEF CloseCommits
  <2>3. closedSubj' \subseteq Consilia
    BY <1>0, <2>2, SubjectCloses
  <2>4. cstate' \in [Consilia -> ConsiliumStates \union {"none"}]
    BY <1>0, <2>1, <2>2 DEF ConsiliumTypeOK, ConsiliumStates
  <2>5. /\ mailLock' \in [Consilia -> {"free", "mailer", "closer"}] /\ seatLock' \in [Consilia -> {"free", "closer"}]
        /\ closing' \in [Consilia -> {"none", "expired", "cancelled"}]
        /\ mailLock'[c] = "free" /\ seatLock'[c] = "free"
        /\ \A d \in Consilia :
              d # c => mailLock'[d] = mailLock[d] /\ seatLock'[d] = seatLock[d] /\ closing'[d] = closing[d]
    BY <1>0, <2>2 DEF CloseEnds, ConsiliumTypeOK
  <2>6. ConsiliumTypeOK'
    BY <1>0, <1>1, <2>2, <2>3, <2>4, <2>5 DEF ConsiliumTypeOK, rosterVars, windowVars, voteVars, runVars
  <2> QED BY <2>1, <2>2, <2>5, <2>6, RequestCloses
<1>3. CASE UndoQuorum(c)
  <2>1. /\ mailLock[c] = "free" /\ seatLock[c] = "free" /\ opening' = [opening EXCEPT ![c] = "done"] /\ PayRest
        /\ UNCHANGED <<rosterVars, windowVars, roster, effected, voteVars, mailLock, seatLock, closing, runVars>>
    BY <1>3 DEF UndoQuorum
  <2>2. opening' \in [Consilia -> {"none", "quorum", "order", "undo", "done"}]
    BY <1>0, <2>1, OpeningTypes
  <2>3. CASE /\ cstate[c] = "open" /\ CloseDecidedSubject(c)
             /\ cstate' = [cstate EXCEPT ![c] = "cancelled"] /\ WithdrawInvitations(c)
    <3>1. closedSubj' \subseteq Consilia
      BY <1>0, <2>3, SubjectCloses
    <3>2. cstate' \in [Consilia -> ConsiliumStates \union {"none"}]
      BY <1>0, <2>3 DEF ConsiliumTypeOK, ConsiliumStates
    <3>3. ConsiliumTypeOK'
      BY <1>0, <1>1, <2>1, <2>2, <2>3, <3>1, <3>2 DEF ConsiliumTypeOK, rosterVars, windowVars, voteVars, runVars
    <3> QED BY <2>1, <2>3, <3>3, RequestCloses
  <2>4. CASE UNCHANGED <<cstate, invite, pstate, row, closedSubj>>
    <3>1. PayInv'
      BY <2>1, <2>4, SubjectPreserves
    <3> QED BY <2>1, <2>2, <2>4, <3>1, OpeningPreserves, OrdersKept DEF mailVars
  <2> QED BY <1>3, <2>3, <2>4 DEF UndoQuorum
<1> QED BY <1>2, <1>3

-----------------------------------------------------------------------------
(***************************************************************************)
(* Executing.                                                              *)
(***************************************************************************)
LEMMA RunnerMoves ==
    ASSUME ConInv, NEW x \in Runners, NEW l \in {"idle", "effect", "record"}, cat' = [cat EXCEPT ![x] = l],
           cjob' = cjob \/ \E c \in Consilia : cjob' = [cjob EXCEPT ![x] = c],
           settled' = settled,
           \A d \in Consilia : cstate[d] \in Carried => cstate'[d] \in Carried,
           l = "effect" => cstate'[cjob'[x]] \in Carried /\ cjob'[x] \notin settled
    PROVE  /\ cat' \in [Runners -> {"idle", "effect", "record"}] /\ cjob' \in [Runners -> Consilia]
           /\ \A y \in Runners : RunnerFits(y)'
<1>0. ConsiliumTypeOK
  BY DEF ConInv
<1>1. cat' \in [Runners -> {"idle", "effect", "record"}] /\ cat'[x] = l /\ \A y \in Runners : y # x => cat'[y] = cat[y]
  BY <1>0 DEF ConsiliumTypeOK
<1>2. cjob' \in [Runners -> Consilia] /\ \A y \in Runners : y # x => cjob'[y] = cjob[y]
  <2>1. cjob \in [Runners -> Consilia]
    BY <1>0 DEF ConsiliumTypeOK
  <2> QED BY <2>1
<1>3. ASSUME NEW y \in Runners, y # x PROVE RunnerFits(y)'
  <2>1. RunnerFits(y) /\ cat'[y] = cat[y] /\ cjob'[y] = cjob[y] /\ cjob[y] \in Consilia
    BY <1>0, <1>1, <1>2, <1>3 DEF ConInv, ConsiliumTypeOK
  <2> QED BY <2>1 DEF RunnerFits
<1>4. RunnerFits(x)'
  BY <1>1 DEF RunnerFits
<1> QED BY <1>1, <1>2, <1>3, <1>4

LEMMA OutcomeTypes ==
    ASSUME ConsiliumTypeOK, NEW x \in Runners,
           cout' = cout \/ \E v \in {"none", "executed", "failed"} : cout' = [cout EXCEPT ![x] = v]
    PROVE  cout' \in [Runners -> {"none", "executed", "failed"}]
BY DEF ConsiliumTypeOK

\* A runner's step that leaves every request as it is.
LEMMA OwnRunStep ==
    ASSUME PayInv, ConInv, NEW x \in Runners, NEW l \in {"idle", "effect", "record"}, RunGoes(x, l),
           cjob' = cjob \/ \E c \in Consilia : cjob' = [cjob EXCEPT ![x] = c],
           cout' = cout \/ \E v \in {"none", "executed", "failed"} : cout' = [cout EXCEPT ![x] = v],
           l = "effect" => cstate[cjob'[x]] \in Carried /\ cjob'[x] \notin settled,
           UNCHANGED <<rosterVars, windowVars, subjectVars, cstate, roster, voteVars, mailVars>>,
           \A d \in Consilia : OrderKept(d)
    PROVE  ConInv'
<1>0. ConsiliumTypeOK /\ settled' = settled
  BY DEF ConInv, rosterVars
<1>1. /\ cat' \in [Runners -> {"idle", "effect", "record"}] /\ cjob' \in [Runners -> Consilia]
      /\ \A y \in Runners : RunnerFits(y)'
  BY <1>0, RunnerMoves DEF RunGoes
<1>2. cout' \in [Runners -> {"none", "executed", "failed"}]
  BY <1>0, OutcomeTypes
<1>3. ConsiliumTypeOK'
  BY <1>0, <1>1, <1>2 DEF ConsiliumTypeOK, rosterVars, windowVars, subjectVars, voteVars, mailVars
<1>4. \A d \in Consilia : Untouched(d)
  BY DEF Untouched, SameVotes, SameLocks, SameOutcome, rosterVars, subjectVars, voteVars, mailVars
<1> QED BY <1>1, <1>3, <1>4, UntouchedFits DEF ConInv

LEMMA ChecksPreserve ==
    ASSUME PayInv, ConInv, NEW x \in Runners, (\E c \in Consilia : ExecuteChecks(x, c)) \/ RunnerDies(x)
    PROVE  PayInv' /\ ConInv'
<1>0. PayInv' /\ UNCHANGED pstate /\ UNCHANGED <<rosterVars, windowVars, subjectVars, cstate, roster, voteVars, mailVars>>
  BY StutterPreserves DEF ExecuteChecks, RunnerDies, payVars
<1>1. ASSUME NEW c \in Consilia, ExecuteChecks(x, c) PROVE ConInv'
  <2>1. cstate[c] = "approved" /\ (c \in settled => c \in moved)
    BY <1>1 DEF ExecuteChecks, ConInv, OutcomeFits
  <2>2. CASE StillCarries(c) /\ RunKeeps(x, c, "none") /\ RunGoes(x, "effect")
    <3>1. cjob'[x] = c
      BY <2>2 DEF RunKeeps, ConInv, ConsiliumTypeOK
    <3>2. c \notin settled /\ cstate[c] \in Carried
      BY <2>1, <2>2 DEF StillCarries, Carried
    <3> QED BY <1>0, <2>2, <3>1, <3>2, OrdersKept, OwnRunStep DEF RunKeeps
  <2>3. CASE RunKeeps(x, c, "failed") /\ RunGoes(x, "record")
    BY <1>0, <2>3, OrdersKept, OwnRunStep DEF RunKeeps
  <2> QED BY <1>1, <2>2, <2>3 DEF ExecuteChecks
<1>2. CASE RunnerDies(x)
  <2>1. RunGoes(x, "idle") /\ UNCHANGED <<cjob, cout>>
    BY <1>2 DEF RunnerDies
  <2> QED BY <1>0, <2>1, OrdersKept, OwnRunStep
<1> QED BY <1>0, <1>1, <1>2


\* A runner past its checks carries out the payment: its order is approved under the quorum.
LEMMA PaymentCarriedOut ==
    ASSUME PayInv, ConInv, NEW x \in Runners, ExecutePayment(x)
    PROVE  PayInv' /\ ConInv'
<1>job. PICK c \in Consilia : c = cjob[x]
  BY DEF ConInv, ConsiliumTypeOK
<1>order. PICK o \in Orders : o = OrderOf[c]
  BY ConsiliumAssumption
<1>0. /\ PayTypeOK /\ ConsiliumTypeOK /\ c \in Consilia /\ o \in Orders /\ IsPayment(c) /\ Seat[o] = "consilium"
      /\ cstate[c] \in Carried /\ c \notin settled /\ OutcomeFits(c) /\ BallotFits(c) /\ LocksFit(c)
  BY <1>job, <1>order, ConsiliumAssumption DEF PayInv, ConInv, ConsiliumTypeOK, ExecutePayment, RunnerFits, IsPayment
<1>1. /\ PayRest /\ RunGoes(x, "record")
      /\ UNCHANGED <<rosterVars, windowVars, subjectVars, cstate, roster, voteVars, mailVars>>
      /\ \E v \in {"executed", "failed"} : RunKeeps(x, c, v)
      /\ Approve(o) \/ UNCHANGED <<pstate, row>>
  BY <1>job, <1>order DEF ExecutePayment
<1>2. PayInv'
  BY <1>order, <1>0, <1>1, ApprovePreserves, SubjectPreserves DEF PayRest
<1>3. \A d \in Consilia : d # c => OrderKept(d)
  <2>1. ASSUME NEW d \in Consilia, d # c, IsPayment(d) PROVE OrderOf[d] # o
    BY <1>order, <1>0, <2>1, ConsiliumAssumption DEF IsPayment
  <2>2. CASE UNCHANGED <<pstate, row>>
    BY <2>2, OrdersKept
  <2>3. CASE Approve(o)
    <3>1. \A p \in Orders : p # o => pstate'[p] = pstate[p]
      BY <1>0, <2>3 DEF Approve, PayTypeOK
    <3> QED BY <2>1, <3>1, ConsiliumAssumption DEF OrderKept
  <2> QED BY <1>1, <2>2, <2>3
<1>4. /\ cat' \in [Runners -> {"idle", "effect", "record"}] /\ cjob' \in [Runners -> Consilia]
      /\ cout' \in [Runners -> {"none", "executed", "failed"}]
      /\ \A y \in Runners : RunnerFits(y)'
  BY <1>0, <1>1, RunnerMoves, OutcomeTypes DEF RunGoes, RunKeeps, rosterVars
<1>5. ConsiliumTypeOK'
  BY <1>0, <1>1, <1>4 DEF ConsiliumTypeOK, rosterVars, windowVars, subjectVars, voteVars, mailVars
<1>6. \A d \in Consilia : SameVotes(d) /\ SameLocks(d) /\ SameOutcome(d)
  BY <1>1 DEF SameVotes, SameLocks, SameOutcome, rosterVars, subjectVars, voteVars, mailVars
<1>7. OutcomeFits(c)'
  <2>1. HasQuorum(c)' <=> HasQuorum(c)
    BY <1>1 DEF HasQuorum, Approvers, voteVars
  <2>2. IsPayment(c) /\ cstate[c] \in Refused => pstate'[o] \notin {"none", "pending"}
    <3>1. CASE UNCHANGED <<pstate, row>>
      BY <1>order, <1>0, <3>1 DEF OutcomeFits
    <3>2. CASE Approve(o)
      BY <1>0, <3>2 DEF Approve, PayTypeOK
    <3> QED BY <1>1, <3>1, <3>2
  <2>3. cstate'[c] = cstate[c] /\ c \notin settled'
    BY <1>0, <1>1 DEF rosterVars
  <2> QED BY <1>order, <1>0, <2>1, <2>2, <2>3 DEF OutcomeFits, IsPayment
<1>8. BallotFits(c)' /\ LocksFit(c)'
  <2> QED BY <1>0, <1>6, BallotRests, LocksRest DEF SameOutcome
<1>9. ASSUME NEW d \in Consilia PROVE BallotFits(d)' /\ OutcomeFits(d)' /\ LocksFit(d)'
  <2>1. CASE d = c
    BY <1>7, <1>8, <2>1
  <2>2. CASE d # c
    BY <1>3, <1>6, <2>2, UntouchedFits DEF Untouched
  <2> QED BY <2>1, <2>2
<1> QED BY <1>2, <1>4, <1>5, <1>9 DEF ConInv

LEMMA EffectPreserves ==
    ASSUME PayInv, ConInv, NEW x \in Runners, ExecuteEffect(x)
    PROVE  PayInv' /\ ConInv'
<1>job. PICK c \in Consilia : c = cjob[x]
  BY DEF ConInv, ConsiliumTypeOK
<1>0. /\ ConsiliumTypeOK /\ c \in Consilia
      /\ cstate[c] \in Carried /\ c \notin settled /\ OutcomeFits(c)
  BY <1>job DEF ConInv, ConsiliumTypeOK, ExecuteEffect, RunnerFits
<1>1. /\ UNCHANGED payVars /\ PayInv' /\ UNCHANGED pstate
      /\ UNCHANGED <<rosterVars, windowVars, cstate, roster, opening, closedSubj, voteVars, mailVars>>
  BY StutterPreserves DEF ExecuteEffect, payVars
<1>2. CASE effected' = effected \union {c} /\ RunKeeps(x, c, "executed") /\ RunGoes(x, "record")
  <2>1. /\ cat' \in [Runners -> {"idle", "effect", "record"}] /\ cjob' \in [Runners -> Consilia]
        /\ cout' \in [Runners -> {"none", "executed", "failed"}]
        /\ \A y \in Runners : RunnerFits(y)'
    BY <1>0, <1>1, <1>2, RunnerMoves, OutcomeTypes DEF RunGoes, RunKeeps, rosterVars
  <2>2. ConsiliumTypeOK'
    BY <1>0, <1>1, <1>2, <2>1 DEF ConsiliumTypeOK, rosterVars, windowVars, voteVars, mailVars
  <2>3. ASSUME NEW d \in Consilia
        PROVE  SameVotes(d) /\ SameLocks(d) /\ OrderKept(d) /\ cstate'[d] = cstate[d] /\ (d # c => SameOutcome(d))
    BY <1>1, <1>2, OrdersKept DEF SameVotes, SameLocks, SameOutcome, rosterVars, voteVars, mailVars
  <2>4. ASSUME NEW d \in Consilia PROVE BallotFits(d)' /\ OutcomeFits(d)' /\ LocksFit(d)'
    <3>1. CASE d # c
      BY <2>3, <3>1, UntouchedFits DEF Untouched
    <3>2. CASE d = c
      <4>1. BallotFits(c)' /\ LocksFit(c)'
        BY <1>0, <2>3, BallotRests, LocksRest DEF ConInv
      <4>2. HasQuorum(c)' <=> HasQuorum(c)
        BY <1>1 DEF HasQuorum, Approvers, voteVars
      <4>3. OutcomeFits(c)'
        BY <1>0, <1>1, <4>2 DEF OutcomeFits, rosterVars, IsPayment
      <4> QED BY <3>2, <4>1, <4>3
    <3> QED BY <3>1, <3>2
  <2> QED BY <1>1, <2>1, <2>2, <2>4 DEF ConInv
<1>3. CASE UNCHANGED effected /\ RunKeeps(x, c, "failed") /\ RunGoes(x, "record")
  BY <1>0, <1>1, <1>3, OwnRunStep, OrdersKept DEF RunKeeps, subjectVars
<1>4. CASE UNCHANGED <<effected, cjob, cout>> /\ RunGoes(x, "idle")
  BY <1>1, <1>4, OwnRunStep, OrdersKept DEF subjectVars
<1> QED BY <1>job, <1>2, <1>3, <1>4 DEF ExecuteEffect

LEMMA RecordPreserves ==
    ASSUME PayInv, ConInv, NEW x \in Runners, RecordConsilium(x)
    PROVE  PayInv' /\ ConInv'
<1>job. PICK c \in Consilia : c = cjob[x]
  BY DEF ConInv, ConsiliumTypeOK
<1>0. /\ PayTypeOK /\ ConsiliumTypeOK /\ c \in Consilia /\ closedSubj \subseteq Consilia
      /\ OutcomeFits(c) /\ BallotFits(c) /\ LocksFit(c)
  BY <1>job DEF PayInv, ConInv, ConsiliumTypeOK
<1>1. /\ RunGoes(x, "idle") /\ PayRest
      /\ UNCHANGED <<rosterVars, windowVars, roster, opening, effected, voteVars, mailVars, cjob, cout>>
  BY DEF RecordConsilium
<1>2. PICK v \in {"executed", "execution_failed", "same"} :
         /\ v = "same" => UNCHANGED <<cstate, pstate, row, closedSubj>>
         /\ v # "same" => cstate[c] = "approved" /\ cstate' = [cstate EXCEPT ![c] = v]
         /\ v = "executed" => UNCHANGED <<pstate, row, closedSubj>>
         /\ v = "execution_failed" => CloseDecidedSubject(c)
  BY <1>job DEF RecordConsilium
<1>3. /\ UNCHANGED <<pstate, row>> \/ RejectOn(OrderOf[c])
      /\ closedSubj' \subseteq Consilia
      /\ \A d \in Consilia : OrderKept(d)
      /\ v = "execution_failed" /\ IsPayment(c) => pstate'[OrderOf[c]] \notin {"none", "pending"}
  <2>1. CASE v = "execution_failed"
    BY <1>0, <1>2, <2>1, SubjectCloses
  <2>2. CASE v # "execution_failed"
    BY <1>0, <1>2, <2>2, OrdersKept
  <2> QED BY <2>1, <2>2
<1>4. PayInv'
  BY <1>0, <1>1, <1>3, SubjectPreserves
<1>5. /\ cstate' \in [Consilia -> ConsiliumStates \union {"none"}]
      /\ \A d \in Consilia : d # c => cstate'[d] = cstate[d]
      /\ v # "same" => cstate'[c] = v /\ cstate[c] = "approved"
      /\ v = "same" => cstate'[c] = cstate[c]
  <2>1. cstate \in [Consilia -> ConsiliumStates \union {"none"}]
    BY <1>0 DEF ConsiliumTypeOK
  <2>2. CASE v = "same"
    BY <1>2, <2>1, <2>2
  <2>3. CASE v # "same"
    <3>1. cstate' = [cstate EXCEPT ![c] = v] /\ cstate[c] = "approved" /\ v \in ConsiliumStates
      BY <1>2, <2>3 DEF ConsiliumStates
    <3> QED BY <1>0, <2>1, <2>3, <3>1
  <2> QED BY <2>2, <2>3
<1>6. \A d \in Consilia : cstate[d] \in Carried => cstate'[d] \in Carried
  BY <1>5 DEF Carried
<1>7. cat' \in [Runners -> {"idle", "effect", "record"}] /\ \A y \in Runners : RunnerFits(y)'
  BY <1>1, <1>6, RunnerMoves DEF RunGoes, rosterVars
<1>8. ConsiliumTypeOK'
  BY <1>0, <1>1, <1>3, <1>5, <1>7 DEF ConsiliumTypeOK, rosterVars, windowVars, voteVars, mailVars
<1>9. ASSUME NEW d \in Consilia PROVE BallotFits(d)' /\ OutcomeFits(d)' /\ LocksFit(d)'
  <2>1. SameVotes(d) /\ SameLocks(d) /\ OrderKept(d) /\ (d # c => SameOutcome(d))
    BY <1>1, <1>3, <1>5 DEF SameVotes, SameLocks, SameOutcome, rosterVars, voteVars, mailVars
  <2>2. CASE d # c \/ v = "same"
    <3>1. SameOutcome(d)
      BY <1>1, <1>5, <2>1, <2>2 DEF SameOutcome, rosterVars
    <3> QED BY <2>1, <3>1, UntouchedFits DEF Untouched
  <2>3. CASE d = c /\ v # "same"
    <3>1. BallotFits(c)'
      BY <1>0, <1>5, <2>1, <2>3, BallotRests
    <3>2. LocksFit(c)'
      BY <1>0, <1>5, <2>1, <2>3 DEF LocksFit, SameLocks
    <3>3. HasQuorum(c)' <=> HasQuorum(c)
      BY <2>1, <2>3 DEF HasQuorum, Approvers, SameVotes
    <3>4. Done(c)' => Done(c)
      BY <1>1, <2>1, <2>3 DEF Done, OrderKept, Past, IsPayment
    <3>5. OutcomeFits(c)'
      BY <1>0, <1>1, <1>3, <1>5, <2>3, <3>3, <3>4 DEF OutcomeFits, Carried, Refused, rosterVars, IsPayment
    <3> QED BY <2>3, <3>1, <3>2, <3>5
  <2> QED BY <2>2, <2>3
<1> QED BY <1>4, <1>7, <1>8, <1>9 DEF ConInv


-----------------------------------------------------------------------------
(***************************************************************************)
(* The roster and time.                                                    *)
(***************************************************************************)
LEMMA RosterPreserves ==
    ASSUME PayInv, ConInv, NEW u \in Users, ChangeRoster(u)
    PROVE  PayInv' /\ ConInv'
<1>0. ConsiliumTypeOK
  BY DEF ConInv
<1>1. /\ PayInv' /\ UNCHANGED <<pstate, payVars>>
      /\ UNCHANGED <<windowVars, subjectVars, cstate, roster, voteVars, mailVars, runVars>>
  BY StutterPreserves DEF ChangeRoster, payVars
<1>2. /\ moved' = moved \union {c \in Consilia : cstate[c] \in {"open", "approved"}}
      /\ settled' = settled \union {c \in Consilia : cstate[c] \in {"open", "approved"} /\ ~Running(c) /\ ~Done(c)}
      /\ cooling' = TRUE /\ owners' \subseteq Users
  BY <1>0 DEF ChangeRoster, ConsiliumTypeOK
<1>3. ConsiliumTypeOK'
  BY <1>0, <1>1, <1>2 DEF ConsiliumTypeOK, windowVars, subjectVars, voteVars, mailVars, runVars
<1>4. ASSUME NEW d \in Consilia PROVE BallotFits(d)' /\ OutcomeFits(d)' /\ LocksFit(d)'
  <2>1. SameVotes(d) /\ SameLocks(d) /\ cstate'[d] = cstate[d] /\ BallotFits(d) /\ OutcomeFits(d) /\ LocksFit(d)
    BY <1>1 DEF ConInv, SameVotes, SameLocks, voteVars, mailVars
  <2>2. BallotFits(d)' /\ LocksFit(d)'
    BY <2>1, BallotRests, LocksRest
  <2>3. (HasQuorum(d)' <=> HasQuorum(d)) /\ (Done(d)' <=> Done(d))
    BY <1>1, <2>1 DEF HasQuorum, Approvers, Done, IsPayment, SameVotes, subjectVars
  <2>4. d \in settled' => d \in moved' /\ ~Done(d)
    BY <1>2, <2>1 DEF OutcomeFits
  <2>5. OutcomeFits(d)'
    BY <1>1, <2>1, <2>3, <2>4 DEF OutcomeFits, IsPayment
  <2> QED BY <2>2, <2>5
<1>5. ASSUME NEW x \in Runners PROVE RunnerFits(x)'
  <2>1. RunnerFits(x) /\ cjob[x] \in Consilia /\ UNCHANGED <<cat, cjob, cstate>>
    BY <1>0, <1>1 DEF ConInv, ConsiliumTypeOK, runVars
  <2>2. cat[x] = "effect" => Running(cjob[x])
    BY DEF Running
  <2> QED BY <1>2, <2>1, <2>2 DEF RunnerFits
<1> QED BY <1>1, <1>3, <1>4, <1>5 DEF ConInv

LEMMA TimePreserves ==
    ASSUME PayInv, ConInv, CoolingLifts \/ \E c \in Consilia : WindowCloses(c)
    PROVE  PayInv' /\ ConInv'
<1>0. ConsiliumTypeOK
  BY DEF ConInv
<1>1. /\ PayInv' /\ UNCHANGED <<pstate, payVars>>
      /\ UNCHANGED <<subjectVars, owners, cstate, roster, moved, settled, voteVars, mailVars, runVars>>
      /\ cooling' \in BOOLEAN
      /\ lapsed' \subseteq Consilia /\ graceOver' \subseteq Consilia
  BY <1>0, StutterPreserves DEF CoolingLifts, WindowCloses, payVars, rosterVars, windowVars, ConsiliumTypeOK
<1>2. ConsiliumTypeOK'
  BY <1>0, <1>1 DEF ConsiliumTypeOK, subjectVars, voteVars, mailVars, runVars
<1>3. \A d \in Consilia : Untouched(d)
  BY <1>1, OrdersKept DEF Untouched, SameVotes, SameLocks, SameOutcome, subjectVars, voteVars, mailVars
<1>4. \A x \in Runners : RunnerFits(x)'
  BY <1>1 DEF ConInv, RunnerFits, runVars
<1> QED BY <1>1, <1>2, <1>3, <1>4, UntouchedFits DEF ConInv

-----------------------------------------------------------------------------
(***************************************************************************)
(* Every step of the owners' consilium, and of the payments beside it.     *)
(***************************************************************************)
LEMMA GovernanceStep ==
    ASSUME PayInv, ConInv, ConsiliumStep
    PROVE  PayInv' /\ ConInv'
<1>1. ASSUME NEW c \in Consilia, RequestStep(c) PROVE PayInv' /\ ConInv'
  BY <1>1, OpenStepsPreserve, LockStepsPreserve, CloseStepsPreserve, TimePreserves DEF RequestStep
<1>2. ASSUME NEW c \in Consilia, VoteStep(c) PROVE PayInv' /\ ConInv'
  BY <1>2, WrongCodePreserves, VotePreserves DEF VoteStep
<1>3. ASSUME NEW x \in Runners, RunStep(x) PROVE PayInv' /\ ConInv'
  BY <1>3, ChecksPreserve, PaymentCarriedOut, EffectPreserves, RecordPreserves DEF RunStep
<1> QED BY <1>1, <1>2, <1>3, RosterPreserves, TimePreserves DEF ConsiliumStep

\* The payments' own steps leave every request as it is, and no order of a consilium's seat
\* is approved by them.
LEMMA PaymentStepPreserves ==
    ASSUME PayInv, ConInv, [PayNext]_payVars, UNCHANGED consiliumVars
    PROVE  PayInv' /\ ConInv'
<1>1. PayInv'
  BY StepPreserves, StutterPreserves
<1>2. ASSUME NEW d \in Consilia PROVE OrderKept(d)
  <2>1. CASE UNCHANGED payVars
    BY <2>1, OrdersKept DEF payVars
  <2>2. CASE PayNext
    <3>1. ASSUME IsPayment(d) PROVE OrderLife(OrderOf[d]) /\ Seat[OrderOf[d]] = "consilium"
      BY <2>2, <3>1, PaymentLives, ConsiliumAssumption DEF IsPayment
    <3> QED BY <3>1 DEF OrderKept, OrderLife, Past, Verdicts
  <2> QED BY <2>1, <2>2
<1>3. UNCHANGED <<rosterVars, windowVars, subjectVars, cstate, roster, voteVars, mailVars, runVars>>
  BY DEF consiliumVars
<1>4. UNCHANGED opening /\ ConsiliumTypeOK
  BY <1>3 DEF subjectVars, ConInv
<1> QED BY <1>1, <1>2, <1>3, <1>4, OpeningPreserves DEF subjectVars, ConsiliumTypeOK

LEMMA GovernanceInit == PayInit /\ ConsiliumInit => PayInv /\ ConInv
<1> SUFFICES ASSUME PayInit, ConsiliumInit PROVE ConInv
  BY InvInit
<1>1. ConsiliumTypeOK
  <2>1. /\ owners \subseteq Users /\ cooling = FALSE
        /\ cstate = [c \in Consilia |-> "none"] /\ roster = [c \in Consilia |-> {}] /\ burnt = [c \in Consilia |-> {}]
        /\ lapsed = {} /\ graceOver = {} /\ moved = {} /\ effected = {} /\ closedSubj = {} /\ settled = {}
        /\ opening = [c \in Consilia |-> "none"] /\ closing = [c \in Consilia |-> "none"]
        /\ mailLock = [c \in Consilia |-> "free"] /\ seatLock = [c \in Consilia |-> "free"]
    BY ConsiliumAssumption DEF ConsiliumInit, ConsiliumInitWith
  <2>2. ballot \in [Consilia -> [Users -> VoteDecisions]]
    BY DEF ConsiliumInit, ConsiliumInitWith, VoteDecisions
  <2>3. codeTries \in [Consilia -> [Users -> 0..CodeAttempts]]
    BY ConsiliumAssumption DEF ConsiliumInit, ConsiliumInitWith
  <2>4. invite \in [Consilia -> [Users -> {"none", "queued", "sent", "given_up", "withdrawn"}]]
    BY DEF ConsiliumInit, ConsiliumInitWith
  <2>5. /\ cat \in [Runners -> {"idle", "effect", "record"}] /\ cjob \in [Runners -> Consilia]
        /\ cout \in [Runners -> {"none", "executed", "failed"}]
    BY ConsiliumAssumption DEF ConsiliumInit, ConsiliumInitWith
  <2> QED BY <2>1, <2>2, <2>3, <2>4, <2>5 DEF ConsiliumTypeOK
<1>2. ASSUME NEW c \in Consilia PROVE BallotFits(c) /\ OutcomeFits(c) /\ LocksFit(c)
  <2>1. cstate[c] = "none" /\ c \notin settled /\ c \notin effected /\ seatLock[c] = "free" /\ mailLock[c] = "free"
    BY DEF ConsiliumInit, ConsiliumInitWith
  <2>2. \A u \in Users : ballot[c][u] = "pending" /\ codeTries[c][u] = 0
    BY DEF ConsiliumInit, ConsiliumInitWith
  <2>3. pstate[OrderOf[c]] = "none"
    BY ConsiliumAssumption DEF PayInit, PayInitWith
  <2>4. BallotFits(c)
    BY <2>2, ConsiliumAssumption DEF BallotFits
  <2>5. OutcomeFits(c)
    BY <2>1, <2>3 DEF OutcomeFits, Done, Carried, Refused
  <2>6. LocksFit(c)
    BY <2>1 DEF LocksFit
  <2> QED BY <2>4, <2>5, <2>6
<1>3. \A x \in Runners : RunnerFits(x)
  BY DEF ConsiliumInit, ConsiliumInitWith, RunnerFits
<1> QED BY <1>1, <1>2, <1>3 DEF ConInv

\* No step of the consilium executes an order: its runner approves one at most.
LEMMA NeverExecutes ==
    ASSUME PayInv, ConInv, ConsiliumStep
    PROVE  \A o \in Orders : pstate'[o] = "executed" => pstate[o] = "executed"
<1>0. PayTypeOK /\ ConsiliumTypeOK /\ \A c \in Consilia : OrderOf[c] \in Orders
  BY ConsiliumAssumption DEF PayInv, ConInv
<1>1. ASSUME NEW p \in Orders,
             UNCHANGED pstate \/ InsertOrder(p) \/ RejectOn(p) \/ Approve(p)
      PROVE  \A o \in Orders : pstate'[o] = "executed" => pstate[o] = "executed"
  BY <1>0, <1>1 DEF PayTypeOK, InsertOrder, RejectOn, EnterVerdict, Approve
<1>2. ASSUME NEW c \in Consilia, CloseDecidedSubject(c)
      PROVE  UNCHANGED pstate \/ RejectOn(OrderOf[c])
  BY <1>2 DEF CloseDecidedSubject, ConsiliumKinds
<1>3. ASSUME NEW c \in Consilia, RequestStep(c)
      PROVE  UNCHANGED pstate \/ InsertOrder(OrderOf[c]) \/ RejectOn(OrderOf[c])
  <2>1. CASE OpenRequest(c) \/ OpenPaymentAsked(c) \/ OpenQuorum(c) \/ OpenOrder(c) \/ OpenOrderFails(c)
    BY <2>1 DEF OpenRequest, OpenPaymentAsked, OpenQuorum, OpenOrder, OpenOrderFails, payVars
  <2>2. CASE CloseCommits(c) \/ UndoQuorum(c)
    BY <1>2, <2>2 DEF CloseCommits, UndoQuorum
  <2>3. CASE \/ \E v \in {"expired", "cancelled"} : CloseStarts(c, v)
             \/ CloseLocks(c) \/ CloseRollsBack(c) \/ DeliverLocks(c) \/ WindowCloses(c)
             \/ \E u \in Users, outcome \in {"sent", "given_up"} : Deliver(c, u, outcome)
    BY <2>3 DEF CloseStarts, CloseLocks, CloseRollsBack, DeliverLocks, WindowCloses, Deliver, payVars
  <2> QED BY <1>3, <2>1, <2>2, <2>3 DEF RequestStep
<1>4. ASSUME NEW c \in Consilia, VoteStep(c)
      PROVE  UNCHANGED pstate \/ RejectOn(OrderOf[c])
  BY <1>2, <1>4 DEF VoteStep, SubmitWrongCode, SubmitVote, payVars
<1>5. ASSUME NEW x \in Runners, RunStep(x)
      PROVE  UNCHANGED pstate \/ Approve(OrderOf[cjob[x]]) \/ RejectOn(OrderOf[cjob[x]])
  <2>1. cjob[x] \in Consilia
    BY <1>0 DEF ConsiliumTypeOK
  <2> QED BY <1>2, <1>5, <2>1 DEF RunStep, ExecuteChecks, ExecutePayment, ExecuteEffect, RecordConsilium, RunnerDies, payVars
<1>6. (CoolingLifts \/ \E u \in Users : ChangeRoster(u)) => UNCHANGED pstate
  BY DEF CoolingLifts, ChangeRoster, payVars
<1>7. \A x \in Runners : cjob[x] \in Consilia
  BY <1>0 DEF ConsiliumTypeOK
<1>8. \E p \in Orders : UNCHANGED pstate \/ InsertOrder(p) \/ RejectOn(p) \/ Approve(p)
  BY <1>0, <1>3, <1>4, <1>5, <1>6, <1>7, PayAssumption DEF ConsiliumStep
<1> QED BY <1>1, <1>8

\* Only the mailer sends, from the queue that a closing transaction empties.
LEMMA InvitesWhileOpen ==
    ASSUME PayInv, ConInv, ConsiliumNext
    PROVE  \A c \in Consilia, u \in Users :
              invite[c][u] # "sent" /\ invite'[c][u] = "sent" => cstate[c] \notin {"expired", "cancelled"}
<1>0. ConsiliumTypeOK
  BY DEF ConInv
<1> SUFFICES ASSUME NEW c \in Consilia, NEW u \in Users, invite[c][u] # "sent", invite'[c][u] = "sent"
             PROVE  cstate[c] \notin {"expired", "cancelled"}
  OBVIOUS
<1>1. ASSUME NEW d \in Consilia, NEW v \in Users, NEW outcome \in {"sent", "given_up"}, Deliver(d, v, outcome)
      PROVE  invite[c][u] = "queued"
  BY <1>0, <1>1 DEF Deliver, ConsiliumTypeOK
<1>2. ASSUME NEW d \in Consilia, OpenOn(d) PROVE FALSE
  BY <1>0, <1>2 DEF OpenOn, ConsiliumTypeOK
<1>3. ASSUME NEW d \in Consilia, WithdrawInvitations(d) PROVE FALSE
  BY <1>0, <1>3 DEF WithdrawInvitations, ConsiliumTypeOK
<1>4. ASSUME NEW d \in Consilia, RequestStep(d) PROVE invite[c][u] = "queued"
  <2>1. UNCHANGED invite \/ OpenOn(d) \/ WithdrawInvitations(d)
        \/ \E v \in Users, outcome \in {"sent", "given_up"} : Deliver(d, v, outcome)
    BY <1>4 DEF RequestStep, OpenRequest, OpenPaymentAsked, OpenQuorum, OpenOrder, OpenOrderFails, CloseStarts,
       CloseLocks, CloseCommits, CloseRollsBack, UndoQuorum, DeliverLocks, WindowCloses, mailVars
  <2> QED BY <1>1, <1>2, <1>3, <2>1
<1>5. ~(\E d \in Consilia : VoteStep(d)) /\ ~(\E x \in Runners : RunStep(x)) /\ ~(\E v \in Users : ChangeRoster(v))
      /\ ~CoolingLifts /\ ~PaymentStep
  BY DEF VoteStep, SubmitWrongCode, SubmitVote, RunStep, ExecuteChecks, ExecutePayment, ExecuteEffect,
     RecordConsilium, RunnerDies, ChangeRoster, CoolingLifts, PaymentStep, consiliumVars, mailVars
<1>6. invite[c][u] = "queued"
  BY <1>4, <1>5 DEF ConsiliumNext, ConsiliumStep
<1> QED BY <1>6 DEF ConInv, LocksFit

\* Together the two invariants are inductive.
THEOREM GovernanceInvariant == ConsiliumSpec => [](PayInv /\ ConInv)
<1>1. PayInv /\ ConInv /\ [ConsiliumNext]_allVars => (PayInv /\ ConInv)'
  <2> SUFFICES ASSUME PayInv, ConInv, [ConsiliumNext]_allVars PROVE PayInv' /\ ConInv'
    OBVIOUS
  <2>1. CASE ConsiliumStep
    BY <2>1, GovernanceStep
  <2>2. CASE PaymentStep \/ UNCHANGED allVars
    BY <2>2, PaymentStepPreserves DEF PaymentStep, allVars
  <2> QED BY <2>1, <2>2 DEF ConsiliumNext
<1> QED BY <1>1, GovernanceInit, PTL DEF ConsiliumSpec

\* The types of the orders, the requests, their ballots, mails and runners.
THEOREM GovernanceTypes == ConsiliumSpec => []GovernanceTypeOK
<1>1. PayInv /\ ConInv => GovernanceTypeOK
  BY DEF PayInv, ConInv, GovernanceTypeOK
<1> QED BY <1>1, GovernanceInvariant, PTL

\* What a request brought about had a majority of the roster it was opened over, a roster change
\* voids what no runner had begun, a dead quorum leaves no order to answer, and no closing
\* transaction waits for the mailer that waits for it.
THEOREM QuorumHolds == ConsiliumSpec => []QuorumBinds
<1>1. PayInv /\ ConInv => QuorumBinds
  <2> SUFFICES ASSUME PayInv, ConInv PROVE QuorumBinds
    OBVIOUS
  <2>1. EffectHasQuorum
    BY DEF ConInv, OutcomeFits, EffectHasQuorum, HasQuorum, Approvers
  <2>2. RosterChangeVoids
    BY DEF ConInv, ConsiliumTypeOK, OutcomeFits, RosterChangeVoids
  <2>3. DeadQuorumClosesOrder
    BY DEF ConInv, OutcomeFits, Refused, DeadQuorumClosesOrder
  <2>4. NoLockCycle
    BY DEF ConInv, LocksFit, NoLockCycle
  <2> QED BY <2>1, <2>2, <2>3, <2>4 DEF QuorumBinds
<1> QED BY <1>1, GovernanceInvariant, PTL

\* An order executes only while its consent stands or after the money left, and an invitation
\* goes out only for a request that its window or its initiator has not closed.
THEOREM FreshConsent == ConsiliumSpec => ConsentIsFresh
<1> DEFINE Consent == \A o \in Orders :
              pstate[o] # "executed" /\ pstate'[o] = "executed" => ~SeatInvalidation(o) \/ wd[o] = "dispatched"
           Invitation == \A c \in Consilia, u \in Users :
              invite[c][u] # "sent" /\ invite'[c][u] = "sent" => cstate[c] \notin {"expired", "cancelled"}
<1>1. PayInv /\ ConInv /\ [ConsiliumNext]_allVars => [Consent]_payVars
  <2> SUFFICES ASSUME PayInv, ConInv, ConsiliumNext PROVE Consent
    BY DEF allVars
  <2>1. CASE PayNext
    BY <2>1, ConsentStep
  <2>2. CASE ConsiliumStep
    BY <2>2, NeverExecutes
  <2> QED BY <2>1, <2>2 DEF ConsiliumNext, PaymentStep
<1>2. PayInv /\ ConInv /\ [ConsiliumNext]_allVars => [Invitation]_allVars
  <2> SUFFICES ASSUME PayInv, ConInv, ConsiliumNext PROVE Invitation
    OBVIOUS
  <2> QED BY InvitesWhileOpen
<1> HIDE DEF Consent, Invitation
<1>3. ConsiliumSpec => [][Consent]_payVars /\ [][Invitation]_allVars
  BY <1>1, <1>2, GovernanceInvariant, PTL DEF ConsiliumSpec
<1> QED BY <1>3 DEF Consent, Invitation, ConsentIsFresh, ConsentStandsAtExecution, NoInviteToDeadRequest

\* With the owners' requests beside them, the orders' money still follows the orders ...
THEOREM GovernedMoney == ConsiliumSpec => []OrderMoneyIsRight
BY InvMoney, GovernanceInvariant, PTL

\* ... and how an order ended is still known to both parties.
THEOREM GovernedEnd == ConsiliumSpec => []EndIsKnown
BY InvEnd, GovernanceInvariant, PTL
=============================================================================
