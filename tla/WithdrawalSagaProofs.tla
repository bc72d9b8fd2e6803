------------------------ MODULE WithdrawalSagaProofs ------------------------
(***************************************************************************)
(* Proofs about WithdrawalSaga, for any number of withdrawals, users,      *)
(* rails and relay replicas and any amounts.                               *)
(***************************************************************************)
EXTENDS WithdrawalSaga, TLAPS

\* The advisory lock is not lost under its holder, and Postgres is not rolled
\* back: the two faults the custody guards do not cover (see README).
Undisturbed == Faults \cap {"lock_drop", "restore", "restore_pending"} = {}

InCustody(r) == at[r] \in {"custody", "store", "submit_fresh", "submit_again", "discard"}
Working(r)   == at[r] \notin {"acquire", "ready"}

\* One drainer: only the lock's holder is past the lock.
OneDrainer == \A r \in Relays : at[r] # "acquire" => lock = {r}

\* A row exists only in the states its command leaves behind.
RowsMatch(w) ==
    /\ st[<<w, "dispatched">>] # "absent" => wstate[w] \in {"processing", "completed", "failed"}
    /\ st[<<w, "settled">>] # "absent" => wstate[w] = "completed"
    /\ st[<<w, "failed">>] # "absent" => wstate[w] = "failed"
    /\ st[<<w, "cancelled">>] # "absent" => wstate[w] = "cancelled"

\* A resolving transfer is one the withdrawal's state calls for.
LedgerMatches(w) ==
    /\ Created(w, "settle") => wstate[w] = "completed"
    /\ Created(w, "void_fail") => wstate[w] = "failed"
    /\ Created(w, "void_cancel") => wstate[w] = "cancelled"
    /\ wstate[w] = "completed" => Paid(w)

\* Only the stored transaction can have been sent, only over a reservation, and
\* never beside a void.
StoredOnly(w) ==
    /\ \A k \in Signed : chain[w][k] # "none" => bcast[w] = k
    /\ bcast[w] # 0 => Created(w, "reserve") /\ st[<<w, "dispatched">>] # "absent"
    /\ st[<<w, "dispatched">>] = "dispatched" => Sent(w)
    /\ Created(w, "void_fail") => bcast[w] = 0

\* The row in hand exists and its kind fits the label.
InHand(r) ==
    /\ \A e \in batch[r] : st[e] # "absent"
    /\ at[r] = "acquire" => batch[r] = {}
    /\ Working(r) => cur[r] \in Events /\ st[cur[r]] # "absent"
    /\ InCustody(r) => cur[r][2] = "dispatched"
    /\ at[r] = "check" => cur[r][2] \in {"settled", "dispatched", "failed"}
    /\ at[r] \in {"leg", "step"} => cur[r][2] # "dispatched" /\ leg[r] \in DOMAIN Plan(cur[r])
    /\ at[r] \in {"acquire", "ready", "check"} => leg[r] = 1

\* The legs behind the relay are recorded, the one in hand is on the ledger.
LegsBehind(r) ==
    /\ at[r] = "step" => <<cur[r][1], Plan(cur[r])[leg[r]]>> \in xfer
    /\ at[r] \in {"leg", "step"} =>
          \A i \in DOMAIN Plan(cur[r]) : i < leg[r] => <<cur[r][1], Plan(cur[r])[i]>> \in steps
    /\ at[r] = "mark" => LegsOf(cur[r]) \subseteq steps

\* What custody and the void rely on between the guard and the effect.
GuardHolds(r) ==
    /\ InCustody(r) => Created(cur[r][1], "reserve") /\ ~Created(cur[r][1], "void_fail")
    /\ at[r] = "submit_again" => bcast[cur[r][1]] # 0
    /\ at[r] \in {"submit_fresh", "discard"} =>
          /\ bcast[cur[r][1]] = signs[cur[r][1]] /\ bcast[cur[r][1]] # 0
          /\ chain[cur[r][1]][signs[cur[r][1]]] = "none"
    /\ at[r] = "mark" /\ cur[r][2] = "dispatched" => Sent(cur[r][1])
    /\ at[r] \in {"leg", "step"} /\ cur[r][2] = "failed" => bcast[cur[r][1]] = 0

WInv(w) == RowsMatch(w) /\ LedgerMatches(w) /\ StoredOnly(w)
RInv(r) == InHand(r) /\ LegsBehind(r) /\ GuardHolds(r)
EInv(e) == st[e] = "dispatched" => LegsOf(e) \subseteq steps

\* The inductive invariant.
IInv ==
    /\ Types /\ OneDrainer /\ steps \subseteq xfer
    /\ \A w \in Withdrawals : WInv(w)
    /\ \A r \in Relays : RInv(r)
    /\ \A e \in Events : EInv(e)

-----------------------------------------------------------------------------
\* What Plan says, kind by kind.
LEMMA PlanFacts ==
    ASSUME NEW e \in Events
    PROVE  /\ e[1] \in Withdrawals /\ e[2] \in Kinds
           /\ e[2] = "requested" => Plan(e) = <<"reserve">>
           /\ e[2] = "dispatched" => Plan(e) = <<>>
           /\ e[2] = "settled" => \/ Plan(e) = <<"settle", "disburse">>
                                 \/ Plan(e) = <<"settle", "disburse", "fee">>
           /\ e[2] = "failed" => Plan(e) = <<"void_fail">>
           /\ e[2] = "cancelled" => Plan(e) = <<"void_cancel">>
<1>1. e[1] \in Withdrawals /\ e[2] \in Kinds
  BY DEF Events
<1>2. CASE e[2] = "requested"
  BY <1>1, <1>2 DEF Plan
<1>3. CASE e[2] = "dispatched"
  BY <1>1, <1>3 DEF Plan
<1>4. CASE e[2] = "settled"
  BY <1>1, <1>4 DEF Plan
<1>5. CASE e[2] = "failed"
  BY <1>1, <1>5 DEF Plan
<1>6. CASE e[2] = "cancelled"
  BY <1>1, <1>6 DEF Plan
<1> QED
  BY <1>1, <1>2, <1>3, <1>4, <1>5, <1>6 DEF Kinds

LEMMA RowFacts ==
    ASSUME NEW w \in Withdrawals
    PROVE  /\ <<w, "requested">> \in Events /\ <<w, "dispatched">> \in Events
           /\ <<w, "settled">> \in Events /\ <<w, "failed">> \in Events
           /\ <<w, "cancelled">> \in Events
  BY DEF Events, Kinds

\* A leg that exists is one of the plan's, and there are at most three.
LEMMA PlanLegs ==
    ASSUME NEW e \in Events
    PROVE  /\ Len(Plan(e)) \in 0..3
           /\ DOMAIN Plan(e) = 1..Len(Plan(e))
           /\ \A i \in DOMAIN Plan(e) : Plan(e)[i] \in Legs
           /\ e[2] # "dispatched" => Len(Plan(e)) >= 1
<1> DEFINE Fits(p) == /\ Len(p) \in 0..3
                      /\ DOMAIN p = 1..Len(p)
                      /\ \A i \in DOMAIN p : p[i] \in Legs
<1>1. /\ Fits(<<"reserve">>) /\ Fits(<<"void_fail">>) /\ Fits(<<"void_cancel">>)
      /\ Len(<<"reserve">>) = 1 /\ Len(<<"void_fail">>) = 1 /\ Len(<<"void_cancel">>) = 1
  BY DEF Legs
<1>2. Fits(<<>>)
  OBVIOUS
<1>3. Fits(<<"settle", "disburse">>) /\ Len(<<"settle", "disburse">>) = 2
  BY DEF Legs
<1>4. Fits(<<"settle", "disburse", "fee">>) /\ Len(<<"settle", "disburse", "fee">>) = 3
  BY DEF Legs
<1> HIDE DEF Fits
<1>5. Fits(Plan(e)) /\ (e[2] # "dispatched" => Len(Plan(e)) >= 1)
  <2>1. CASE e[2] \in {"requested", "failed", "cancelled"}
    <3>1. Plan(e) \in {<<"reserve">>, <<"void_fail">>, <<"void_cancel">>}
      BY <2>1, PlanFacts
    <3> QED
      BY <3>1, <1>1
  <2>2. CASE e[2] = "dispatched"
    BY <2>2, <1>2, PlanFacts
  <2>3. CASE e[2] = "settled"
    <3>1. Plan(e) \in {<<"settle", "disburse">>, <<"settle", "disburse", "fee">>}
      BY <2>3, PlanFacts
    <3> QED
      BY <3>1, <1>3, <1>4
  <2> QED
    BY <2>1, <2>2, <2>3, PlanFacts DEF Kinds
<1> QED
  BY <1>5 DEF Fits

LEMMA InitIInv == Init => IInv
<1> SUFFICES ASSUME Init PROVE IInv
  OBVIOUS
<1> USE FundsAssumption, BoundsAssumption DEF Init
<1>1. Types
  BY DEF Types, Labels, States
<1>2. OneDrainer /\ steps \subseteq xfer
  BY DEF OneDrainer
<1>3. ASSUME NEW w \in Withdrawals PROVE WInv(w)
  BY RowFacts DEF WInv, RowsMatch, LedgerMatches, StoredOnly, Created
<1>4. ASSUME NEW r \in Relays PROVE RInv(r)
  BY DEF RInv, InHand, LegsBehind, GuardHolds, Working, InCustody
<1>5. ASSUME NEW e \in Events PROVE EInv(e)
  BY DEF EInv
<1> QED
  BY <1>1, <1>2, <1>3, <1>4, <1>5 DEF IInv

-----------------------------------------------------------------------------
\* What the invariant says of a withdrawal, a relay or a row looks only at:
LEMMA WFrame ==
    ASSUME IInv, NEW w \in Withdrawals,
           UNCHANGED <<wstate, xfer, signs, bcast, chain>>,
           \A e \in Events : /\ st'[e] = "absent" <=> st[e] = "absent"
                             /\ st'[e] = "dispatched" => st[e] = "dispatched"
    PROVE  WInv(w)'
<1>1. WInv(w)
  BY DEF IInv
<1> QED
  BY <1>1, RowFacts DEF WInv, RowsMatch, LedgerMatches, StoredOnly, Created, Paid, Sent

LEMMA RFrame ==
    ASSUME IInv, NEW r \in Relays,
           UNCHANGED <<steps, xfer, signs, bcast, chain, at, cur, leg, batch>>,
           \A e \in Events : st[e] # "absent" => st'[e] # "absent"
    PROVE  RInv(r)'
<1>1. RInv(r) /\ batch[r] \subseteq Events
  BY DEF IInv, Types
<1> QED
  BY <1>1 DEF RInv, InHand, LegsBehind, GuardHolds, Working, InCustody, Created, Sent, LegsOf

LEMMA EFrame ==
    ASSUME IInv, NEW e \in Events,
           st'[e] = "dispatched" => st[e] = "dispatched", steps \subseteq steps'
    PROVE  EInv(e)'
<1>1. EInv(e)
  BY DEF IInv
<1> QED
  BY <1>1 DEF EInv, LegsOf

-----------------------------------------------------------------------------
(***************************************************************************)
(* Commands and the environment.                                           *)
(***************************************************************************)
\* Everything but the types ignores deposits, sweeps and other flows' debits.
LEMMA MoneyInInv ==
    ASSUME IInv,
           \/ \E u \in Users, n \in Networks : Deposit(u, n)
           \/ \E n \in Networks : Sweep(n)
           \/ \E u \in Users : ForeignDebit(u)
    PROVE  IInv'
<1>1. /\ UNCHANGED <<wstate, outbox, st, attempts, compensated, steps, xfer>>
      /\ UNCHANGED <<signs, bcast, chain, lock, at, cur, leg, batch>>
  BY DEF Deposit, Sweep, ForeignDebit, rowVars, sendVars, relayVars, tbVars
<1>2. /\ funded' \in [Users -> [Networks -> Nat]]
      /\ spent' \in [Users -> Nat]
      /\ swept' \in [Networks -> Nat]
  <2> USE FundsAssumption DEF IInv, Types, tbVars
  <2>1. ASSUME NEW u \in Users, NEW n \in Networks, Deposit(u, n)
        PROVE  /\ funded' \in [Users -> [Networks -> Nat]] /\ UNCHANGED <<spent, swept>>
    <3>1. /\ funded' = [funded EXCEPT ![u][n] = @ + DepositAmount]
          /\ UNCHANGED <<spent, swept>>
      BY <2>1 DEF Deposit
    <3> QED
      BY <3>1
  <2>2. ASSUME NEW n \in Networks, Sweep(n)
        PROVE  swept' \in [Networks -> Nat] /\ UNCHANGED <<funded, spent>>
    <3>1. swept' = [swept EXCEPT ![n] = @ + DepositAmount] /\ UNCHANGED <<funded, spent>>
      BY <2>2 DEF Sweep
    <3> QED
      BY <3>1
  <2>3. ASSUME NEW u \in Users, ForeignDebit(u)
        PROVE  spent' \in [Users -> Nat] /\ UNCHANGED <<funded, swept>>
    <3>1. spent' = [spent EXCEPT ![u] = @ + 1] /\ UNCHANGED <<funded, swept>>
      BY <2>3 DEF ForeignDebit
    <3> QED
      BY <3>1
  <2> QED
    BY <2>1, <2>2, <2>3
<1>3. Types'
  BY <1>1, <1>2 DEF IInv, Types
<1>4. OneDrainer' /\ (steps \subseteq xfer)'
  BY <1>1 DEF IInv, OneDrainer
<1>5. ASSUME NEW w \in Withdrawals PROVE WInv(w)'
  BY <1>1, WFrame
<1>6. ASSUME NEW r \in Relays PROVE RInv(r)'
  BY <1>1, RFrame
<1>7. ASSUME NEW e \in Events PROVE EInv(e)'
  BY <1>1, EFrame
<1> QED
  BY <1>3, <1>4, <1>5, <1>6, <1>7 DEF IInv

\* A command moves its row forward and drains only rows that fit the new state.
LEMMA TransitionInv ==
    ASSUME IInv, NEW w \in Withdrawals, NEW from, NEW to, NEW events \in Seq(Events),
           Transition(w, from, to, events),
           from \in {"none", "queued", "processing"},
           to \in {"queued", "processing", "completed", "failed", "cancelled"},
           from = "processing" => to \in {"completed", "failed"},
           to = "completed" => Paid(w),
           \A i \in DOMAIN events :
              /\ events[i][1] = w
              /\ events[i][2] = "dispatched" => to = "processing"
              /\ events[i][2] = "settled" => to = "completed"
              /\ events[i][2] = "failed" => to = "failed"
              /\ events[i][2] = "cancelled" => to = "cancelled"
    PROVE  IInv'
<1>1. /\ wstate' = [wstate EXCEPT ![w] = to] /\ wstate[w] = from
      /\ UNCHANGED <<steps, xfer, funded, spent, signs, bcast, chain>>
      /\ UNCHANGED <<swept, lock, at, cur, leg, batch>>
  BY DEF Transition, sendVars, relayVars, tbVars
<1>2. \A e \in Events : /\ st[e] # "absent" => st'[e] # "absent"
                        /\ st'[e] = "dispatched" => st[e] = "dispatched"
                        /\ e[1] # w => st'[e] = st[e]
  BY DEF Transition, Drain, IInv, Types
<1>3. /\ st'[<<w, "dispatched">>] # st[<<w, "dispatched">>] => to = "processing"
      /\ st'[<<w, "settled">>] # st[<<w, "settled">>] => to = "completed"
      /\ st'[<<w, "failed">>] # st[<<w, "failed">>] => to = "failed"
      /\ st'[<<w, "cancelled">>] # st[<<w, "cancelled">>] => to = "cancelled"
  <2>1. \A e \in Events : st'[e] # st[e] => \E i \in DOMAIN events : events[i] = e
    BY DEF Transition, Drain
  <2>2. \A e \in Events : st'[e] # st[e] =>
          /\ e[2] = "dispatched" => to = "processing"
          /\ e[2] = "settled" => to = "completed"
          /\ e[2] = "failed" => to = "failed"
          /\ e[2] = "cancelled" => to = "cancelled"
    BY <2>1
  <2> QED
    BY <2>2, RowFacts
<1>4. Types'
  BY DEF Transition, Drain, sendVars, relayVars, tbVars, IInv, Types, States
<1>5. OneDrainer' /\ (steps \subseteq xfer)'
  BY <1>1 DEF IInv, OneDrainer
<1>6. ASSUME NEW v \in Withdrawals PROVE WInv(v)'
  <2>1. WInv(v) /\ wstate \in [Withdrawals -> States]
    BY DEF IInv, Types
  <2>2. RowsMatch(v)'
    <3>1. CASE v = w
      BY <2>1, <3>1, <1>1, <1>3 DEF WInv, RowsMatch
    <3>2. CASE v # w
      BY <2>1, <3>2, <1>1, <1>2, RowFacts DEF WInv, RowsMatch
    <3> QED
      BY <3>1, <3>2
  <2>3. LedgerMatches(v)'
    BY <2>1, <1>1 DEF WInv, LedgerMatches, Created, Paid
  <2>4. StoredOnly(v)'
    BY <2>1, <1>1, <1>2, RowFacts DEF WInv, StoredOnly, Created, Sent
  <2> QED
    BY <2>2, <2>3, <2>4 DEF WInv
<1>7. ASSUME NEW r \in Relays PROVE RInv(r)'
  BY <1>1, <1>2, RFrame
<1>8. ASSUME NEW e \in Events PROVE EInv(e)'
  BY <1>1, <1>2, EFrame
<1> QED
  BY <1>4, <1>5, <1>6, <1>7, <1>8 DEF IInv

LEMMA CommandInv ==
    ASSUME IInv, NEW w \in Withdrawals, Command(w)
    PROVE  IInv'
<1>1. /\ << <<w, "requested">> >> \in Seq(Events)
      /\ << <<w, "requested">>, <<w, "dispatched">> >> \in Seq(Events)
      /\ << <<w, "dispatched">> >> \in Seq(Events)
      /\ << <<w, "settled">> >> \in Seq(Events)
      /\ << <<w, "failed">> >> \in Seq(Events)
      /\ << <<w, "cancelled">> >> \in Seq(Events)
  BY RowFacts
<1>2. CASE OpenQueued(w)
  BY <1>1, <1>2, TransitionInv DEF OpenQueued
<1>3. CASE OpenDispatched(w)
  <2> DEFINE rows == << <<w, "requested">>, <<w, "dispatched">> >>
  <2>1. Transition(w, "none", "processing", rows) /\ rows \in Seq(Events)
    BY <1>1, <1>3 DEF OpenDispatched
  <2>2. \A i \in DOMAIN rows : rows[i][1] = w /\ rows[i][2] \in {"requested", "dispatched"}
    OBVIOUS
  <2> HIDE DEF rows
  <2> QED
    BY <2>1, <2>2, TransitionInv
<1>4. CASE SweepDispatch(w) \/ OperatorDispatch(w)
  BY <1>1, <1>4, TransitionInv DEF SweepDispatch, OperatorDispatch
<1>5. CASE Cancel(w)
  BY <1>1, <1>5, TransitionInv DEF Cancel
<1>6. CASE WatcherSettle(w) \/ OperatorSettle(w)
  <2>1. Paid(w)
    BY <1>6, BoundsAssumption DEF WatcherSettle, OperatorSettle, Paid, IInv, Types, Signed
  <2> QED
    BY <1>1, <1>6, <2>1, TransitionInv DEF WatcherSettle, OperatorSettle
<1>7. CASE Fail(w)
  BY <1>1, <1>7, TransitionInv DEF Fail
<1> QED
  BY <1>2, <1>3, <1>4, <1>5, <1>6, <1>7 DEF Command

\* Unparking only turns a parked row queued again.
LEMMA UnparkInv ==
    ASSUME IInv, NEW e \in Events, Unpark(e)
    PROVE  IInv'
<1>1. /\ st' = [st EXCEPT ![e] = "queued"] /\ st[e] = "parked"
      /\ attempts' = [attempts EXCEPT ![e] = 0]
      /\ UNCHANGED <<wstate, outbox, compensated, steps, xfer, funded, spent>>
      /\ UNCHANGED <<signs, bcast, chain, swept, lock, at, cur, leg, batch>>
  BY DEF Unpark, sendVars, relayVars, tbVars
<1>2. Types'
  BY <1>1, BoundsAssumption DEF IInv, Types
<1>3. \A f \in Events : /\ st'[f] = "absent" <=> st[f] = "absent"
                        /\ st'[f] = "dispatched" <=> st[f] = "dispatched"
  BY <1>1 DEF IInv, Types
<1>4. OneDrainer' /\ (steps \subseteq xfer)'
  BY <1>1 DEF IInv, OneDrainer
<1>5. ASSUME NEW w \in Withdrawals PROVE WInv(w)'
  BY <1>1, <1>3, WFrame
<1>6. ASSUME NEW r \in Relays PROVE RInv(r)'
  BY <1>1, <1>3, RFrame
<1>7. ASSUME NEW f \in Events PROVE EInv(f)'
  BY <1>1, <1>3, EFrame
<1> QED
  BY <1>2, <1>4, <1>5, <1>6, <1>7 DEF IInv

\* The chain moves only what was sent, and never takes a mined transfer back.
LEMMA ChainInv ==
    ASSUME IInv, NEW w \in Withdrawals, NEW k \in Signed, ChainMove(w, k)
    PROVE  IInv'
<1>1. PICK from \in {"mempool", "evicted"}, to \in {"mined", "reverted", "evicted", "mempool"} :
        ChainStep(w, k, from, to)
  BY DEF ChainMove, Mine, Revert, Evict, Resurface
<1>2. /\ chain' = [chain EXCEPT ![w][k] = to] /\ chain[w][k] = from
      /\ UNCHANGED <<wstate, outbox, st, attempts, compensated, steps, xfer, funded, spent>>
      /\ UNCHANGED <<signs, bcast, swept, lock, at, cur, leg, batch>>
  BY <1>1 DEF ChainStep, rowVars, relayVars, tbVars
<1>3. Types'
  BY <1>2 DEF IInv, Types
<1>4. \A v \in Withdrawals : \A j \in Signed :
        /\ chain'[v][j] = "none" <=> chain[v][j] = "none"
        /\ chain[v][j] = "mined" => chain'[v][j] = "mined"
  BY <1>2 DEF IInv, Types
<1>5. OneDrainer' /\ (steps \subseteq xfer)'
  BY <1>2 DEF IInv, OneDrainer
<1>6. ASSUME NEW v \in Withdrawals PROVE WInv(v)'
  <2>1. WInv(v)
    BY DEF IInv
  <2> QED
    BY <2>1, <1>2, <1>4 DEF WInv, RowsMatch, LedgerMatches, StoredOnly, Created, Paid, Sent
<1>7. ASSUME NEW r \in Relays PROVE RInv(r)'
  <2>1. RInv(r) /\ Types
    BY DEF IInv
  <2>2. UNCHANGED <<st, steps, xfer, signs, bcast, at, cur, leg, batch>>
    BY <1>2
  <2>3. InHand(r)' /\ LegsBehind(r)'
    BY <2>1, <2>2 DEF RInv, InHand, LegsBehind, Working, InCustody, LegsOf
  <2>4. Working(r) => cur[r][1] \in Withdrawals
    BY <2>1, PlanFacts DEF RInv, InHand
  <2>5. at[r] \in {"submit_fresh", "discard"} => signs[cur[r][1]] \in Signed
    BY <2>1, <2>4, BoundsAssumption DEF RInv, GuardHolds, Types, Signed, Working
  <2>6. at[r] \in {"submit_fresh", "discard"} => chain'[cur[r][1]][signs[cur[r][1]]] = "none"
    BY <2>1, <2>4, <2>5, <1>4 DEF RInv, GuardHolds, Working
  <2>7. at[r] = "mark" /\ cur[r][2] = "dispatched" => Sent(cur[r][1])'
    BY <2>1, <2>2, <2>4, <1>4 DEF RInv, GuardHolds, Working, Sent
  <2>8. GuardHolds(r)'
    BY <2>1, <2>2, <2>6, <2>7 DEF RInv, GuardHolds, InCustody, Created
  <2> QED
    BY <2>3, <2>8 DEF RInv
<1>8. ASSUME NEW e \in Events PROVE EInv(e)'
  BY <1>2, EFrame
<1> QED
  BY <1>3, <1>5, <1>6, <1>7, <1>8 DEF IInv

-----------------------------------------------------------------------------
(***************************************************************************)
(* The relay.  Under OneDrainer every relay but the one that moves waits   *)
(* for the lock, so a step is about the moving relay, the withdrawals and  *)
(* the rows.                                                               *)
(***************************************************************************)
Others(r) == \A q \in Relays \ {r} : at'[q] = at[q] /\ batch'[q] = batch[q] /\ leg'[q] = leg[q]

LEMMA RelayFrame ==
    ASSUME IInv, NEW r \in Relays, at[r] # "acquire", Others(r),
           Types', (steps \subseteq xfer)', at'[r] # "acquire" => UNCHANGED lock,
           \A w \in Withdrawals : WInv(w)', RInv(r)', \A e \in Events : EInv(e)'
    PROVE  IInv'
<1>1. lock = {r}
  BY DEF IInv, OneDrainer
<1>2. ASSUME NEW q \in Relays \ {r} PROVE at'[q] = "acquire" /\ batch'[q] = {} /\ leg'[q] = 1
  <2>1. at[q] = "acquire"
    BY <1>1 DEF IInv, OneDrainer
  <2>2. RInv(q)
    BY DEF IInv
  <2> QED
    BY <2>1, <2>2 DEF Others, RInv, InHand
<1>3. OneDrainer'
  BY <1>1, <1>2 DEF OneDrainer
<1>4. ASSUME NEW q \in Relays \ {r} PROVE RInv(q)'
  BY <1>2 DEF RInv, InHand, LegsBehind, GuardHolds, Working, InCustody
<1> QED
  BY <1>3, <1>4 DEF IInv

\* A step that leaves the saga's state alone and only moves the relay.
LEMMA QuietRelay ==
    ASSUME IInv, NEW r \in Relays, at[r] # "acquire", Others(r), Types',
           at'[r] # "acquire" => UNCHANGED lock,
           UNCHANGED <<wstate, st, steps, xfer, signs, bcast, chain>>, RInv(r)'
    PROVE  IInv'
<1>1. (steps \subseteq xfer)'
  BY DEF IInv
<1>2. ASSUME NEW w \in Withdrawals PROVE WInv(w)'
  BY WFrame
<1>3. ASSUME NEW e \in Events PROVE EInv(e)'
  BY EFrame
<1> QED
  BY <1>1, <1>2, <1>3, RelayFrame

\* What the relay's jumps do to its own variables.
RelayTypes ==
    /\ at \in [Relays -> Labels]
    /\ cur \in [Relays -> Events \cup {NoEvent}]
    /\ leg \in [Relays -> 1..3]
    /\ batch \in [Relays -> SUBSET Events]

LEMMA GotoFacts ==
    ASSUME Types, NEW r \in Relays, NEW label \in Labels, Goto(r, label)
    PROVE  /\ at' \in [Relays -> Labels] /\ at'[r] = label
           /\ \A q \in Relays \ {r} : at'[q] = at[q]
  BY DEF Types, Goto

LEMMA RestFacts ==
    ASSUME Types, NEW r \in Relays, NEW label \in Labels, Rest(r, label)
    PROVE  /\ RelayTypes' /\ Others(r)
           /\ at'[r] = label /\ leg'[r] = 1 /\ batch'[r] = {}
  BY DEF Types, Rest, Goto, RelayTypes, Others

LEMMA NextRowFacts ==
    ASSUME Types, NEW r \in Relays, NextRow(r)
    PROVE  /\ RelayTypes' /\ Others(r)
           /\ at'[r] = "ready" /\ leg'[r] = 1 /\ batch'[r] \subseteq batch[r]
  BY DEF Types, NextRow, Goto, RelayTypes, Others, Labels

\* A relay that rests or waits for its next row keeps every promise.
LEMMA IdleRelay ==
    ASSUME NEW r \in Relays, at[r] \in {"acquire", "ready"}, leg[r] = 1,
           at[r] = "acquire" => batch[r] = {}, \A e \in batch[r] : st[e] # "absent"
    PROVE  RInv(r)
  BY DEF RInv, InHand, LegsBehind, GuardHolds, Working, InCustody

LEMMA BumpFacts ==
    ASSUME Types, NEW e \in Events, Bump(e) \/ Counted(e)
    PROVE  attempts' \in [Events -> 0..MaxAttempts]
<1>1. CASE Bump(e)
  BY <1>1, BoundsAssumption DEF Types, Bump
<1>2. CASE UNCHANGED attempts
  BY <1>2 DEF Types
<1> QED
  BY <1>1, <1>2 DEF Counted

LEMMA AcquireInv ==
    ASSUME IInv, NEW r \in Relays, AcquireLock(r)
    PROVE  IInv'
<1>1. /\ at[r] = "acquire" /\ lock = {} /\ lock' = {r} /\ Goto(r, "ready")
      /\ UNCHANGED <<wstate, outbox, st, attempts, compensated, steps, xfer, funded, spent>>
      /\ UNCHANGED <<signs, bcast, chain, swept, cur, leg, batch>>
  BY DEF AcquireLock, rowVars, tbVars, sendVars
<1>2. /\ Types /\ at' \in [Relays -> Labels] /\ at'[r] = "ready"
      /\ \A q \in Relays \ {r} : at'[q] = at[q]
  BY <1>1, GotoFacts DEF IInv, Labels
<1>3. Types'
  BY <1>1, <1>2 DEF Types
<1>4. \A q \in Relays : at[q] = "acquire"
  BY <1>1 DEF IInv, OneDrainer
<1>5. OneDrainer' /\ (steps \subseteq xfer)'
  BY <1>1, <1>2, <1>4 DEF IInv, OneDrainer
<1>6. ASSUME NEW w \in Withdrawals PROVE WInv(w)'
  BY <1>1, WFrame
<1>7. ASSUME NEW q \in Relays PROVE RInv(q)'
  <2>1. RInv(q)
    BY DEF IInv
  <2>2. batch'[q] = {} /\ leg'[q] = 1 /\ at'[q] \in {"acquire", "ready"}
    BY <2>1, <1>1, <1>2, <1>4 DEF RInv, InHand
  <2> QED
    BY <2>2 DEF RInv, InHand, LegsBehind, GuardHolds, Working, InCustody
<1>8. ASSUME NEW e \in Events PROVE EInv(e)'
  BY <1>1, EFrame
<1> QED
  BY <1>3, <1>5, <1>6, <1>7, <1>8 DEF IInv

LEMMA NextBatchInv ==
    ASSUME IInv, NEW r \in Relays, NextBatch(r)
    PROVE  IInv'
<1>1. /\ at[r] = "ready"
      /\ batch' = [batch EXCEPT ![r] = {e \in Events : st[e] = "queued"}]
      /\ UNCHANGED <<wstate, outbox, st, attempts, compensated, steps, xfer, funded, spent>>
      /\ UNCHANGED <<signs, bcast, chain, swept, lock, at, cur, leg>>
  BY DEF NextBatch, rowVars, tbVars, sendVars
<1>2. Types' /\ Others(r)
  BY <1>1 DEF IInv, Types, Others
<1>3. \A e \in batch'[r] : st'[e] # "absent"
  BY <1>1 DEF IInv, Types
<1>4. RInv(r)
  BY DEF IInv
<1>5. RInv(r)'
  BY <1>1, <1>3, <1>4 DEF RInv, InHand, LegsBehind, GuardHolds, Working, InCustody
<1> QED
  BY <1>1, <1>2, <1>5, QuietRelay

LEMMA TakeRowInv ==
    ASSUME IInv, NEW r \in Relays, NEW e \in Events, TakeRow(r, e)
    PROVE  IInv'
<1> DEFINE label == IF e[2] \in {"requested", "cancelled"} THEN "leg" ELSE "check"
<1>1. /\ at[r] = "ready" /\ e \in batch[r] /\ Goto(r, label)
      /\ cur' = [cur EXCEPT ![r] = e]
      /\ UNCHANGED <<wstate, outbox, st, attempts, compensated, steps, xfer, funded, spent>>
      /\ UNCHANGED <<signs, bcast, chain, swept, lock, leg, batch>>
  BY DEF TakeRow, rowVars, tbVars, sendVars
<1>2. /\ Types /\ at' \in [Relays -> Labels] /\ at'[r] = label
      /\ \A q \in Relays \ {r} : at'[q] = at[q]
  BY <1>1, GotoFacts DEF IInv, Labels
<1>3. Types' /\ Others(r) /\ cur'[r] = e
  BY <1>1, <1>2 DEF Types, Others
<1>4. RInv(r) /\ leg[r] = 1
  BY <1>1 DEF IInv, RInv, InHand
<1>5. e[2] \in Kinds /\ (e[2] # "dispatched" => 1 \in DOMAIN Plan(e))
  BY PlanFacts, PlanLegs
<1>6. InHand(r)'
  BY <1>1, <1>2, <1>3, <1>4, <1>5 DEF RInv, InHand, Working, InCustody, Kinds
<1>7. LegsBehind(r)' /\ GuardHolds(r)'
  <2>1. leg'[r] = 1 /\ at'[r] \in {"leg", "check"} /\ (at'[r] = "leg" => cur'[r][2] # "failed")
    BY <1>1, <1>2, <1>3, <1>4
  <2>2. \A i \in DOMAIN Plan(e) : ~(i < 1)
    BY PlanLegs
  <2> QED
    BY <2>1, <2>2, <1>3 DEF LegsBehind, GuardHolds, InCustody
<1> QED
  BY <1>1, <1>3, <1>6, <1>7, QuietRelay DEF RInv

\* The lock cannot be lost under OneDrainer.
LEMMA LostLockInv ==
    ASSUME IInv, NEW r \in Relays, LostLock(r)
    PROVE  IInv'
  BY DEF IInv, OneDrainer, LostLock

\* The guards establish what the custody call and the void rely on.
LEMMA CheckInv ==
    ASSUME IInv, NEW r \in Relays, Check(r)
    PROVE  IInv'
<1> DEFINE w == cur[r][1]
           kind == cur[r][2]
<1>1. RInv(r) /\ Types /\ steps \subseteq xfer
  BY DEF IInv
<1>2. /\ at[r] = "check" /\ cur[r] \in Events /\ st[cur[r]] # "absent" /\ leg[r] = 1
      /\ kind \in {"settled", "dispatched", "failed"}
      /\ w \in Withdrawals
  BY <1>1, PlanFacts DEF Check, RInv, InHand, Working
<1>3. PICK label \in {"leg", "park", "custody"} :
        /\ Goto(r, label)
        /\ label = "custody" => kind = "dispatched" /\ MayBroadcast(w)
        /\ label = "leg" => kind # "dispatched"
        /\ label = "leg" /\ kind = "failed" => MayVoid(w)
  BY <1>2 DEF Check
<1>4. /\ UNCHANGED <<wstate, outbox, st, attempts, compensated, steps, xfer, funded, spent>>
      /\ UNCHANGED <<signs, bcast, chain, swept, lock, cur, leg, batch>>
  BY DEF Check, rowVars, tbVars, sendVars
<1>5. /\ at' \in [Relays -> Labels] /\ at'[r] = label
      /\ \A q \in Relays \ {r} : at'[q] = at[q]
  BY <1>1, <1>3, GotoFacts DEF Labels
<1>6. Types' /\ Others(r)
  BY <1>1, <1>4, <1>5 DEF Types, Others
<1>7. /\ kind # "dispatched" => 1 \in DOMAIN Plan(cur[r])
      /\ \A i \in DOMAIN Plan(cur[r]) : ~(i < 1)
  BY <1>2, PlanLegs
<1>8. InHand(r)' /\ LegsBehind(r)'
  BY <1>1, <1>2, <1>3, <1>4, <1>5, <1>7 DEF RInv, InHand, LegsBehind, Working, InCustody
<1>9. label = "custody" => Created(w, "reserve") /\ ~Created(w, "void_fail")
  BY <1>1, <1>2, <1>3 DEF MayBroadcast, Created, IInv, WInv, LedgerMatches
<1>10. GuardHolds(r)'
  BY <1>3, <1>4, <1>5, <1>9 DEF GuardHolds, MayVoid, InCustody, Created
<1> QED
  BY <1>2, <1>4, <1>6, <1>8, <1>10, QuietRelay DEF RInv

\* A leg answered "exists" is on the ledger, or the pending is resolved.
LEMMA AnswerExists ==
    ASSUME NEW w \in Withdrawals, NEW l \in Legs, Answer(w, l) = "exists"
    PROVE  \/ Created(w, l)
           \/ l \in {"settle", "void_fail", "void_cancel"} /\ Resolved(w)
  BY DEF Answer, Legs

\* The leg in hand belongs to a row, and so to a state of its withdrawal.
LEMMA LegInHand ==
    ASSUME IInv, NEW r \in Relays, at[r] \in {"leg", "step"}
    PROVE  /\ cur[r] \in Events /\ cur[r][1] \in Withdrawals
           /\ leg[r] \in DOMAIN Plan(cur[r])
           /\ Plan(cur[r])[leg[r]] \in Legs
           /\ Plan(cur[r])[leg[r]] = "settle" => wstate[cur[r][1]] = "completed"
           /\ Plan(cur[r])[leg[r]] = "void_cancel" => wstate[cur[r][1]] = "cancelled"
           /\ Plan(cur[r])[leg[r]] = "void_fail" =>
                 wstate[cur[r][1]] = "failed" /\ bcast[cur[r][1]] = 0
<1> DEFINE w == cur[r][1]
           l == Plan(cur[r])[leg[r]]
<1>1. RInv(r)
  BY DEF IInv
<1>2. /\ cur[r] \in Events /\ st[cur[r]] # "absent" /\ cur[r][2] # "dispatched"
      /\ leg[r] \in DOMAIN Plan(cur[r])
  BY <1>1 DEF RInv, InHand, Working
<1>3. w \in Withdrawals /\ cur[r] = <<w, cur[r][2]>> /\ cur[r][2] \in Kinds
  BY <1>2 DEF Events
<1>4. l \in Legs
  BY <1>2, PlanLegs
<1>5. /\ l = "settle" => cur[r][2] = "settled"
      /\ l = "void_cancel" => cur[r][2] = "cancelled"
      /\ l = "void_fail" => cur[r][2] = "failed"
  BY <1>2, <1>3, PlanFacts DEF Kinds
<1>6. RowsMatch(w)
  BY <1>3 DEF IInv, WInv
<1>7. l = "void_fail" => bcast[w] = 0
  BY <1>1, <1>5 DEF RInv, GuardHolds
<1> QED
  BY <1>2, <1>3, <1>4, <1>5, <1>6, <1>7 DEF RowsMatch

LEMMA LegTakenInv ==
    ASSUME IInv, NEW r \in Relays, LegTaken(r)
    PROVE  IInv'
<1> DEFINE w == cur[r][1]
           l == Plan(cur[r])[leg[r]]
<1>1. /\ at[r] = "leg" /\ Goto(r, "step") /\ Answer(w, l) \in {"created", "exists"}
      /\ xfer' = IF Answer(w, l) = "created" THEN xfer \cup {<<w, l>>} ELSE xfer
      /\ UNCHANGED <<wstate, outbox, st, attempts, compensated, steps, funded, spent>>
      /\ UNCHANGED <<signs, bcast, chain, swept, lock, cur, leg, batch>>
  BY DEF LegTaken, rowVars, sendVars
<1>2. /\ cur[r] \in Events /\ w \in Withdrawals /\ l \in Legs /\ leg[r] \in DOMAIN Plan(cur[r])
      /\ l = "settle" => wstate[w] = "completed"
      /\ l = "void_cancel" => wstate[w] = "cancelled"
      /\ l = "void_fail" => wstate[w] = "failed" /\ bcast[w] = 0
  BY <1>1, LegInHand
<1>3. /\ Types /\ RInv(r) /\ \A v \in Withdrawals : WInv(v)
  BY DEF IInv
<1> HIDE DEF l
<1>4. xfer' = xfer \cup {<<w, l>>}
  <2>1. CASE Answer(w, l) = "created"
    BY <2>1, <1>1
  <2>2. CASE Answer(w, l) = "exists"
    <3>1. LedgerMatches(w)
      BY <1>2, <1>3 DEF WInv
    <3>2. Created(w, l)
      BY <2>2, <3>1, <1>2, AnswerExists DEF Resolved, Voided, LedgerMatches
    <3> QED
      BY <2>2, <3>2, <1>1 DEF Created
  <2> QED
    BY <1>1, <2>1, <2>2
<1>5. /\ at' \in [Relays -> Labels] /\ at'[r] = "step"
      /\ \A q \in Relays \ {r} : at'[q] = at[q]
  BY <1>1, <1>3, GotoFacts DEF Labels
<1>6. Types' /\ Others(r) /\ (steps \subseteq xfer)'
  BY <1>1, <1>2, <1>3, <1>4, <1>5 DEF IInv, Types, Others
<1>7. ASSUME NEW v \in Withdrawals PROVE WInv(v)'
  <2>1. \A m \in Legs : Created(v, m)' <=> Created(v, m) \/ (v = w /\ m = l)
    BY <1>4 DEF Created
  <2>2. WInv(v)
    BY <1>3
  <2>3. RowsMatch(v)'
    BY <2>2, <1>1 DEF WInv, RowsMatch
  <2>4. LedgerMatches(v)'
    BY <2>1, <2>2, <1>1, <1>2 DEF WInv, LedgerMatches, Paid, Legs
  <2>5. StoredOnly(v)'
    BY <2>1, <2>2, <1>1, <1>2 DEF WInv, StoredOnly, Sent, Legs
  <2> QED
    BY <2>3, <2>4, <2>5 DEF WInv
<1>8. RInv(r)'
  <2>1. InHand(r)'
    BY <1>1, <1>3, <1>5 DEF RInv, InHand, Working, InCustody
  <2>2. LegsBehind(r)'
    BY <1>1, <1>3, <1>4, <1>5 DEF RInv, LegsBehind, l
  <2>3. GuardHolds(r)'
    BY <1>1, <1>3, <1>5 DEF RInv, GuardHolds, InCustody
  <2> QED
    BY <2>1, <2>2, <2>3 DEF RInv
<1>9. ASSUME NEW e \in Events PROVE EInv(e)'
  BY <1>1, EFrame
<1> QED
  BY <1>1, <1>6, <1>7, <1>8, <1>9, RelayFrame

\* Steps that give up on the row in hand for now: refused, not found, unavailable.
LEMMA ParkingInv ==
    ASSUME IInv, NEW r \in Relays, LegRefused(r) \/ SendRefused(r)
    PROVE  IInv'
<1>1. /\ at[r] \in {"leg", "store"} /\ Goto(r, "park")
      /\ UNCHANGED <<wstate, outbox, st, attempts, compensated, steps, xfer, funded, spent>>
      /\ UNCHANGED <<signs, bcast, chain, swept, lock, cur, leg, batch>>
  BY DEF LegRefused, SendRefused, rowVars, tbVars, sendVars
<1>2. /\ Types /\ at' \in [Relays -> Labels] /\ at'[r] = "park"
      /\ \A q \in Relays \ {r} : at'[q] = at[q]
  BY <1>1, GotoFacts DEF IInv, Labels
<1>3. Types' /\ Others(r)
  BY <1>1, <1>2 DEF Types, Others
<1>4. RInv(r)
  BY DEF IInv
<1>5. RInv(r)'
  BY <1>1, <1>2, <1>4 DEF RInv, InHand, LegsBehind, GuardHolds, Working, InCustody
<1> QED
  BY <1>1, <1>3, <1>5, QuietRelay

LEMMA LegNotFoundInv ==
    ASSUME IInv, NEW r \in Relays, LegNotFound(r)
    PROVE  IInv'
<1>1. /\ at[r] = "leg"
      /\ \/ /\ Goto(r, "park") /\ leg' = [leg EXCEPT ![r] = 1]
            /\ UNCHANGED <<attempts, cur, batch>>
         \/ Rest(r, "ready") /\ Counted(cur[r])
      /\ UNCHANGED <<wstate, outbox, st, compensated, steps, xfer, funded, spent>>
      /\ UNCHANGED <<signs, bcast, chain, swept, lock>>
  BY DEF LegNotFound, tbVars, sendVars
<1>2. Types /\ RInv(r) /\ cur[r] \in Events
  BY <1>1 DEF IInv, RInv, InHand, Working
<1>3. CASE Goto(r, "park") /\ leg' = [leg EXCEPT ![r] = 1] /\ UNCHANGED <<attempts, cur, batch>>
  <2>1. /\ at' \in [Relays -> Labels] /\ at'[r] = "park"
        /\ \A q \in Relays \ {r} : at'[q] = at[q]
    BY <1>2, <1>3, GotoFacts DEF Labels
  <2>2. Types' /\ Others(r)
    <3>1. leg' \in [Relays -> 1..3] /\ \A q \in Relays \ {r} : leg'[q] = leg[q]
      BY <1>2, <1>3 DEF Types
    <3> QED
      BY <1>1, <1>2, <1>3, <2>1, <3>1 DEF Types, Others
  <2>3. RInv(r)'
    BY <1>1, <1>2, <1>3, <2>1 DEF RInv, InHand, LegsBehind, GuardHolds, Working, InCustody
  <2> QED
    BY <1>1, <2>2, <2>3, QuietRelay
<1>4. CASE Rest(r, "ready") /\ Counted(cur[r])
  <2>1. RelayTypes' /\ Others(r) /\ at'[r] = "ready" /\ leg'[r] = 1 /\ batch'[r] = {}
    BY <1>2, <1>4, RestFacts DEF Labels
  <2>2. attempts' \in [Events -> 0..MaxAttempts]
    BY <1>2, <1>4, BumpFacts
  <2>3. Types'
    BY <1>1, <1>2, <2>1, <2>2 DEF Types, RelayTypes
  <2>4. RInv(r)'
    BY <2>1, IdleRelay DEF RInv, InHand, LegsBehind, GuardHolds, Working, InCustody
  <2> QED
    BY <1>1, <2>1, <2>3, <2>4, QuietRelay
<1> QED
  BY <1>1, <1>3, <1>4

LEMMA RecordStepInv ==
    ASSUME IInv, NEW r \in Relays, RecordStep(r)
    PROVE  IInv'
<1> DEFINE w == cur[r][1]
           p == Plan(cur[r])
<1>1. /\ at[r] = "step" /\ steps' = steps \cup {<<w, p[leg[r]]>>}
      /\ UNCHANGED <<wstate, outbox, st, attempts, compensated, xfer, funded, spent>>
      /\ UNCHANGED <<signs, bcast, chain, swept, lock, cur, batch>>
  BY DEF RecordStep, rowVars, tbVars, sendVars
<1>2. \/ leg[r] < Len(p) /\ Goto(r, "leg") /\ leg' = [leg EXCEPT ![r] = @ + 1]
      \/ ~(leg[r] < Len(p)) /\ Goto(r, "mark") /\ UNCHANGED leg
  BY DEF RecordStep
<1>3. /\ Types /\ RInv(r) /\ w \in Withdrawals /\ cur[r] \in Events /\ leg[r] \in DOMAIN p
      /\ p[leg[r]] \in Legs /\ leg[r] \in 1..3
  BY <1>1, LegInHand DEF IInv, Types
<1>4. /\ DOMAIN p = 1..Len(p) /\ Len(p) \in 0..3
  BY <1>3, PlanLegs
<1>5. /\ <<w, p[leg[r]]>> \in xfer /\ cur[r][2] # "dispatched"
      /\ \A i \in DOMAIN p : i < leg[r] => <<w, p[i]>> \in steps
  BY <1>1, <1>3 DEF RInv, LegsBehind, InHand
<1> HIDE DEF p
<1>6. \A i \in DOMAIN p : i <= leg[r] => <<w, p[i]>> \in steps'
  BY <1>1, <1>3, <1>4, <1>5
<1>7. (steps \subseteq xfer)'
  BY <1>1, <1>5 DEF IInv
<1>8. ASSUME NEW v \in Withdrawals PROVE WInv(v)'
  BY <1>1, WFrame
<1>9. ASSUME NEW e \in Events PROVE EInv(e)'
  BY <1>1, EFrame
<1>10. CASE leg[r] < Len(p) /\ Goto(r, "leg") /\ leg' = [leg EXCEPT ![r] = @ + 1]
  <2>1. /\ at' \in [Relays -> Labels] /\ at'[r] = "leg" /\ leg'[r] = leg[r] + 1
        /\ \A q \in Relays \ {r} : at'[q] = at[q]
    BY <1>3, <1>10, GotoFacts DEF Labels, Types
  <2>2. leg'[r] \in DOMAIN p /\ leg'[r] \in 1..3
    BY <1>3, <1>4, <1>10, <2>1
  <2>3. Types' /\ Others(r)
    <3>1. leg' \in [Relays -> 1..3] /\ \A q \in Relays \ {r} : leg'[q] = leg[q]
      BY <1>3, <1>10, <2>1, <2>2 DEF Types
    <3> QED
      BY <1>1, <1>3, <2>1, <3>1 DEF Types, Others
  <2>4. \A i \in DOMAIN p : i < leg'[r] => <<w, p[i]>> \in steps'
    BY <1>3, <1>4, <1>6, <2>1
  <2>5. InHand(r)'
    BY <1>1, <1>3, <1>5, <2>1, <2>2 DEF RInv, InHand, Working, InCustody, p
  <2>6. LegsBehind(r)'
    BY <1>1, <2>1, <2>4 DEF LegsBehind, p
  <2>7. GuardHolds(r)'
    BY <1>1, <1>3, <2>1 DEF RInv, GuardHolds, InCustody
  <2> QED
    BY <1>1, <1>7, <1>8, <1>9, <2>3, <2>5, <2>6, <2>7, RelayFrame DEF RInv
<1>11. CASE ~(leg[r] < Len(p)) /\ Goto(r, "mark") /\ UNCHANGED leg
  <2>1. /\ at' \in [Relays -> Labels] /\ at'[r] = "mark"
        /\ \A q \in Relays \ {r} : at'[q] = at[q]
    BY <1>3, <1>11, GotoFacts DEF Labels
  <2>2. Types' /\ Others(r)
    BY <1>1, <1>3, <1>11, <2>1 DEF Types, Others
  <2>3. \A i \in DOMAIN p : <<w, p[i]>> \in steps'
    BY <1>3, <1>4, <1>6, <1>11
  <2>4. LegsOf(cur[r])' \subseteq steps'
    BY <1>1, <2>3 DEF LegsOf, p
  <2>5. InHand(r)' /\ GuardHolds(r)'
    BY <1>1, <1>3, <1>5, <2>1 DEF RInv, InHand, GuardHolds, Working, InCustody
  <2>6. LegsBehind(r)'
    BY <2>1, <2>4 DEF LegsBehind, LegsOf
  <2> QED
    BY <1>1, <1>7, <1>8, <1>9, <2>2, <2>5, <2>6, RelayFrame DEF RInv
<1> QED
  BY <1>2, <1>10, <1>11

\* Any step that drops the row in hand and leaves the rows' stamps alone.
LEMMA RestInv ==
    ASSUME IInv, NEW r \in Relays, at[r] # "acquire",
           \/ Rest(r, "ready") \/ Rest(r, "acquire") \/ NextRow(r),
           at'[r] # "acquire" => UNCHANGED lock, lock' \subseteq lock,
           attempts' \in [Events -> 0..MaxAttempts], compensated' \subseteq Events,
           UNCHANGED <<wstate, outbox, st, steps, xfer, funded, spent>>,
           UNCHANGED <<signs, bcast, chain, swept>>
    PROVE  IInv'
<1>1. Types /\ RInv(r)
  BY DEF IInv
<1>2. /\ RelayTypes' /\ Others(r) /\ leg'[r] = 1 /\ batch'[r] \subseteq batch[r]
      /\ at'[r] \in {"ready", "acquire"} /\ (at'[r] = "acquire" => batch'[r] = {})
  BY <1>1, RestFacts, NextRowFacts DEF Labels
<1>3. Types'
  BY <1>1, <1>2 DEF Types, RelayTypes
<1>4. RInv(r)'
  BY <1>1, <1>2 DEF RInv, InHand, LegsBehind, GuardHolds, Working, InCustody
<1> QED
  BY <1>2, <1>3, <1>4, QuietRelay

LEMMA DropInv ==
    ASSUME IInv, NEW r \in Relays, Unavailable(r) \/ DispatchStampLost(r) \/ Crash(r)
    PROVE  IInv'
<1>1. at[r] # "acquire" /\ Types
  BY DEF Unavailable, DispatchStampLost, Crash, IInv
<1>2. CASE Unavailable(r)
  <2>1. cur[r] \in Events
    BY <1>2 DEF Unavailable, IInv, RInv, InHand, Working
  <2>2. attempts' \in [Events -> 0..MaxAttempts]
    BY <1>1, <1>2, <2>1, BumpFacts DEF Unavailable
  <2> QED
    BY <1>1, <1>2, <2>2, RestInv DEF Unavailable, tbVars, sendVars, Types
<1>3. CASE DispatchStampLost(r)
  BY <1>1, <1>3, RestInv DEF DispatchStampLost, rowVars, tbVars, sendVars, Types
<1>4. CASE Crash(r)
  <2>1. at'[r] = "acquire"
    BY <1>1, <1>4, RestFacts DEF Crash, Labels
  <2> QED
    BY <1>1, <1>4, <2>1, RestInv DEF Crash, rowVars, tbVars, sendVars, Types
<1> QED
  BY <1>2, <1>3, <1>4

\* Stamping a row whose effect is in place.
LEMMA MarkDispatchedInv ==
    ASSUME IInv, NEW r \in Relays, MarkDispatched(r)
    PROVE  IInv'
<1>1. /\ at[r] = "mark" /\ st' = [st EXCEPT ![cur[r]] = "dispatched"] /\ NextRow(r)
      /\ UNCHANGED <<wstate, outbox, attempts, compensated, steps, xfer, funded, spent>>
      /\ UNCHANGED <<signs, bcast, chain, swept, lock>>
  BY DEF MarkDispatched, tbVars, sendVars
<1>2. /\ Types /\ RInv(r) /\ steps \subseteq xfer
      /\ cur[r] \in Events /\ st[cur[r]] # "absent"
  BY <1>1 DEF IInv, RInv, InHand, Working
<1>3. /\ RelayTypes' /\ Others(r)
      /\ at'[r] = "ready" /\ leg'[r] = 1 /\ batch'[r] \subseteq batch[r]
  BY <1>1, <1>2, NextRowFacts
<1>4. Types'
  BY <1>1, <1>2, <1>3 DEF Types, RelayTypes
<1>5. /\ st \in [Events -> {"absent", "queued", "dispatched", "parked"}]
      /\ \A e \in Events : /\ st'[e] = "absent" <=> st[e] = "absent"
                           /\ e # cur[r] => st'[e] = st[e]
  BY <1>1, <1>2 DEF Types
<1>6. /\ LegsOf(cur[r]) \subseteq steps
      /\ cur[r][2] = "dispatched" => Sent(cur[r][1])
  BY <1>1, <1>2 DEF RInv, LegsBehind, GuardHolds
<1>7. ASSUME NEW w \in Withdrawals PROVE WInv(w)'
  <2>1. WInv(w)
    BY DEF IInv
  <2>2. <<w, "dispatched">> = cur[r] => Sent(w)
    BY <1>6, RowFacts
  <2>3. RowsMatch(w)' /\ LedgerMatches(w)'
    BY <2>1, <1>1, <1>5, RowFacts DEF WInv, RowsMatch, LedgerMatches, Created, Paid
  <2>4. StoredOnly(w)'
    BY <2>1, <2>2, <1>1, <1>5, RowFacts DEF WInv, StoredOnly, Created, Sent
  <2> QED
    BY <2>3, <2>4 DEF WInv
<1>8. ASSUME NEW e \in Events PROVE EInv(e)'
  <2>1. EInv(e)
    BY DEF IInv
  <2> QED
    BY <2>1, <1>1, <1>5, <1>6 DEF EInv, LegsOf
<1>9. RInv(r)'
  <2>1. \A e \in batch'[r] : st'[e] # "absent"
    BY <1>2, <1>3, <1>5 DEF RInv, InHand, Types
  <2> QED
    BY <2>1, <1>3 DEF RInv, InHand, LegsBehind, GuardHolds, Working, InCustody
<1> QED
  BY <1>1, <1>2, <1>3, <1>4, <1>7, <1>8, <1>9, RelayFrame

\* Parking, its stamps written or lost.
LEMMA ParkInv ==
    ASSUME IInv, NEW r \in Relays, Park(r) \/ ParkStampLost(r)
    PROVE  IInv'
<1>1. /\ at[r] = "park" /\ NextRow(r)
      /\ UNCHANGED <<wstate, outbox, steps, xfer, funded, spent>>
      /\ UNCHANGED <<signs, bcast, chain, swept, lock>>
      /\ Parked(cur[r]) \/ UNCHANGED <<st, attempts>>
      /\ compensated' \in {compensated, Owed(r)}
  BY DEF Park, ParkStampLost, tbVars, sendVars
<1>2. Types /\ RInv(r) /\ cur[r] \in Events /\ st[cur[r]] # "absent"
  BY <1>1 DEF IInv, RInv, InHand, Working
<1>3. /\ RelayTypes' /\ Others(r)
      /\ at'[r] = "ready" /\ leg'[r] = 1 /\ batch'[r] \subseteq batch[r]
  BY <1>1, <1>2, NextRowFacts
<1>4. /\ st' \in [Events -> {"absent", "queued", "dispatched", "parked"}]
      /\ \A e \in Events : /\ st'[e] = "absent" <=> st[e] = "absent"
                           /\ st'[e] = "dispatched" => st[e] = "dispatched"
  BY <1>1, <1>2 DEF Parked, Types
<1>5. attempts' \in [Events -> 0..MaxAttempts]
  BY <1>1, <1>2, BumpFacts DEF Parked, Types
<1>6. Types'
  BY <1>1, <1>2, <1>3, <1>4, <1>5 DEF Types, RelayTypes, Owed
<1>7. (steps \subseteq xfer)'
  BY <1>1 DEF IInv
<1>8. ASSUME NEW w \in Withdrawals PROVE WInv(w)'
  BY <1>1, <1>4, WFrame
<1>9. ASSUME NEW e \in Events PROVE EInv(e)'
  BY <1>1, <1>4, EFrame
<1>10. RInv(r)'
  <2>1. \A e \in batch'[r] : st'[e] # "absent"
    BY <1>2, <1>3, <1>4 DEF RInv, InHand, Types
  <2> QED
    BY <2>1, <1>3 DEF RInv, InHand, LegsBehind, GuardHolds, Working, InCustody
<1> QED
  BY <1>1, <1>3, <1>6, <1>7, <1>8, <1>9, <1>10, RelayFrame

-----------------------------------------------------------------------------
(***************************************************************************)
(* Custody.                                                                *)
(***************************************************************************)
LEMMA InCustodyFacts ==
    ASSUME IInv, NEW r \in Relays, InCustody(r)
    PROVE  /\ Types /\ RInv(r) /\ at[r] # "acquire"
           /\ cur[r] \in Events /\ cur[r][1] \in Withdrawals /\ cur[r][2] = "dispatched"
           /\ st[<<cur[r][1], "dispatched">>] # "absent"
           /\ WInv(cur[r][1])
           /\ Created(cur[r][1], "reserve") /\ ~Created(cur[r][1], "void_fail")
<1>1. /\ Types /\ RInv(r) /\ at[r] # "acquire"
      /\ cur[r] \in Events /\ cur[r][2] = "dispatched" /\ st[cur[r]] # "absent"
  BY DEF IInv, RInv, InHand, Working, InCustody
<1>2. cur[r][1] \in Withdrawals /\ cur[r] = <<cur[r][1], cur[r][2]>>
  BY <1>1 DEF Events
<1> QED
  BY <1>1, <1>2 DEF IInv, RInv, GuardHolds

\* No stored transaction, so none was sent: there is nothing to adopt.
LEMMA CustodyStepInv ==
    ASSUME IInv, NEW r \in Relays, Custody(r)
    PROVE  IInv'
<1> DEFINE w == cur[r][1]
<1>1. at[r] = "custody" /\ InCustody(r)
  BY DEF Custody, InCustody
<1>2. /\ Types /\ RInv(r) /\ w \in Withdrawals /\ StoredOnly(w)
      /\ Created(w, "reserve") /\ ~Created(w, "void_fail")
  BY <1>1, InCustodyFacts DEF WInv
<1>3. bcast[w] = 0 => Forgotten(w) = {}
  BY <1>2, BoundsAssumption DEF StoredOnly, Forgotten, Signed
<1>4. PICK label \in {"submit_again", "store", "park"} :
        Goto(r, label) /\ UNCHANGED bcast /\ (label = "submit_again" => bcast[w] # 0)
  BY <1>3 DEF Custody
<1>5. /\ UNCHANGED <<wstate, outbox, st, attempts, compensated, steps, xfer, funded, spent>>
      /\ UNCHANGED <<signs, bcast, chain, swept, lock, cur, leg, batch>>
  BY <1>4 DEF Custody, rowVars, tbVars
<1>6. /\ at' \in [Relays -> Labels] /\ at'[r] = label
      /\ \A q \in Relays \ {r} : at'[q] = at[q]
  BY <1>2, <1>4, GotoFacts DEF Labels
<1>7. Types' /\ Others(r)
  BY <1>2, <1>5, <1>6 DEF Types, Others
<1>8. RInv(r)'
  BY <1>1, <1>2, <1>4, <1>5, <1>6
     DEF RInv, InHand, LegsBehind, GuardHolds, Working, InCustody, Created
<1> QED
  BY <1>1, <1>5, <1>7, <1>8, QuietRelay

LEMMA SubmitRejectedInv ==
    ASSUME IInv, NEW r \in Relays, SubmitRejected(r)
    PROVE  IInv'
<1>1. at[r] \in {"submit_fresh", "submit_again"} /\ InCustody(r)
  BY DEF SubmitRejected, InCustody
<1>2. Types /\ RInv(r) /\ Created(cur[r][1], "reserve") /\ ~Created(cur[r][1], "void_fail")
  BY <1>1, InCustodyFacts
<1>3. PICK label \in {"discard", "park"} :
        Goto(r, label) /\ (label = "discard" => at[r] = "submit_fresh")
  BY <1>1 DEF SubmitRejected
<1>4. /\ UNCHANGED <<wstate, outbox, st, attempts, compensated, steps, xfer, funded, spent>>
      /\ UNCHANGED <<signs, bcast, chain, swept, lock, cur, leg, batch>>
  BY DEF SubmitRejected, rowVars, tbVars, sendVars
<1>5. /\ at' \in [Relays -> Labels] /\ at'[r] = label
      /\ \A q \in Relays \ {r} : at'[q] = at[q]
  BY <1>2, <1>3, GotoFacts DEF Labels
<1>6. Types' /\ Others(r)
  BY <1>2, <1>4, <1>5 DEF Types, Others
<1>7. RInv(r)'
  BY <1>1, <1>2, <1>3, <1>4, <1>5
     DEF RInv, InHand, LegsBehind, GuardHolds, Working, InCustody, Created
<1> QED
  BY <1>1, <1>4, <1>6, <1>7, QuietRelay DEF InCustody

\* A signature is stored only where nothing was ever sent.
LEMMA StoreTxInv ==
    ASSUME IInv, NEW r \in Relays, StoreTx(r)
    PROVE  IInv'
<1> DEFINE w == cur[r][1]
<1>1. at[r] = "store" /\ InCustody(r)
  BY DEF StoreTx, InCustody
<1>2. /\ Types /\ RInv(r) /\ at[r] # "acquire" /\ w \in Withdrawals /\ WInv(w)
      /\ st[<<w, "dispatched">>] # "absent"
      /\ Created(w, "reserve") /\ ~Created(w, "void_fail")
  BY <1>1, InCustodyFacts
<1>3. /\ UNCHANGED <<wstate, outbox, st, attempts, compensated, steps, xfer, funded, spent>>
      /\ UNCHANGED <<chain, swept, lock, cur, leg, batch>>
  BY DEF StoreTx, rowVars, tbVars
<1>4. CASE bcast[w] = 0
  <2>1. /\ signs[w] < MaxSigns /\ signs' = [signs EXCEPT ![w] = @ + 1]
        /\ bcast' = [bcast EXCEPT ![w] = signs[w] + 1] /\ Goto(r, "submit_fresh")
    BY <1>4 DEF StoreTx
  <2>2. /\ at' \in [Relays -> Labels] /\ at'[r] = "submit_fresh"
        /\ \A q \in Relays \ {r} : at'[q] = at[q]
    BY <1>2, <2>1, GotoFacts DEF Labels
  <2>3. /\ signs' \in [Withdrawals -> 0..MaxSigns] /\ bcast' \in [Withdrawals -> 0..MaxSigns]
        /\ signs'[w] = signs[w] + 1 /\ bcast'[w] = signs[w] + 1 /\ signs[w] \in Nat
        /\ \A v \in Withdrawals \ {w} : bcast'[v] = bcast[v]
    BY <1>2, <2>1, BoundsAssumption DEF Types
  <2>4. Types' /\ Others(r)
    BY <1>2, <1>3, <2>2, <2>3 DEF Types, Others
  <2>5. \A k \in Signed : chain[w][k] = "none"
    BY <1>2, <1>4, BoundsAssumption DEF WInv, StoredOnly, Signed
  <2>6. ASSUME NEW v \in Withdrawals PROVE WInv(v)'
    <3>1. WInv(v)
      BY DEF IInv
    <3>2. RowsMatch(v)' /\ LedgerMatches(v)'
      BY <3>1, <1>3 DEF WInv, RowsMatch, LedgerMatches, Created, Paid
    <3>3. StoredOnly(v)'
      <4>1. CASE v = w
        BY <3>1, <4>1, <1>2, <1>3, <2>5 DEF WInv, StoredOnly, Created, Sent
      <4>2. CASE v # w
        BY <3>1, <4>2, <1>3, <2>3 DEF WInv, StoredOnly, Created, Sent
      <4> QED
        BY <4>1, <4>2
    <3> QED
      BY <3>2, <3>3 DEF WInv
  <2>7. RInv(r)'
    <3>1. signs'[w] \in Signed
      BY <2>1, <2>3, BoundsAssumption DEF Signed
    <3>2. InHand(r)' /\ LegsBehind(r)'
      BY <1>1, <1>2, <1>3, <2>2 DEF RInv, InHand, LegsBehind, Working, InCustody
    <3>3. GuardHolds(r)'
      BY <1>2, <1>3, <2>2, <2>3, <2>5, <3>1 DEF GuardHolds, InCustody, Created
    <3> QED
      BY <3>2, <3>3 DEF RInv
  <2>8. ASSUME NEW e \in Events PROVE EInv(e)'
    BY <1>3, EFrame
  <2>9. (steps \subseteq xfer)'
    BY <1>3 DEF IInv
  <2> QED
    BY <1>2, <1>3, <2>4, <2>6, <2>7, <2>8, <2>9, RelayFrame
<1>5. CASE bcast[w] # 0
  <2>1. Goto(r, "submit_again") /\ UNCHANGED <<signs, bcast>>
    BY <1>5 DEF StoreTx
  <2>2. /\ at' \in [Relays -> Labels] /\ at'[r] = "submit_again"
        /\ \A q \in Relays \ {r} : at'[q] = at[q]
    BY <1>2, <2>1, GotoFacts DEF Labels
  <2>3. Types' /\ Others(r)
    BY <1>2, <1>3, <2>1, <2>2 DEF Types, Others
  <2>4. RInv(r)'
    BY <1>1, <1>2, <1>3, <1>5, <2>1, <2>2
       DEF RInv, InHand, LegsBehind, GuardHolds, Working, InCustody, Created
  <2> QED
    BY <1>2, <1>3, <2>1, <2>3, <2>4, QuietRelay
<1> QED
  BY <1>4, <1>5

\* Only the stored bytes go out, and they leave the chain sent.
LEMMA AcceptedFacts ==
    ASSUME IInv, NEW r \in Relays, at[r] \in {"submit_fresh", "submit_again"},
           Accepted(cur[r][1], Sending(r)), UNCHANGED <<wstate, st, steps, xfer, signs, bcast>>
    PROVE  /\ chain' \in [Withdrawals -> [Signed -> {"none", "mempool", "evicted", "mined",
                                                     "reverted"}]]
           /\ \E k \in Signed : chain'[cur[r][1]][k] # "none"
           /\ \A w \in Withdrawals : WInv(w)'
<1> DEFINE w == cur[r][1]
           k == bcast[w]
<1>1. InCustody(r)
  BY DEF InCustody
<1>2. /\ Types /\ RInv(r) /\ w \in Withdrawals /\ WInv(w)
  BY <1>1, InCustodyFacts
<1>3. Sending(r) = k /\ k \in Signed
  BY <1>2, BoundsAssumption DEF RInv, GuardHolds, Sending, Types, Signed
<1> HIDE DEF k
<1>4. chain' = [chain EXCEPT ![w][k] = IF @ \in {"none", "evicted"} THEN "mempool" ELSE @]
  BY <1>3 DEF Accepted
<1>5. chain' \in [Withdrawals -> [Signed -> {"none", "mempool", "evicted", "mined", "reverted"}]]
  BY <1>2, <1>3, <1>4 DEF Types
<1>6. chain'[w][k] # "none"
  BY <1>2, <1>3, <1>4 DEF Types
<1>7. \A v \in Withdrawals : \A j \in Signed :
        /\ chain[v][j] = "mined" => chain'[v][j] = "mined"
        /\ chain[v][j] # "none" => chain'[v][j] # "none"
        /\ v # w \/ j # k => chain'[v][j] = chain[v][j]
  BY <1>2, <1>3, <1>4 DEF Types
<1>8. ASSUME NEW v \in Withdrawals PROVE WInv(v)'
  <2>1. WInv(v)
    BY DEF IInv
  <2>2. RowsMatch(v)' /\ LedgerMatches(v)'
    BY <2>1, <1>7 DEF WInv, RowsMatch, LedgerMatches, Created, Paid
  <2>3. StoredOnly(v)'
    BY <2>1, <1>7 DEF WInv, StoredOnly, Created, Sent, k
  <2> QED
    BY <2>2, <2>3 DEF WInv
<1> QED
  BY <1>3, <1>5, <1>6, <1>8

LEMMA SubmitInv ==
    ASSUME IInv, NEW r \in Relays, Submit(r) \/ SubmitUnanswered(r)
    PROVE  IInv'
<1>1. /\ at[r] \in {"submit_fresh", "submit_again"} /\ Accepted(cur[r][1], Sending(r))
      /\ UNCHANGED <<wstate, outbox, st, compensated, steps, xfer, funded, spent>>
      /\ UNCHANGED <<signs, bcast, swept, lock>>
      /\ \/ Goto(r, "mark") /\ UNCHANGED <<attempts, cur, leg, batch>>
         \/ Rest(r, "ready") /\ Counted(cur[r])
  BY DEF Submit, SubmitUnanswered, rowVars, tbVars
<1>2. InCustody(r)
  BY <1>1 DEF InCustody
<1>3. /\ Types /\ RInv(r) /\ at[r] # "acquire" /\ cur[r] \in Events /\ cur[r][2] = "dispatched"
  BY <1>2, InCustodyFacts
<1>4. /\ chain' \in [Withdrawals -> [Signed -> {"none", "mempool", "evicted", "mined", "reverted"}]]
      /\ \E k \in Signed : chain'[cur[r][1]][k] # "none"
      /\ \A w \in Withdrawals : WInv(w)'
  BY <1>1, AcceptedFacts
<1>5. (steps \subseteq xfer)'
  BY <1>1 DEF IInv
<1>6. ASSUME NEW e \in Events PROVE EInv(e)'
  BY <1>1, EFrame
<1>7. CASE Goto(r, "mark") /\ UNCHANGED <<attempts, cur, leg, batch>>
  <2>1. /\ at' \in [Relays -> Labels] /\ at'[r] = "mark"
        /\ \A q \in Relays \ {r} : at'[q] = at[q]
    BY <1>3, <1>7, GotoFacts DEF Labels
  <2>2. Types' /\ Others(r)
    BY <1>1, <1>3, <1>4, <1>7, <2>1 DEF Types, Others
  <2>3. LegsOf(cur[r]) = {}
    BY <1>3, PlanFacts DEF LegsOf
  <2>4. LegsBehind(r)'
    BY <1>1, <1>7, <2>1, <2>3 DEF LegsBehind, LegsOf
  <2>5. GuardHolds(r)'
    BY <1>4, <1>7, <2>1 DEF GuardHolds, InCustody, Sent
  <2>6. InHand(r)'
    BY <1>1, <1>3, <1>7, <2>1 DEF RInv, InHand, Working, InCustody
  <2> QED
    BY <1>1, <1>3, <1>4, <1>5, <1>6, <2>2, <2>4, <2>5, <2>6, RelayFrame DEF RInv
<1>8. CASE Rest(r, "ready") /\ Counted(cur[r])
  <2>1. RelayTypes' /\ Others(r) /\ at'[r] = "ready" /\ leg'[r] = 1 /\ batch'[r] = {}
    BY <1>3, <1>8, RestFacts DEF Labels
  <2>2. attempts' \in [Events -> 0..MaxAttempts]
    BY <1>3, <1>8, BumpFacts
  <2>3. Types'
    BY <1>1, <1>3, <1>4, <2>1, <2>2 DEF Types, RelayTypes
  <2>4. RInv(r)'
    BY <2>1 DEF RInv, InHand, LegsBehind, GuardHolds, Working, InCustody
  <2> QED
    BY <1>1, <1>3, <1>4, <1>5, <1>6, <2>1, <2>3, <2>4, RelayFrame
<1> QED
  BY <1>1, <1>7, <1>8

\* The discarded transaction is the one the node just refused: nothing was sent.
LEMMA DiscardTxInv ==
    ASSUME IInv, NEW r \in Relays, DiscardTx(r)
    PROVE  IInv'
<1> DEFINE w == cur[r][1]
<1>1. at[r] = "discard" /\ InCustody(r)
  BY DEF DiscardTx, InCustody
<1>2. /\ Types /\ RInv(r) /\ at[r] # "acquire" /\ w \in Withdrawals /\ WInv(w)
  BY <1>1, InCustodyFacts
<1>3. /\ Goto(r, "park") /\ bcast' \in {bcast, [bcast EXCEPT ![w] = 0]}
      /\ UNCHANGED <<wstate, outbox, st, attempts, compensated, steps, xfer, funded, spent>>
      /\ UNCHANGED <<signs, chain, swept, lock, cur, leg, batch>>
  BY DEF DiscardTx, rowVars, tbVars
<1>4. /\ at' \in [Relays -> Labels] /\ at'[r] = "park"
      /\ \A q \in Relays \ {r} : at'[q] = at[q]
  BY <1>2, <1>3, GotoFacts DEF Labels
<1>5. /\ bcast' \in [Withdrawals -> 0..MaxSigns] /\ bcast'[w] \in {bcast[w], 0}
      /\ \A v \in Withdrawals \ {w} : bcast'[v] = bcast[v]
  <2>1. CASE bcast' = bcast
    BY <1>2, <2>1 DEF Types
  <2>2. CASE bcast' = [bcast EXCEPT ![w] = 0]
    BY <1>2, <2>2, BoundsAssumption DEF Types
  <2> QED
    BY <1>3, <2>1, <2>2
<1>6. Types' /\ Others(r)
  BY <1>2, <1>3, <1>4, <1>5 DEF Types, Others
<1>7. \A k \in Signed : chain[w][k] = "none"
  BY <1>1, <1>2 DEF RInv, GuardHolds, WInv, StoredOnly
<1>8. ASSUME NEW v \in Withdrawals PROVE WInv(v)'
  <2>1. WInv(v)
    BY DEF IInv
  <2>2. RowsMatch(v)' /\ LedgerMatches(v)'
    BY <2>1, <1>3 DEF WInv, RowsMatch, LedgerMatches, Created, Paid
  <2>3. StoredOnly(v)'
    <3>1. CASE v = w
      BY <2>1, <3>1, <1>3, <1>5, <1>7 DEF WInv, StoredOnly, Created, Sent
    <3>2. CASE v # w
      BY <2>1, <3>2, <1>3, <1>5 DEF WInv, StoredOnly, Created, Sent
    <3> QED
      BY <3>1, <3>2
  <2> QED
    BY <2>2, <2>3 DEF WInv
<1>9. RInv(r)'
  BY <1>1, <1>2, <1>3, <1>4 DEF RInv, InHand, LegsBehind, GuardHolds, Working, InCustody
<1>10. ASSUME NEW e \in Events PROVE EInv(e)'
  BY <1>3, EFrame
<1>11. (steps \subseteq xfer)'
  BY <1>3 DEF IInv
<1> QED
  BY <1>2, <1>3, <1>6, <1>8, <1>9, <1>10, <1>11, RelayFrame

-----------------------------------------------------------------------------
(***************************************************************************)
(* The invariant is inductive, and what follows from it.                   *)
(***************************************************************************)
LEMMA RelayStepInv ==
    ASSUME IInv, NEW r \in Relays, RelayStep(r)
    PROVE  IInv'
  BY AcquireInv, NextBatchInv, TakeRowInv, LostLockInv, CheckInv, LegTakenInv, ParkingInv,
     LegNotFoundInv, RecordStepInv, MarkDispatchedInv, ParkInv, CustodyStepInv, StoreTxInv,
     SubmitInv, DiscardTxInv
  DEF RelayStep

LEMMA RelayFaultInv ==
    ASSUME IInv, Undisturbed, NEW r \in Relays, RelayFault(r)
    PROVE  IInv'
<1>1. ~DropLock(r)
  BY DEF DropLock, Undisturbed
<1> QED
  BY <1>1, DropInv, ParkInv, ParkingInv, SubmitRejectedInv, SubmitInv DEF RelayFault

LEMMA NextIInv ==
    ASSUME IInv, Undisturbed, [Next]_vars
    PROVE  IInv'
<1>1. CASE UNCHANGED vars
  <2>1. /\ UNCHANGED <<wstate, outbox, st, attempts, compensated, steps, xfer, funded, spent>>
        /\ UNCHANGED <<signs, bcast, chain, swept, lock, at, cur, leg, batch>>
    BY <1>1 DEF vars, rowVars, tbVars, sendVars, relayVars
  <2>2. Types' /\ OneDrainer' /\ (steps \subseteq xfer)'
    BY <2>1 DEF IInv, Types, OneDrainer
  <2>3. ASSUME NEW w \in Withdrawals PROVE WInv(w)'
    BY <2>1, WFrame
  <2>4. ASSUME NEW r \in Relays PROVE RInv(r)'
    BY <2>1, RFrame
  <2>5. ASSUME NEW e \in Events PROVE EInv(e)'
    BY <2>1, EFrame
  <2> QED
    BY <2>2, <2>3, <2>4, <2>5 DEF IInv
<1>2. CASE \E r \in Relays : RelayStep(r) \/ RelayFault(r)
  BY <1>2, RelayStepInv, RelayFaultInv
<1>3. CASE \E w \in Withdrawals : Command(w) \/ Restore(w)
  <2>1. \A w \in Withdrawals : ~Restore(w)
    BY DEF Restore, Undisturbed
  <2> QED
    BY <1>3, <2>1, CommandInv
<1>4. CASE \E e \in Events : Unpark(e)
  BY <1>4, UnparkInv
<1>5. CASE \E u \in Users : ForeignDebit(u) \/ (\E n \in Networks : Deposit(u, n))
  BY <1>5, MoneyInInv
<1>6. CASE \E n \in Networks : Sweep(n)
  BY <1>6, MoneyInInv
<1>7. CASE \E w \in Withdrawals, k \in Signed : ChainMove(w, k)
  BY <1>7, ChainInv
<1> QED
  BY <1>1, <1>2, <1>3, <1>4, <1>5, <1>6, <1>7 DEF Next

\* The invariant of the whole saga: one drainer, rows that fit their state,
\* transfers that fit the rows, and sends only of the stored transaction.
THEOREM Invariant == ASSUME Undisturbed PROVE Spec => []IInv
<1>1. Init => IInv
  BY InitIInv
<1>2. IInv /\ [Next]_vars => IInv'
  BY NextIInv
<1> QED
  BY <1>1, <1>2, PTL DEF Spec

\* Type correctness of rows, ledger, chain and relays (infrastructure/relay.rs).
THEOREM TypeCorrect == ASSUME Undisturbed PROVE Spec => []TypeOK
<1>1. IInv => TypeOK
  BY DEF IInv, TypeOK, RInv, InHand
<1> QED
  BY <1>1, Invariant, PTL

\* Whatever the chain may have seen is backed by a reservation that is placed
\* and not voided: the guards of relay.rs's dispatch() close the race between a
\* broadcast and a fail.
THEOREM SendIsBacked == ASSUME Undisturbed PROVE Spec => []SendBacked
<1>1. IInv => SendBacked
  <2> SUFFICES ASSUME IInv, NEW w \in Withdrawals, Sent(w)
               PROVE  Created(w, "reserve") /\ ~Voided(w)
    BY DEF SendBacked
  <2>1. WInv(w) /\ Types
    BY DEF IInv
  <2>2. bcast[w] # 0
    BY <2>1, BoundsAssumption DEF WInv, StoredOnly, Sent, Signed
  <2>3. Created(w, "reserve") /\ ~Created(w, "void_fail") /\ st[<<w, "dispatched">>] # "absent"
    BY <2>1, <2>2 DEF WInv, StoredOnly
  <2>4. ~Created(w, "void_cancel")
    BY <2>1, <2>3 DEF WInv, RowsMatch, LedgerMatches
  <2> QED
    BY <2>3, <2>4 DEF Voided
<1> QED
  BY <1>1, Invariant, PTL

\* Custody never lets two signed transactions of one withdrawal be payable:
\* store_tx before submit, re-send of the stored bytes, discard only of bytes
\* the node refused (infrastructure/custody.rs).
THEOREM OnePayout == ASSUME Undisturbed PROVE Spec => []AtMostOnePayout
<1>1. IInv => AtMostOnePayout
  <2> SUFFICES ASSUME IInv, NEW w \in Withdrawals, NEW j \in Live(w), NEW k \in Live(w)
               PROVE  j = k
    BY DEF AtMostOnePayout
  <2>1. StoredOnly(w)
    BY DEF IInv, WInv
  <2> QED
    BY <2>1 DEF StoredOnly, Live
<1> QED
  BY <1>1, Invariant, PTL

\* The claim is debited for good only for a transfer that landed.
THEOREM SettledIsPaid == ASSUME Undisturbed PROVE Spec => []SettledOnlyPaid
<1>1. IInv => SettledOnlyPaid
  <2> SUFFICES ASSUME IInv, NEW w \in Withdrawals, Created(w, "settle")
               PROVE  Paid(w)
    BY DEF SettledOnlyPaid
  <2>1. WInv(w)
    BY DEF IInv
  <2> QED
    BY <2>1 DEF WInv, LedgerMatches
<1> QED
  BY <1>1, Invariant, PTL

\* A row the relay stamped dispatched has its whole effect in place: every leg
\* on the ledger and recorded, and for a broadcast a stored transaction sent.
THEOREM DispatchedIsApplied == ASSUME Undisturbed PROVE Spec => []DispatchedMeansApplied
<1>1. IInv => DispatchedMeansApplied
  <2> SUFFICES ASSUME IInv, NEW e \in Events, st[e] = "dispatched"
               PROVE  /\ LegsOf(e) \subseteq xfer
                      /\ LegsOf(e) \subseteq steps
                      /\ e[2] = "dispatched" => bcast[e[1]] # 0 /\ Sent(e[1])
    BY DEF DispatchedMeansApplied
  <2>1. EInv(e) /\ steps \subseteq xfer /\ e[1] \in Withdrawals /\ e = <<e[1], e[2]>>
    BY DEF IInv, Events
  <2>2. LegsOf(e) \subseteq steps /\ LegsOf(e) \subseteq xfer
    BY <2>1 DEF EInv
  <2>3. ASSUME e[2] = "dispatched" PROVE bcast[e[1]] # 0 /\ Sent(e[1])
    <3>1. StoredOnly(e[1]) /\ st[<<e[1], "dispatched">>] = "dispatched"
      BY <2>1, <2>3 DEF IInv, WInv
    <3> QED
      BY <3>1, BoundsAssumption DEF StoredOnly, Sent, Signed
  <2> QED
    BY <2>2, <2>3
<1> QED
  BY <1>1, Invariant, PTL

-----------------------------------------------------------------------------
(***************************************************************************)
(* The saga implements PayoutContract, for every value of the constants.   *)
(***************************************************************************)
\* A pending is resolved only once it is placed.
ResolvedHeld == \A w \in Withdrawals : Resolved(w) => Created(w, "reserve")

-----------------------------------------------------------------------------
\* The only steps that touch TigerBeetle's transfers or the chain.
LEMMA RelayStepShape ==
    ASSUME NEW r \in Relays, RelayStep(r) \/ RelayFault(r)
    PROVE  \/ UNCHANGED <<xfer, chain>>
           \/ LegTaken(r)
           \/ Submit(r) \/ SubmitUnanswered(r)
<1> USE DEF rowVars, tbVars, sendVars
<1>1. CASE \/ AcquireLock(r) \/ NextBatch(r) \/ (\E e \in Events : TakeRow(r, e)) \/ LostLock(r)
           \/ Check(r) \/ LegRefused(r) \/ LegNotFound(r) \/ RecordStep(r)
  BY <1>1 DEF AcquireLock, NextBatch, TakeRow, LostLock, Check, LegRefused, LegNotFound, RecordStep
<1>2. CASE MarkDispatched(r) \/ Park(r) \/ Custody(r) \/ StoreTx(r) \/ DiscardTx(r)
  BY <1>2 DEF MarkDispatched, Park, Custody, StoreTx, DiscardTx
<1>3. CASE \/ Unavailable(r) \/ DispatchStampLost(r) \/ ParkStampLost(r) \/ SendRefused(r)
           \/ SubmitRejected(r) \/ Crash(r) \/ DropLock(r)
  BY <1>3 DEF Unavailable, DispatchStampLost, ParkStampLost, SendRefused, SubmitRejected, Crash,
              DropLock
<1> QED
  BY <1>1, <1>2, <1>3 DEF RelayStep, RelayFault

LEMMA StepShape ==
    ASSUME [Next]_vars
    PROVE  \/ UNCHANGED <<xfer, chain>>
           \/ \E r \in Relays : LegTaken(r)
           \/ \E r \in Relays : Submit(r) \/ SubmitUnanswered(r)
           \/ \E w \in Withdrawals, k \in Signed : ChainMove(w, k)
<1> USE DEF rowVars, tbVars, sendVars
<1>1. CASE \E r \in Relays : RelayStep(r) \/ RelayFault(r)
  BY <1>1, RelayStepShape
<1>2. CASE \E w \in Withdrawals : Command(w) \/ Restore(w)
  BY <1>2 DEF Command, OpenQueued, OpenDispatched, SweepDispatch, OperatorDispatch, Cancel,
              WatcherSettle, OperatorSettle, Fail, Transition, Restore
<1>3. CASE \/ \E e \in Events : Unpark(e)
           \/ \E u \in Users : ForeignDebit(u) \/ (\E n \in Networks : Deposit(u, n))
           \/ \E n \in Networks : Sweep(n)
  BY <1>3 DEF Unpark, ForeignDebit, Deposit, Sweep
<1>4. CASE UNCHANGED vars
  BY <1>4 DEF vars
<1> QED
  BY <1>1, <1>2, <1>3, <1>4 DEF Next

\* What a leg taken adds to the ledger.
LEMMA AnswerCreated ==
    ASSUME NEW w \in Withdrawals, NEW l \in Legs, Answer(w, l) = "created"
    PROVE  /\ ~Created(w, l)
           /\ l \in {"settle", "void_fail", "void_cancel"} =>
                 Created(w, "reserve") /\ ~Resolved(w)
<1>1. ~Created(w, l)
  BY DEF Answer
<1>2. CASE l \in {"settle", "void_fail", "void_cancel"}
  BY <1>1, <1>2 DEF Answer
<1> QED
  BY <1>1, <1>2

LEMMA LegTakenShape ==
    ASSUME IInv, NEW r \in Relays, LegTaken(r)
    PROVE  \/ UNCHANGED <<xfer, chain>>
           \/ \E w \in Withdrawals, l \in Legs :
                /\ xfer' = xfer \cup {<<w, l>>} /\ ~Created(w, l) /\ UNCHANGED chain
                /\ l \in {"settle", "void_fail", "void_cancel"} =>
                      Created(w, "reserve") /\ ~Resolved(w)
                /\ l = "settle" => wstate[w] = "completed"
                /\ l = "void_fail" => wstate[w] = "failed" /\ bcast[w] = 0
                /\ l = "void_cancel" => wstate[w] = "cancelled"
<1> DEFINE w == cur[r][1]
           l == Plan(cur[r])[leg[r]]
<1>1. /\ at[r] = "leg" /\ Answer(w, l) \in {"created", "exists"} /\ UNCHANGED chain
      /\ xfer' = IF Answer(w, l) = "created" THEN xfer \cup {<<w, l>>} ELSE xfer
  BY DEF LegTaken, sendVars
<1>2. /\ w \in Withdrawals /\ l \in Legs
      /\ l = "settle" => wstate[w] = "completed"
      /\ l = "void_cancel" => wstate[w] = "cancelled"
      /\ l = "void_fail" => wstate[w] = "failed" /\ bcast[w] = 0
  BY <1>1, LegInHand
<1> HIDE DEF w, l
<1>3. Answer(w, l) = "created" =>
        /\ ~Created(w, l)
        /\ l \in {"settle", "void_fail", "void_cancel"} => Created(w, "reserve") /\ ~Resolved(w)
  BY <1>2, AnswerCreated
<1> QED
  BY <1>1, <1>2, <1>3

LEMMA ResolvedHeldStep ==
    ASSUME IInv, ResolvedHeld, [Next]_vars
    PROVE  ResolvedHeld'
<1>1. CASE UNCHANGED xfer
  BY <1>1 DEF ResolvedHeld, Resolved, Voided, Created
<1>2. CASE \E w \in Withdrawals, l \in Legs :
             /\ xfer' = xfer \cup {<<w, l>>}
             /\ l \in {"settle", "void_fail", "void_cancel"} => Created(w, "reserve")
  BY <1>2 DEF ResolvedHeld, Resolved, Voided, Created
<1>3. ASSUME NEW r \in Relays, Submit(r) \/ SubmitUnanswered(r) PROVE UNCHANGED xfer
  BY <1>3 DEF Submit, SubmitUnanswered, tbVars
<1>4. ASSUME NEW w \in Withdrawals, NEW k \in Signed, ChainMove(w, k) PROVE UNCHANGED xfer
  BY <1>4 DEF ChainMove, Mine, Revert, Evict, Resurface, ChainStep, tbVars
<1> QED
  BY <1>1, <1>2, <1>3, <1>4, StepShape, LegTakenShape

-----------------------------------------------------------------------------
(***************************************************************************)
(* Every step is a step of the contract or leaves it alone.                *)
(***************************************************************************)
\* A withdrawal's part of the contract's state depends on its own transfers
\* and its own transactions.
LEMMA MoneyFacts ==
    ASSUME NEW w \in Withdrawals, NEW v \in Withdrawals, NEW l \in Legs,
           xfer' = xfer \cup {<<w, l>>}, v # w \/ l \in {"disburse", "fee"}
    PROVE  MoneyOf(v)' = MoneyOf(v)
<1>1. \A m \in {"reserve", "settle", "void_fail", "void_cancel"} : Created(v, m)' <=> Created(v, m)
  BY DEF Created
<1> QED
  BY <1>1 DEF MoneyOf, Voided

LEMMA LegStepRefines ==
    ASSUME IInv, ResolvedHeld, NEW w \in Withdrawals, NEW l \in Legs,
           xfer' = xfer \cup {<<w, l>>}, ~Created(w, l), UNCHANGED chain,
           l \in {"settle", "void_fail", "void_cancel"} => Created(w, "reserve") /\ ~Resolved(w),
           l = "settle" => wstate[w] = "completed",
           l = "void_fail" => wstate[w] = "failed" /\ bcast[w] = 0,
           l = "void_cancel" => wstate[w] = "cancelled"
    PROVE  [Contract!Next]_Contract!vars
<1> DEFINE money == [v \in Withdrawals |-> MoneyOf(v)]
           sent  == {v \in Withdrawals : Sent(v)}
           paid  == {v \in Withdrawals : Paid(v)}
<1>1. sent' = sent /\ paid' = paid
  BY DEF Sent, Paid
<1>2. \A v \in Withdrawals : v # w => MoneyOf(v)' = MoneyOf(v)
  BY MoneyFacts
<1>3. \A m \in Legs : Created(w, m)' <=> Created(w, m) \/ m = l
  BY DEF Created
<1>4. WInv(w)
  BY DEF IInv
<1>5. CASE l = "reserve"
  <2>1. ~Resolved(w)
    BY <1>5 DEF ResolvedHeld
  <2>2. MoneyOf(w) = "free" /\ MoneyOf(w)' = "held"
    BY <2>1, <1>3, <1>5 DEF MoneyOf, Resolved, Voided, Legs
  <2>3. money' = [money EXCEPT ![w] = "held"] /\ money[w] = "free"
    BY <2>2, <1>2
  <2> QED
    BY <2>3, <1>1 DEF Contract!Next, Contract!Hold
<1>6. CASE l = "settle"
  <2>1. Paid(w)
    BY <1>4, <1>6 DEF WInv, LedgerMatches
  <2>2. MoneyOf(w) = "held" /\ MoneyOf(w)' = "debited"
    BY <1>3, <1>6 DEF MoneyOf, Resolved, Voided, Legs
  <2>3. money' = [money EXCEPT ![w] = "debited"] /\ money[w] = "held" /\ w \in paid
    BY <2>1, <2>2, <1>2
  <2> QED
    BY <2>3, <1>1 DEF Contract!Next, Contract!Debit
<1>7. CASE l \in {"void_fail", "void_cancel"}
  <2>1. bcast[w] = 0
    BY <1>4, <1>7 DEF WInv, StoredOnly, RowsMatch
  <2>2. ~Sent(w)
    BY <2>1, <1>4, BoundsAssumption DEF WInv, StoredOnly, Sent, Signed
  <2>3. MoneyOf(w) = "held" /\ MoneyOf(w)' = "refunded"
    BY <1>3, <1>7 DEF MoneyOf, Resolved, Voided, Legs
  <2>4. money' = [money EXCEPT ![w] = "refunded"] /\ money[w] = "held" /\ w \notin sent
    BY <2>2, <2>3, <1>2
  <2> QED
    BY <2>4, <1>1 DEF Contract!Next, Contract!Refund
<1>8. CASE l \in {"disburse", "fee"}
  <2>1. money' = money
    BY <1>8, MoneyFacts
  <2> QED
    BY <2>1, <1>1 DEF Contract!vars
<1> QED
  BY <1>5, <1>6, <1>7, <1>8 DEF Legs

\* The first acceptance of a withdrawal's bytes is the contract's Send.
LEMMA SendStepRefines ==
    ASSUME IInv, ResolvedHeld, NEW r \in Relays, Submit(r) \/ SubmitUnanswered(r)
    PROVE  [Contract!Next]_Contract!vars
<1> DEFINE w == cur[r][1]
           k == bcast[w]
           money == [v \in Withdrawals |-> MoneyOf(v)]
           sent  == {v \in Withdrawals : Sent(v)}
           paid  == {v \in Withdrawals : Paid(v)}
<1>1. /\ at[r] \in {"submit_fresh", "submit_again"} /\ Accepted(w, Sending(r))
      /\ UNCHANGED <<wstate, st, steps, xfer, signs, bcast>>
  BY DEF Submit, SubmitUnanswered, rowVars, tbVars
<1>2. /\ Types /\ RInv(r) /\ w \in Withdrawals /\ WInv(w)
      /\ Created(w, "reserve") /\ ~Created(w, "void_fail")
      /\ st[<<w, "dispatched">>] # "absent"
  <2>1. InCustody(r)
    BY <1>1 DEF InCustody
  <2> QED
    BY <2>1, InCustodyFacts
<1>3. Sending(r) = k /\ k \in Signed
  BY <1>1, <1>2, BoundsAssumption DEF RInv, GuardHolds, Sending, Types, Signed
<1> HIDE DEF k, w
<1>4. chain' = [chain EXCEPT ![w][k] = IF @ \in {"none", "evicted"} THEN "mempool" ELSE @]
  BY <1>1, <1>3 DEF Accepted
<1>5. /\ \A v \in Withdrawals, j \in Signed : chain'[v][j] = "mined" <=> chain[v][j] = "mined"
      /\ \A v \in Withdrawals \ {w}, j \in Signed : chain'[v][j] = chain[v][j]
      /\ \A j \in Signed : chain[w][j] # "none" => chain'[w][j] # "none"
      /\ chain'[w][k] # "none"
  BY <1>2, <1>3, <1>4 DEF Types
<1>6. money' = money
  BY <1>1 DEF MoneyOf, Voided, Created
<1>7. paid' = paid
  BY <1>5 DEF Paid
<1>8. sent' = sent \cup {w}
  BY <1>2, <1>3, <1>5 DEF Sent
<1>9. CASE Sent(w)
  BY <1>2, <1>6, <1>7, <1>8, <1>9 DEF Contract!vars
<1>10. CASE ~Sent(w)
  <2>1. ~Created(w, "settle") /\ ~Created(w, "void_cancel")
    BY <1>2, <1>10 DEF WInv, LedgerMatches, RowsMatch, Paid, Sent
  <2>2. money[w] = "held" /\ w \notin sent
    BY <2>1, <1>2, <1>10 DEF MoneyOf, Voided
  <2> QED
    BY <2>2, <1>2, <1>6, <1>7, <1>8 DEF Contract!Next, Contract!Send
<1> QED
  BY <1>9, <1>10

\* Mining is the contract's Land; the chain's other moves change nothing in it.
LEMMA ChainStepRefines ==
    ASSUME IInv, NEW w \in Withdrawals, NEW k \in Signed, ChainMove(w, k)
    PROVE  [Contract!Next]_Contract!vars
<1> DEFINE money == [v \in Withdrawals |-> MoneyOf(v)]
           sent  == {v \in Withdrawals : Sent(v)}
           paid  == {v \in Withdrawals : Paid(v)}
<1>1. PICK from \in {"mempool", "evicted"}, to \in {"mined", "reverted", "evicted", "mempool"} :
        ChainStep(w, k, from, to)
  BY DEF ChainMove, Mine, Revert, Evict, Resurface
<1>2. chain' = [chain EXCEPT ![w][k] = to] /\ chain[w][k] = from /\ UNCHANGED xfer
  BY <1>1 DEF ChainStep, tbVars
<1>3. Types
  BY DEF IInv
<1>4. /\ \A v \in Withdrawals, j \in Signed : chain'[v][j] = "none" <=> chain[v][j] = "none"
      /\ \A v \in Withdrawals, j \in Signed :
            v # w \/ j # k => chain'[v][j] = chain[v][j]
      /\ chain'[w][k] = to
  BY <1>2, <1>3 DEF Types
<1>5. money' = money
  BY <1>2 DEF MoneyOf, Voided, Created
<1>6. sent' = sent /\ w \in sent
  BY <1>2, <1>4 DEF Sent
<1>7. CASE to # "mined"
  <2>1. paid' = paid
    BY <1>2, <1>4, <1>7 DEF Paid
  <2> QED
    BY <2>1, <1>5, <1>6 DEF Contract!vars
<1>8. CASE to = "mined"
  <2>1. paid' = paid \cup {w}
    BY <1>2, <1>4, <1>8 DEF Paid
  <2> QED
    BY <2>1, <1>5, <1>6 DEF Contract!Next, Contract!Land, Contract!vars
<1> QED
  BY <1>7, <1>8

LEMMA StepRefines ==
    ASSUME IInv, ResolvedHeld, [Next]_vars
    PROVE  [Contract!Next]_Contract!vars
<1>1. CASE UNCHANGED <<xfer, chain>>
  BY <1>1 DEF Contract!vars, MoneyOf, Voided, Created, Sent, Paid
<1>2. CASE \E r \in Relays : LegTaken(r)
  BY <1>1, <1>2, LegTakenShape, LegStepRefines
<1> QED
  BY <1>1, <1>2, StepShape, SendStepRefines, ChainStepRefines

LEMMA InitRefines == Init => Contract!Init /\ ResolvedHeld
  BY DEF Init, Contract!Init, ResolvedHeld, Resolved, MoneyOf, Voided, Created, Sent, Paid

\* The saga - commands, relay, custody and chain, with lost answers, crashes and
\* re-drives - implements the contract a withdrawal makes with its owner.
THEOREM Refinement == ASSUME Undisturbed PROVE Spec => ImplementsContract
<1>1. Init => Contract!Init /\ ResolvedHeld
  BY InitRefines
<1>2. IInv /\ ResolvedHeld /\ [Next]_vars => ResolvedHeld'
  BY ResolvedHeldStep
<1>3. IInv /\ ResolvedHeld /\ [Next]_vars => [Contract!Next]_Contract!vars
  BY StepRefines
<1> QED
  BY <1>1, <1>2, <1>3, Invariant, PTL DEF Spec, ImplementsContract, Contract!Spec
=============================================================================
