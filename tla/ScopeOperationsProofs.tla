----------------------- MODULE ScopeOperationsProofs ------------------------
(***************************************************************************)
(* Proofs about money out of a scope, for any number of payouts,           *)
(* operations and executors, any amounts and budgets, and under every      *)
(* fault the model has: what leaves in a day unapproved stays in the       *)
(* budget, an operation pays once and under the approval it stored,        *)
(* everything recorded is covered, and concierge and the client are told   *)
(* the one end an operation has.                                           *)
(***************************************************************************)
EXTENDS ScopeOperations, Sums

-----------------------------------------------------------------------------
(***************************************************************************)
(* The money out of a scope, as sums over finite sets.                     *)
(***************************************************************************)
LEMMA OutsFinite == IsFiniteSet(Outs) /\ \A S \in SUBSET Outs : IsFiniteSet(S)
BY OperationsAssumption, FS_Subset

LEMMA TotalIs == \A S : TotalOf(S) = SumOver(Total, S)
BY DEF TotalOf, MapThenSumSet, MapThenFoldSet, SumOver, SumFn, IsSum

LEMMA TotalNat == \A S \in SUBSET Outs : TotalOf(S) \in Nat
<1> SUFFICES ASSUME NEW S \in SUBSET Outs PROVE SumOver(Total, S) \in Nat
  BY TotalIs
<1>1. IsFiniteSet(S) /\ \A i \in S : Total[i] \in Nat
  BY OutsFinite, OperationsAssumption
<1> QED BY <1>1, SumNat

\* More things cost no less.
LEMMA TotalMono == \A B \in SUBSET Outs : \A A \in SUBSET B : TotalOf(A) <= TotalOf(B)
<1> SUFFICES ASSUME NEW B \in SUBSET Outs, NEW A \in SUBSET B PROVE SumOver(Total, A) <= SumOver(Total, B)
  BY TotalIs
<1>1. IsFiniteSet(B) /\ \A i \in B : Total[i] \in Nat
  BY OutsFinite, OperationsAssumption
<1> QED BY <1>1, SumPart

LEMMA TotalDrop == \A A \in SUBSET Outs : \A i \in A : TotalOf(A) = Total[i] + TotalOf(A \ {i})
<1> SUFFICES ASSUME NEW A \in SUBSET Outs, NEW i \in A
             PROVE  SumOver(Total, A) = Total[i] + SumOver(Total, A \ {i})
  BY TotalIs
<1>1. IsFiniteSet(A) /\ \A j \in A : Total[j] \in Int
  BY OutsFinite, OperationsAssumption
<1> QED BY <1>1, SumRemove

\* One more thing costs at most its own total.
LEMMA TotalAdd ==
    \A B \in SUBSET Outs, A \in SUBSET Outs : \A i \in Outs :
        A \subseteq B \union {i} => TotalOf(A) <= TotalOf(B) + Total[i]
<1> SUFFICES ASSUME NEW B \in SUBSET Outs, NEW A \in SUBSET Outs, NEW i \in Outs, A \subseteq B \union {i}
             PROVE  TotalOf(A) <= TotalOf(B) + Total[i]
  OBVIOUS
<1>0. Total[i] \in Nat /\ TotalOf(A) \in Nat /\ TotalOf(B) \in Nat /\ TotalOf(A \ {i}) \in Nat
  BY TotalNat, OperationsAssumption
<1>1. CASE i \in A
  <2>1. TotalOf(A) = Total[i] + TotalOf(A \ {i})
    BY <1>1, TotalDrop
  <2>2. TotalOf(A \ {i}) <= TotalOf(B)
    BY TotalMono
  <2> QED BY <1>0, <2>1, <2>2
<1>2. CASE i \notin A
  <2>1. TotalOf(A) <= TotalOf(B)
    BY <1>2, TotalMono
  <2> QED BY <1>0, <2>1
<1> QED BY <1>1, <1>2

-----------------------------------------------------------------------------
(***************************************************************************)
(* The invariant of the operations.                                        *)
(***************************************************************************)
NoJob == CHOOSE o \in Ops : TRUE
Carrying == [at : {"idle", "propose", "opened", "close", "withdraw", "pulled", "confirm", "adopt",
                   "execute", "report"},
             job : Ops \union {NoJob}, num : 0..2, out : {"none", "executed", "failed", "void"}]

OpTypes ==
    /\ ostate \in [Ops -> {"none", "awaiting"} \union OpEnded]
    /\ oappr \in [Ops -> 0..2] /\ olevel \in [Ops -> {"none", "scope", "platform"}]
    /\ oflag \subseteq Ops /\ oldOps \subseteq Ops /\ agedOut \subseteq Outs /\ catalog \subseteq Carriers
    /\ payout \in [Outs -> {"none", "pending", "posted", "failed"}]
    /\ balance \in 0..Balance0 /\ shut \in BOOLEAN /\ blocked \in BOOLEAN
    /\ appr \in [Ops -> [1..2 -> ApprovalStates]]
    /\ apLevel \in [Ops -> [1..2 -> {"none", "scope", "platform"}]]
    /\ carry \in [Carriers -> Carrying]
    /\ inHand \in [Outs -> Int] /\ \A i \in Outs : inHand[i] >= -1
    /\ DOMAIN opFeed = Ops /\ DOMAIN paidUnder = Ops

\* One request holds the scope's budget lock, and what leaves the scope is at
\* most what its holder read; a payout that reads it has no row yet.
OneHolder == \A i, j \in Outs : inHand[i] # -1 /\ inHand[j] # -1 => i = j
HandFits(i) ==
    inHand[i] # -1 => /\ ScopeOut24h <= inHand[i]
                      /\ i \in Ops => IsPayout(i) /\ ostate[i] = "none"

BudgetInv == OneHolder /\ (\A i \in Outs : HandFits(i)) /\ BudgetHeld /\ RequestsAreCovered

\* The first approval stored decides: it is over the operation's own payload,
\* it is what the operation paid under, and it is what the client was told of.
OpFits(o) ==
    /\ oappr[o] = 0 => olevel[o] = "none"
    /\ oappr[o] # 0 => appr[o][oappr[o]] # "none" /\ <<o, oappr[o]>> \notin altered
    /\ ostate[o] = "executed" => oappr[o] # 0
    /\ paidUnder[o] = IF ostate[o] = "executed" THEN <<oappr[o]>> ELSE <<>>
    /\ ostate[o] = "none" => oappr[o] = 0 /\ opFeed[o] = <<>> /\ \A n \in 1..2 : appr[o][n] = "none"
    /\ ostate[o] = "awaiting" => opFeed[o] = IF oappr[o] = 0 THEN <<>> ELSE <<"requested">>
    /\ \/ opFeed[o] = <<>>
       \/ opFeed[o] = <<"requested">> /\ oappr[o] # 0
       \/ opFeed[o] = <<ostate[o]>> /\ ostate[o] \in {"rejected", "failed"}
       \/ opFeed[o] = <<"requested", ostate[o]>> /\ ostate[o] \in {"rejected", "failed"} /\ oappr[o] # 0

\* What may be reported of operation o under its approval n.
Truth(o, n, word) ==
    /\ word = "executed" => ostate[o] = "executed" /\ oappr[o] = n
    /\ word = "failed" => ostate[o] = "failed"
    /\ word = "void" => oappr[o] \notin {0, n} \/ ostate[o] \in {"rejected", "failed"}

CarrierFits(x) ==
    LET t == carry[x]
        o == carry[x].job
        n == carry[x].num
    IN  /\ t.at # "idle" => o \in Ops /\ ostate[o] # "none"
        /\ t.at \notin {"idle", "propose", "close"} => n \in 1..2 /\ appr[o][n] # "none"
        /\ t.at \in {"opened", "adopt", "execute"} => <<o, n>> \notin altered
        /\ t.at = "execute" => oappr[o] = n
        /\ t.at = "report" => t.out # "none" /\ Truth(o, n, t.out)

RowsInv ==
    /\ \A o \in Ops : OpFits(o)
    /\ \A o \in Ops, n \in 1..2 : Truth(o, n, appr[o][n])
    /\ \A x \in Carriers : CarrierFits(x)

OperationsInv == OpTypes /\ BudgetInv /\ RowsInv


-----------------------------------------------------------------------------
(***************************************************************************)
(* The budget: what a step may do to what is counted.                      *)
(***************************************************************************)
LEMMA Counted ==
    /\ PaidAlone \subseteq Autos /\ PaidAlone \in SUBSET Outs
    /\ CountedOperations \subseteq Ops /\ CountedOperations \in SUBSET Outs
    /\ CountedOperations \ oflag \in SUBSET Outs
    /\ {i \in Outs : payout[i] = "pending"} \in SUBSET Outs
BY DEF PaidAlone, CountedOperations, Outs

\* The same sets a step later.
LEMMA CountedNext ==
    /\ PaidAlone' \subseteq Autos /\ PaidAlone' \in SUBSET Outs
    /\ CountedOperations' \subseteq Ops /\ CountedOperations' \in SUBSET Outs
    /\ CountedOperations' \ oflag' \in SUBSET Outs
    /\ {i \in Outs : payout'[i] = "pending"} \in SUBSET Outs
BY DEF PaidAlone, CountedOperations, Outs

\* A step that counts nothing new, takes no lock and keeps the account covered.
LEMMA BudgetEases ==
    ASSUME OpTypes, BudgetInv, inHand' = inHand,
           PaidAlone' \subseteq PaidAlone, CountedOperations' \subseteq CountedOperations,
           CountedOperations' \ oflag' \subseteq CountedOperations \ oflag,
           \A o \in Ops : inHand[o] # -1 => ostate'[o] = ostate[o],
           RequestsAreCovered'
    PROVE  BudgetInv'
<1>1. /\ TotalOf(PaidAlone') <= TotalOf(PaidAlone)
      /\ TotalOf(CountedOperations') <= TotalOf(CountedOperations)
      /\ TotalOf(CountedOperations' \ oflag') <= TotalOf(CountedOperations \ oflag)
  BY Counted, TotalMono
<1>2. /\ TotalOf(PaidAlone) \in Nat /\ TotalOf(CountedOperations) \in Nat
      /\ TotalOf(CountedOperations \ oflag) \in Nat
      /\ TotalOf(PaidAlone') \in Nat /\ TotalOf(CountedOperations') \in Nat
      /\ TotalOf(CountedOperations' \ oflag') \in Nat
  BY Counted, CountedNext, TotalNat
<1>3. ScopeOut24h' <= ScopeOut24h /\ ScopeOut24h \in Nat /\ ScopeOut24h' \in Nat
  BY <1>1, <1>2 DEF ScopeOut24h
<1>4. BudgetHeld'
  BY <1>1, <1>2, OperationsAssumption DEF BudgetInv, BudgetHeld
<1>5. OneHolder'
  BY DEF BudgetInv, OneHolder
<1>6. ASSUME NEW i \in Outs PROVE HandFits(i)'
  <2>1. inHand[i] \in Int
    BY DEF OpTypes
  <2>2. HandFits(i)
    BY DEF BudgetInv
  <2> QED BY <1>3, <2>1, <2>2 DEF HandFits, IsPayout
<1> QED BY <1>4, <1>5, <1>6 DEF BudgetInv

\* A step that leaves the money alone and at most ends an operation.
LEMMA BudgetStays ==
    ASSUME OpTypes, BudgetInv, UNCHANGED <<inHand, payout, balance, agedOut, oflag>>,
           \A o \in Ops : /\ ostate'[o] = ostate[o] \/ (ostate[o] = "awaiting" /\ ostate'[o] \in OpEnded)
                          /\ olevel'[o] = olevel[o] \/ olevel[o] = "none"
    PROVE  BudgetInv'
<1>1. PaidAlone' = PaidAlone
  BY DEF PaidAlone
<1>2. CountedOperations' \subseteq CountedOperations
  BY DEF CountedOperations, OpEnded, IsPayout
<1>3. \A o \in Ops : inHand[o] # -1 => ostate'[o] = ostate[o]
  BY DEF BudgetInv, HandFits, Outs
<1>4. RequestsAreCovered'
  BY DEF BudgetInv, RequestsAreCovered, SpendableOut
<1> QED BY <1>1, <1>2, <1>3, <1>4, BudgetEases

\* The free lock is taken with what leaves the scope at that moment.
LEMMA BudgetTaken ==
    ASSUME OpTypes, BudgetInv, BudgetFree, NEW i \in Outs, Reads(i),
           i \in Ops => IsPayout(i) /\ ostate[i] = "none",
           UNCHANGED <<rowVars, moneyVars, clockVars>>
    PROVE  BudgetInv'
<1>0. ScopeOut24h' = ScopeOut24h /\ ScopeOut24h \in Nat
  <2>1. ScopeOut24h' = ScopeOut24h
    BY DEF ScopeOut24h, PaidAlone, CountedOperations, IsPayout, rowVars, moneyVars, clockVars
  <2>2. ScopeOut24h \in Nat
    BY Counted, TotalNat DEF ScopeOut24h
  <2> QED BY <2>1, <2>2
<1>1. inHand' = [inHand EXCEPT ![i] = ScopeOut24h]
  BY DEF Reads
<1>2. inHand'[i] = ScopeOut24h /\ \A j \in Outs \ {i} : inHand'[j] = -1
  BY <1>1 DEF OpTypes, BudgetFree
<1>3. OneHolder'
  BY <1>2 DEF OneHolder
<1>4. ASSUME NEW j \in Outs PROVE HandFits(j)'
  BY <1>0, <1>2 DEF HandFits, IsPayout, rowVars
<1>5. BudgetHeld' /\ RequestsAreCovered'
  BY DEF BudgetInv, BudgetHeld, RequestsAreCovered, SpendableOut, PaidAlone, CountedOperations,
         IsPayout, rowVars, moneyVars, clockVars
<1> QED BY <1>3, <1>4, <1>5 DEF BudgetInv

\* What a holder of the lock knows: nobody else holds it, and what it read
\* bounds what leaves the scope, flagged or not.
LEMMA HolderKnows ==
    ASSUME OpTypes, BudgetInv, NEW i \in Outs, Done(i)
    PROVE  /\ \A j \in Outs : inHand'[j] = -1
           /\ inHand[i] \in Nat
           /\ TotalOf(PaidAlone) + TotalOf(CountedOperations \ oflag) <= inHand[i]
<1>1. inHand[i] >= 0 /\ inHand[i] \in Int /\ inHand' = [inHand EXCEPT ![i] = -1]
  BY DEF Done, OpTypes
<1>2. \A j \in Outs : inHand'[j] = -1
  BY <1>1 DEF OpTypes, BudgetInv, OneHolder
<1>3. ScopeOut24h <= inHand[i]
  BY <1>1 DEF BudgetInv, HandFits
<1>4. /\ TotalOf(CountedOperations \ oflag) <= TotalOf(CountedOperations)
      /\ TotalOf(PaidAlone) \in Nat /\ TotalOf(CountedOperations) \in Nat
      /\ TotalOf(CountedOperations \ oflag) \in Nat
  BY Counted, TotalMono, TotalNat
<1> QED BY <1>1, <1>2, <1>3, <1>4 DEF ScopeOut24h

\* One more row that waits for its posting, of what could be spent.
LEMMA CoveredStill ==
    ASSUME OpTypes, NEW i \in Outs, SpendableOut >= Total[i], balance' = balance,
           \A j \in Outs : payout'[j] = "pending" => payout[j] = "pending" \/ j = i
    PROVE  RequestsAreCovered'
<1> DEFINE W == {j \in Outs : payout[j] = "pending"}
           V == {j \in Outs : payout'[j] = "pending"}
<1>1. W \in SUBSET Outs /\ V \in SUBSET Outs /\ V \subseteq W \union {i}
  OBVIOUS
<1>2. TotalOf(V) <= TotalOf(W) + Total[i] /\ TotalOf(V) \in Nat /\ TotalOf(W) \in Nat
  BY <1>1, TotalAdd, TotalNat
<1>3. balance \in Int /\ Total[i] \in Nat
  BY OperationsAssumption DEF OpTypes
<1>4. balance - TotalOf(W) >= Total[i]
  BY DEF SpendableOut
<1>5. balance - TotalOf(V) >= 0
  BY <1>2, <1>3, <1>4
<1>6. SpendableOut' = balance - TotalOf(V)
  BY DEF SpendableOut
<1> QED BY <1>5, <1>6 DEF RequestsAreCovered


LEMMA PayoutCommitKeepsBudget ==
    ASSUME OpTypes, BudgetInv, NEW i \in Autos, RecordPayoutCommits(i)
    PROVE  BudgetInv'
<1>0. i \in Outs /\ i \notin Ops /\ Done(i) /\ Total[i] \in Nat /\ {Budget} \subseteq Nat
  BY OperationsAssumption DEF RecordPayoutCommits, Outs
<1>1. UNCHANGED <<ostate, olevel, oflag, balance, agedOut>>
  BY DEF RecordPayoutCommits, rowVars, clockVars
<1>2. /\ \A j \in Outs : inHand'[j] = -1
      /\ inHand[i] \in Nat
      /\ TotalOf(PaidAlone) + TotalOf(CountedOperations \ oflag) <= inHand[i]
  BY <1>0, HolderKnows
<1>3. OneHolder' /\ \A j \in Outs : HandFits(j)'
  BY <1>2 DEF OneHolder, HandFits
<1>4. CountedOperations' = CountedOperations
  BY <1>1 DEF CountedOperations, IsPayout
<1>5. CASE AdmitAutoPayout(i, inHand[i]) /\ SpendableOut >= Total[i]
  <2>1. payout' = [payout EXCEPT ![i] = "pending"]
    BY <1>5 DEF RecordPayoutCommits
  <2>2. \A j \in Outs \ {i} : payout'[j] = payout[j]
    BY <2>1 DEF OpTypes
  <2>3. PaidAlone' \subseteq PaidAlone \union {i}
    BY <1>1, <2>2 DEF PaidAlone, Outs
  <2>4. TotalOf(PaidAlone') <= TotalOf(PaidAlone) + Total[i]
    BY <1>0, <2>3, Counted, CountedNext, TotalAdd
  <2>5. inHand[i] + Total[i] <= Budget
    BY <1>5 DEF AdmitAutoPayout
  <2>6. /\ TotalOf(PaidAlone') \in Nat /\ TotalOf(PaidAlone) \in Nat
        /\ TotalOf(CountedOperations \ oflag) \in Nat
    BY Counted, CountedNext, TotalNat
  <2>7. BudgetHeld'
    <3>1. TotalOf(PaidAlone') + TotalOf(CountedOperations \ oflag) <= Budget
      BY <1>0, <1>2, <2>4, <2>5, <2>6
    <3>2. CountedOperations' \ oflag' = CountedOperations \ oflag
      BY <1>1, <1>4
    <3> QED BY <3>1, <3>2 DEF BudgetHeld
  <2>8. RequestsAreCovered'
    BY <1>0, <1>1, <1>5, <2>2, CoveredStill
  <2> QED BY <1>3, <2>7, <2>8 DEF BudgetInv
<1>6. CASE ~(AdmitAutoPayout(i, inHand[i]) /\ SpendableOut >= Total[i])
  <2>1. payout' = payout
    BY <1>6 DEF RecordPayoutCommits
  <2>2. BudgetHeld' /\ RequestsAreCovered'
    BY <1>1, <1>4, <2>1 DEF BudgetInv, BudgetHeld, PaidAlone, RequestsAreCovered, SpendableOut
  <2> QED BY <1>3, <2>2 DEF BudgetInv
<1> QED BY <1>5, <1>6

\* A payout that waits for approval is over the budget and flagged, or counted within it.
LEMMA OperationCommitKeepsBudget ==
    ASSUME OpTypes, BudgetInv, NEW o \in Ops, RecordOperationCommits(o)
    PROVE  BudgetInv'
<1>0. o \in Outs /\ Done(o) /\ Total[o] \in Nat /\ {Budget} \subseteq Nat
  BY OperationsAssumption DEF RecordOperationCommits, Outs
<1>1. UNCHANGED <<olevel, balance, agedOut, payout>>
  BY DEF RecordOperationCommits, moneyVars, clockVars
<1>2. /\ \A j \in Outs : inHand'[j] = -1
      /\ inHand[o] \in Nat
      /\ TotalOf(PaidAlone) + TotalOf(CountedOperations \ oflag) <= inHand[o]
  BY <1>0, HolderKnows
<1>3. OneHolder' /\ \A j \in Outs : HandFits(j)'
  BY <1>2 DEF OneHolder, HandFits
<1>4. PaidAlone' = PaidAlone
  BY <1>1 DEF PaidAlone
<1>5. RequestsAreCovered'
  BY <1>1 DEF BudgetInv, RequestsAreCovered, SpendableOut
<1>6. ostate' = ostate \/ ostate' = [ostate EXCEPT ![o] = "awaiting"]
  BY DEF RecordOperationCommits, RecordOperation
<1>7. \A p \in Ops \ {o} : ostate'[p] = ostate[p]
  BY <1>6 DEF OpTypes
<1>8. /\ oflag \subseteq oflag'
      /\ o \in oflag' \/ ostate' = ostate \/ inHand[o] + Total[o] <= Budget
  <2>1. CASE SpendableOut >= Total[o] /\ OverScopeBudget(o, inHand[o])
    BY <2>1 DEF RecordOperationCommits, RecordOperation
  <2>2. CASE ~(SpendableOut >= Total[o] /\ OverScopeBudget(o, inHand[o]))
    <3>1. oflag' = oflag
      BY <2>2 DEF RecordOperationCommits, RecordOperation
    <3>2. ostate' = ostate \/ ~OverScopeBudget(o, inHand[o])
      BY <2>2 DEF RecordOperationCommits, RecordOperation
    <3>3. ~OverScopeBudget(o, inHand[o]) => inHand[o] + Total[o] <= Budget
      BY <1>0, <1>2 DEF OverScopeBudget
    <3> QED BY <3>1, <3>2, <3>3
  <2> QED BY <2>1, <2>2
<1>9. BudgetHeld'
  <2>1. /\ TotalOf(PaidAlone) \in Nat /\ TotalOf(CountedOperations \ oflag) \in Nat
        /\ TotalOf(CountedOperations' \ oflag') \in Nat
    BY Counted, CountedNext, TotalNat
  <2>2. CASE o \in oflag' \/ ostate' = ostate
    <3>1. CountedOperations' \ oflag' \subseteq CountedOperations \ oflag
      BY <1>1, <1>7, <1>8, <2>2 DEF CountedOperations, IsPayout
    <3>2. TotalOf(CountedOperations' \ oflag') <= TotalOf(CountedOperations \ oflag)
      BY <3>1, Counted, TotalMono
    <3>3. TotalOf(PaidAlone) + TotalOf(CountedOperations \ oflag) <= Budget
      BY DEF BudgetInv, BudgetHeld
    <3> QED BY <1>0, <1>4, <2>1, <3>2, <3>3 DEF BudgetHeld
  <2>3. CASE inHand[o] + Total[o] <= Budget
    <3>1. CountedOperations' \ oflag' \subseteq (CountedOperations \ oflag) \union {o}
      BY <1>1, <1>7, <1>8 DEF CountedOperations, IsPayout
    <3>2. TotalOf(CountedOperations' \ oflag') <= TotalOf(CountedOperations \ oflag) + Total[o]
      BY <1>0, <3>1, Counted, CountedNext, TotalAdd
    <3> QED BY <1>0, <1>2, <1>4, <2>1, <2>3, <3>2 DEF BudgetHeld
  <2> QED BY <1>8, <2>2, <2>3
<1> QED BY <1>3, <1>5, <1>9 DEF BudgetInv

\* A transfer is not counted: it leaves no scope's budget.
LEMMA TransferKeepsBudget ==
    ASSUME OpTypes, BudgetInv, NEW o \in Ops, RequestTransfer(o)
    PROVE  BudgetInv'
<1>1. UNCHANGED <<olevel, balance, agedOut, payout, inHand>> /\ ~IsPayout(o) /\ ostate[o] = "none"
  BY DEF RequestTransfer, moneyVars, clockVars
<1>2. oflag' = oflag /\ (ostate' = ostate \/ ostate' = [ostate EXCEPT ![o] = "awaiting"])
  BY DEF RequestTransfer, RecordOperation
<1>3. \A p \in Ops \ {o} : ostate'[p] = ostate[p]
  BY <1>2 DEF OpTypes
<1>4. PaidAlone' = PaidAlone
  BY <1>1 DEF PaidAlone
<1>5. CountedOperations' = CountedOperations
  BY <1>1, <1>3 DEF CountedOperations, IsPayout
<1>6. \A p \in Ops : inHand[p] # -1 => ostate'[p] = ostate[p]
  BY <1>1, <1>3 DEF BudgetInv, HandFits, Outs, IsPayout
<1>7. RequestsAreCovered'
  BY <1>1 DEF BudgetInv, RequestsAreCovered, SpendableOut
<1> QED BY <1>1, <1>2, <1>4, <1>5, <1>6, <1>7, BudgetEases

LEMMA ExecuteKeepsBudget ==
    ASSUME OpTypes, BudgetInv, NEW x \in Carriers, Execute(x), carry[x].job \in Ops
    PROVE  BudgetInv'
<1>a. PICK o \in Ops : o = carry[x].job
  OBVIOUS
<1>0. o \in Outs /\ UNCHANGED <<olevel, oflag, balance, agedOut, inHand>>
  BY DEF Execute, clockVars, Outs
<1>1. CASE UNCHANGED <<ostate, payout>>
  <2>1. UNCHANGED <<inHand, payout, balance, agedOut, oflag>>
    BY <1>0, <1>1
  <2>2. \A p \in Ops : /\ ostate'[p] = ostate[p] \/ (ostate[p] = "awaiting" /\ ostate'[p] \in OpEnded)
                       /\ olevel'[p] = olevel[p] \/ olevel[p] = "none"
    BY <1>0, <1>1
  <2> QED BY <2>1, <2>2, BudgetStays
<1>2. CASE ostate[o] = "awaiting" /\ ~MayMove(o) /\ ostate' = [ostate EXCEPT ![o] = "failed"] /\ payout' = payout
  <2>1. UNCHANGED <<inHand, payout, balance, agedOut, oflag>>
    BY <1>0, <1>2
  <2>2. \A p \in Ops : /\ ostate'[p] = ostate[p] \/ (ostate[p] = "awaiting" /\ ostate'[p] \in OpEnded)
                       /\ olevel'[p] = olevel[p] \/ olevel[p] = "none"
    BY <1>0, <1>2 DEF OpTypes, OpEnded
  <2> QED BY <2>1, <2>2, BudgetStays
<1>3. CASE /\ ostate[o] = "awaiting" /\ MayMove(o) /\ ostate' = [ostate EXCEPT ![o] = "executed"]
           /\ payout' = [payout EXCEPT ![o] = "pending"]
  <2>1. \A p \in Ops : ostate'[p] = ostate[p] \/ (p = o /\ ostate'[p] = "executed")
    BY <1>3 DEF OpTypes
  <2>2. \A j \in Outs \ {o} : payout'[j] = payout[j]
    BY <1>3 DEF OpTypes
  <2>3. PaidAlone' = PaidAlone
    BY <1>0, <2>2, OperationsAssumption DEF PaidAlone, Outs
  <2>4. CountedOperations' \subseteq CountedOperations
    BY <1>0, <1>3, <2>1 DEF CountedOperations, IsPayout
  <2>5. RequestsAreCovered'
    BY <1>0, <1>3, <2>2, CoveredStill DEF MayMove
  <2>6. \A p \in Ops : inHand[p] # -1 => ostate'[p] = ostate[p]
    BY <1>3, <2>1 DEF BudgetInv, HandFits, Outs
  <2> QED BY <1>0, <2>3, <2>4, <2>5, <2>6, BudgetEases
<1> QED BY <1>a, <1>1, <1>2, <1>3 DEF Execute, Awaits

\* A posting takes from the account what its row had waiting.
LEMMA PostKeepsBudget ==
    ASSUME OpTypes, BudgetInv, NEW i \in Outs, NEW to \in {"posted", "failed"}, PostRow(i, to)
    PROVE  BudgetInv' /\ balance' \in 0..Balance0
<1>0. /\ UNCHANGED <<ostate, olevel, oflag, agedOut, inHand>> /\ payout[i] = "pending"
      /\ payout' = [payout EXCEPT ![i] = to]
      /\ balance' = IF to = "posted" THEN balance - Total[i] ELSE balance
      /\ to = "posted" => balance >= Total[i]
  BY DEF PostRow, rowVars, clockVars
<1>1. \A j \in Outs : payout'[j] = IF j = i THEN to ELSE payout[j]
  BY <1>0 DEF OpTypes
<1>2. PaidAlone' \subseteq PaidAlone
  BY <1>0, <1>1 DEF PaidAlone, Outs
<1>3. CountedOperations' = CountedOperations
  BY <1>0 DEF CountedOperations, IsPayout
<1> DEFINE W == {j \in Outs : payout[j] = "pending"}
           V == {j \in Outs : payout'[j] = "pending"}
<1>4. i \in W /\ V = W \ {i} /\ W \in SUBSET Outs /\ V \in SUBSET Outs
  BY <1>0, <1>1
<1>5. TotalOf(W) = Total[i] + TotalOf(V) /\ TotalOf(V) \in Nat
  BY <1>4, TotalDrop, TotalNat
<1>6. balance \in 0..Balance0 /\ Total[i] \in Nat /\ {Balance0} \subseteq Nat
  BY OperationsAssumption DEF OpTypes
<1>7. balance - TotalOf(W) >= 0
  BY DEF BudgetInv, RequestsAreCovered, SpendableOut
<1>8. balance' - TotalOf(V) >= 0 /\ balance' \in 0..Balance0
  <2> HIDE DEF W, V
  <2> QED BY <1>0, <1>5, <1>6, <1>7
<1>9. RequestsAreCovered'
  BY <1>8 DEF RequestsAreCovered, SpendableOut
<1> QED BY <1>0, <1>2, <1>3, <1>8, <1>9, BudgetEases

LEMMA DayKeepsBudget ==
    ASSUME OpTypes, BudgetInv, NEW i \in Outs, DayOver(i)
    PROVE  BudgetInv'
<1>1. UNCHANGED <<ostate, olevel, oflag, payout, balance, inHand>> /\ agedOut \subseteq agedOut'
  BY DEF DayOver, rowVars, moneyVars
<1>2. PaidAlone' \subseteq PaidAlone /\ CountedOperations' \subseteq CountedOperations
  BY <1>1 DEF PaidAlone, CountedOperations, IsPayout
<1>3. RequestsAreCovered'
  BY <1>1 DEF BudgetInv, RequestsAreCovered, SpendableOut
<1> QED BY <1>1, <1>2, <1>3, BudgetEases


-----------------------------------------------------------------------------
(***************************************************************************)
(* The operations, their approvals and who carries them.                   *)
(***************************************************************************)
\* What never turns back: the approval stored, an end, a request that was
\* made, an approval that was opened and the payload it is over.
Onward(o) ==
    /\ oappr[o] # 0 => oappr'[o] = oappr[o]
    /\ ostate[o] \in OpEnded => ostate'[o] = ostate[o]
    /\ ostate[o] # "none" => ostate'[o] # "none"
    /\ \A n \in 1..2 : appr[o][n] # "none" => /\ appr'[o][n] # "none"
                                              /\ <<o, n>> \in altered' => <<o, n>> \in altered

\* A step that leaves an operation and its approvals as they are.
Apart(o) ==
    /\ ostate'[o] = ostate[o] /\ oappr'[o] = oappr[o] /\ olevel'[o] = olevel[o]
    /\ paidUnder'[o] = paidUnder[o] /\ opFeed'[o] = opFeed[o] /\ appr'[o] = appr[o]
    /\ \A n \in 1..2 : <<o, n>> \in altered' => <<o, n>> \in altered

LEMMA ApartGoesOn == \A o \in Ops : Apart(o) => Onward(o)
BY DEF Apart, Onward

LEMMA ApartFits ==
    ASSUME OpTypes, RowsInv, NEW o \in Ops, Apart(o)
    PROVE  OpFits(o)' /\ \A n \in 1..2 : Truth(o, n, appr[o][n])'
<1>1. OpFits(o) /\ \A n \in 1..2 : Truth(o, n, appr[o][n])
  BY DEF RowsInv
<1>2. oappr[o] \in 0..2
  BY DEF OpTypes
<1>3. oappr[o] # 0 => appr'[o][oappr[o]] # "none" /\ <<o, oappr[o]>> \notin altered'
  <2>1. oappr[o] # 0 => oappr[o] \in 1..2
    BY <1>2
  <2> QED BY <1>1, <2>1 DEF OpFits, Apart
<1>4. OpFits(o)'
  BY <1>1, <1>3 DEF OpFits, Apart
<1>5. \A n \in 1..2 : Truth(o, n, appr[o][n])'
  BY <1>1 DEF Truth, Apart
<1> QED BY <1>4, <1>5

\* What was true to report of an operation stays true.
LEMMA TruthLasts ==
    ASSUME OpTypes, NEW o \in Ops, NEW n \in 1..2, NEW word, Onward(o), Truth(o, n, word)
    PROVE  Truth(o, n, word)'
<1>1. n # 0 /\ {"executed", "rejected", "failed"} = OpEnded
  BY DEF OpEnded
<1>2. word = "executed" => ostate'[o] = "executed" /\ oappr'[o] = n
  BY <1>1 DEF Truth, Onward
<1>3. word = "failed" => ostate'[o] = "failed"
  BY <1>1 DEF Truth, Onward
<1>4. word = "void" => oappr'[o] \notin {0, n} \/ ostate'[o] \in {"rejected", "failed"}
  BY <1>1 DEF Truth, Onward
<1> QED BY <1>2, <1>3, <1>4 DEF Truth

\* An executor that takes no step knows what it knew.
LEMMA CarrierWaits ==
    ASSUME OpTypes, RowsInv, \A o \in Ops : Onward(o), NEW x \in Carriers, carry'[x] = carry[x]
    PROVE  CarrierFits(x)'
<1>a. PICK t, o, n, w : t = carry[x].at /\ o = carry[x].job /\ n = carry[x].num /\ w = carry[x].out
  OBVIOUS
<1>b. t = carry'[x].at /\ o = carry'[x].job /\ n = carry'[x].num /\ w = carry'[x].out
  BY <1>a
<1>1. /\ t # "idle" => o \in Ops /\ ostate[o] # "none"
      /\ t \notin {"idle", "propose", "close"} => n \in 1..2 /\ appr[o][n] # "none"
      /\ t \in {"opened", "adopt", "execute"} => <<o, n>> \notin altered
      /\ t = "execute" => oappr[o] = n
      /\ t = "report" => w # "none" /\ Truth(o, n, w)
  BY <1>a DEF RowsInv, CarrierFits
<1>2. CASE t = "idle"
  BY <1>b, <1>2 DEF CarrierFits
<1>3. CASE t \in {"propose", "close"}
  <2>1. o \in Ops /\ ostate'[o] # "none"
    BY <1>1, <1>3 DEF Onward
  <2> QED BY <1>b, <1>3, <2>1 DEF CarrierFits
<1>4. CASE t \notin {"idle", "propose", "close"}
  <2>1. o \in Ops /\ n \in 1..2 /\ appr[o][n] # "none" /\ Onward(o)
    BY <1>1, <1>4
  <2>2. ostate'[o] # "none" /\ appr'[o][n] # "none"
    BY <1>1, <1>4, <2>1 DEF Onward
  <2>3. t \in {"opened", "adopt", "execute"} => <<o, n>> \notin altered'
    BY <1>1, <2>1 DEF Onward
  <2>4. t = "execute" => oappr'[o] = n
    BY <1>1, <2>1 DEF Onward
  <2>5. t = "report" => w # "none" /\ Truth(o, n, w)'
    BY <1>1, <2>1, TruthLasts
  <2>6. t = "report" => w # "none" /\ Truth(o, n, carry[x].out)'
    BY <1>b, <2>5 DEF Truth
  <2> QED BY <1>b, <2>1, <2>2, <2>3, <2>4, <2>6 DEF CarrierFits, Truth
<1> QED BY <1>2, <1>3, <1>4

\* A step that touches no operation and no executor.
LEMMA RowsStand ==
    ASSUME OpTypes, RowsInv, UNCHANGED <<ostate, oappr, olevel, paidUnder, opFeed, appr, altered, carry>>
    PROVE  RowsInv'
<1>1. \A o \in Ops : Apart(o)
  BY DEF Apart
<1>2. \A o \in Ops : OpFits(o)' /\ \A n \in 1..2 : Truth(o, n, appr[o][n])'
  BY <1>1, ApartFits
<1>3. \A x \in Carriers : CarrierFits(x)'
  BY <1>1, ApartGoesOn, CarrierWaits
<1> QED BY <1>2, <1>3 DEF RowsInv

\* A step about one operation that moves no executor: the client's, the approvers'.
LEMMA RowsOneOp ==
    ASSUME OpTypes, RowsInv, NEW j \in Ops, carry' = carry,
           \A o \in Ops \ {j} : Apart(o), Onward(j),
           OpFits(j)', \A n \in 1..2 : Truth(j, n, appr[j][n])'
    PROVE  RowsInv'
<1>1. \A o \in Ops : OpFits(o)' /\ \A n \in 1..2 : Truth(o, n, appr[o][n])'
  BY ApartFits
<1>2. \A o \in Ops : Onward(o)
  BY ApartGoesOn
<1>3. \A x \in Carriers : CarrierFits(x)'
  BY <1>2, CarrierWaits
<1> QED BY <1>1, <1>3 DEF RowsInv

\* A step of one executor about its operation.
LEMMA RowsCarried ==
    ASSUME OpTypes, RowsInv, NEW j \in Ops, NEW x \in Carriers,
           \A y \in Carriers \ {x} : carry'[y] = carry[y], CarrierFits(x)',
           \A o \in Ops \ {j} : Apart(o), Onward(j),
           OpFits(j)', \A n \in 1..2 : Truth(j, n, appr[j][n])'
    PROVE  RowsInv'
<1>1. \A o \in Ops : OpFits(o)' /\ \A n \in 1..2 : Truth(o, n, appr[o][n])'
  BY ApartFits
<1>2. \A o \in Ops : Onward(o)
  BY ApartGoesOn
<1>3. \A y \in Carriers : CarrierFits(y)'
  BY <1>2, CarrierWaits
<1> QED BY <1>1, <1>3 DEF RowsInv

\* A step of one executor that touches no operation.
LEMMA RowsRead ==
    ASSUME OpTypes, RowsInv, NEW x \in Carriers,
           UNCHANGED <<ostate, oappr, olevel, paidUnder, opFeed, appr, altered>>,
           \A y \in Carriers \ {x} : carry'[y] = carry[y], CarrierFits(x)'
    PROVE  RowsInv'
<1>1. \A o \in Ops : Apart(o)
  BY DEF Apart
<1>2. \A o \in Ops : OpFits(o)' /\ \A n \in 1..2 : Truth(o, n, appr[o][n])'
  BY <1>1, ApartFits
<1>3. \A y \in Carriers : CarrierFits(y)'
  BY <1>1, ApartGoesOn, CarrierWaits
<1> QED BY <1>2, <1>3 DEF RowsInv


\* What becomes of an executor's registers.
LEMMA CarryTo ==
    ASSUME OpTypes, NEW x \in Carriers
    PROVE  /\ Rests(x) => /\ carry' \in [Carriers -> Carrying]
                          /\ \A y \in Carriers \ {x} : carry'[y] = carry[y]
                          /\ carry'[x].at = "idle"
           /\ \A to \in {"close", "confirm", "adopt", "execute"} :
                 Becomes(x, to) => /\ carry' \in [Carriers -> Carrying]
                                   /\ \A y \in Carriers \ {x} : carry'[y] = carry[y]
                                   /\ carry'[x].at = to /\ carry'[x].job = carry[x].job
                                   /\ carry'[x].num = carry[x].num
           /\ \A o \in Ops, n \in 0..2, to \in {"close", "propose", "withdraw", "opened", "pulled"} :
                 Takes(x, o, n, to) => /\ carry' \in [Carriers -> Carrying]
                                       /\ \A y \in Carriers \ {x} : carry'[y] = carry[y]
                                       /\ carry'[x].at = to /\ carry'[x].job = o /\ carry'[x].num = n
           /\ \A w \in {"executed", "failed", "void"} :
                 Leaves(x, w) => /\ carry' \in [Carriers -> Carrying]
                                 /\ \A y \in Carriers \ {x} : carry'[y] = carry[y]
                                 /\ carry'[x].at = "report" /\ carry'[x].job = carry[x].job
                                 /\ carry'[x].num = carry[x].num /\ carry'[x].out = w
<1>0. carry \in [Carriers -> Carrying] /\ carry[x] \in Carrying
  BY DEF OpTypes
<1>1. Resting \in Carrying /\ Resting.at = "idle"
  BY DEF Resting, Carrying, NoJob
<1>2. ASSUME Rests(x)
      PROVE  /\ carry' \in [Carriers -> Carrying] /\ carry'[x].at = "idle"
             /\ \A y \in Carriers \ {x} : carry'[y] = carry[y]
  BY <1>0, <1>1, <1>2 DEF Rests
<1>3. ASSUME NEW to \in {"close", "confirm", "adopt", "execute"}, Becomes(x, to)
      PROVE  /\ carry' \in [Carriers -> Carrying]
             /\ \A y \in Carriers \ {x} : carry'[y] = carry[y]
             /\ carry'[x].at = to /\ carry'[x].job = carry[x].job /\ carry'[x].num = carry[x].num
  <2>1. carry' = [carry EXCEPT ![x] = [carry[x] EXCEPT !.at = to]]
    BY <1>3 DEF Becomes
  <2>2. /\ [carry[x] EXCEPT !.at = to] \in Carrying
        /\ [carry[x] EXCEPT !.at = to].at = to
        /\ [carry[x] EXCEPT !.at = to].job = carry[x].job
        /\ [carry[x] EXCEPT !.at = to].num = carry[x].num
    BY <1>0 DEF Carrying
  <2> QED BY <1>0, <2>1, <2>2
<1>4. ASSUME NEW o \in Ops, NEW n \in 0..2,
             NEW to \in {"close", "propose", "withdraw", "opened", "pulled"}, Takes(x, o, n, to)
      PROVE  /\ carry' \in [Carriers -> Carrying]
             /\ \A y \in Carriers \ {x} : carry'[y] = carry[y]
             /\ carry'[x].at = to /\ carry'[x].job = o /\ carry'[x].num = n
  <2> DEFINE r == [Resting EXCEPT !.at = to, !.job = o, !.num = n]
  <2>1. carry' = [carry EXCEPT ![x] = r]
    BY <1>4 DEF Takes
  <2>2. r \in Carrying /\ r.at = to /\ r.job = o /\ r.num = n
    BY <1>1 DEF Carrying, Resting
  <2> HIDE DEF r
  <2> QED BY <1>0, <2>1, <2>2
<1>5. ASSUME NEW w \in {"executed", "failed", "void"}, Leaves(x, w)
      PROVE  /\ carry' \in [Carriers -> Carrying]
             /\ \A y \in Carriers \ {x} : carry'[y] = carry[y]
             /\ carry'[x].at = "report" /\ carry'[x].job = carry[x].job
             /\ carry'[x].num = carry[x].num /\ carry'[x].out = w
  <2> DEFINE r == [carry[x] EXCEPT !.at = "report", !.out = w]
  <2>1. carry' = [carry EXCEPT ![x] = r]
    BY <1>0, <1>5, Zenon DEF Leaves
  <2>2. r \in Carrying /\ r.at = "report" /\ r.job = carry[x].job /\ r.num = carry[x].num /\ r.out = w
    BY <1>0 DEF Carrying
  <2> HIDE DEF r
  <2> QED BY <1>0, <2>1, <2>2
<1> QED BY <1>2, <1>3, <1>4, <1>5

-----------------------------------------------------------------------------
(***************************************************************************)
(* Every step keeps the invariant: the requests.                           *)
(***************************************************************************)
LEMMA PayoutReads ==
    ASSUME OperationsInv, NEW i \in Autos, RecordPayoutReads(i)
    PROVE  OperationsInv'
<1>0. /\ i \in Outs /\ i \notin Ops /\ BudgetFree /\ Reads(i) /\ OpTypes /\ BudgetInv /\ RowsInv
      /\ UNCHANGED <<rowVars, moneyVars, clockVars, worldVars, apprVars, carry, opFeed>>
  BY OperationsAssumption DEF RecordPayoutReads, OperationsInv, Outs
<1>1. BudgetInv'
  <2>1. UNCHANGED <<rowVars, moneyVars, clockVars>>
    BY <1>0
  <2> QED BY <1>0, <2>1, BudgetTaken
<1>2. ScopeOut24h \in Nat
  BY Counted, TotalNat DEF ScopeOut24h
<1>3. OpTypes'
  BY <1>0, <1>2 DEF OpTypes, Reads, rowVars, moneyVars, clockVars, worldVars, apprVars
<1>4. RowsInv'
  BY <1>0, RowsStand DEF rowVars, moneyVars, apprVars
<1> QED BY <1>1, <1>3, <1>4 DEF OperationsInv

LEMMA PayoutCommits ==
    ASSUME OperationsInv, NEW i \in Autos, RecordPayoutCommits(i)
    PROVE  OperationsInv'
<1>0. /\ i \in Outs /\ OpTypes /\ BudgetInv /\ RowsInv
      /\ UNCHANGED <<rowVars, balance, paidUnder, clockVars, worldVars, apprVars, carry, opFeed>>
      /\ inHand' = [inHand EXCEPT ![i] = -1]
      /\ payout' = payout \/ payout' = [payout EXCEPT ![i] = "pending"]
  BY DEF RecordPayoutCommits, Done, OperationsInv, Outs
<1>1. BudgetInv'
  BY <1>0, PayoutCommitKeepsBudget
<1>2. payout' \in [Outs -> {"none", "pending", "posted", "failed"}]
  BY <1>0 DEF OpTypes
<1>3. inHand' \in [Outs -> Int] /\ \A j \in Outs : inHand'[j] >= -1
  BY <1>0 DEF OpTypes
<1>4. OpTypes'
  BY <1>0, <1>2, <1>3 DEF OpTypes, rowVars, clockVars, worldVars, apprVars
<1>5. RowsInv'
  BY <1>0, RowsStand DEF rowVars, apprVars
<1> QED BY <1>1, <1>4, <1>5 DEF OperationsInv

LEMMA OperationReads ==
    ASSUME OperationsInv, NEW o \in Ops, RecordOperationReads(o)
    PROVE  OperationsInv'
<1>0. /\ o \in Outs /\ IsPayout(o) /\ ostate[o] = "none" /\ BudgetFree /\ Reads(o)
      /\ OpTypes /\ BudgetInv /\ RowsInv
      /\ UNCHANGED <<rowVars, moneyVars, clockVars, worldVars, apprVars, carry, opFeed>>
  BY DEF RecordOperationReads, OperationsInv, Outs
<1>1. BudgetInv'
  <2>1. UNCHANGED <<rowVars, moneyVars, clockVars>>
    BY <1>0
  <2> QED BY <1>0, <2>1, BudgetTaken
<1>2. ScopeOut24h \in Nat
  BY Counted, TotalNat DEF ScopeOut24h
<1>3. OpTypes'
  BY <1>0, <1>2 DEF OpTypes, Reads, rowVars, moneyVars, clockVars, worldVars, apprVars
<1>4. RowsInv'
  BY <1>0, RowsStand DEF rowVars, moneyVars, apprVars
<1> QED BY <1>1, <1>3, <1>4 DEF OperationsInv

\* A request that starts to wait has no approval and has told nothing.
LEMMA RequestKeepsRows ==
    ASSUME OpTypes, RowsInv, NEW o \in Ops, ostate[o] = "none",
           ostate' = ostate \/ ostate' = [ostate EXCEPT ![o] = "awaiting"],
           UNCHANGED <<oappr, olevel, paidUnder, opFeed, appr, altered, carry>>
    PROVE  RowsInv'
<1>1. \A p \in Ops \ {o} : ostate'[p] = ostate[p]
  BY DEF OpTypes
<1>2. ostate'[o] \in {"none", "awaiting"}
  BY DEF OpTypes
<1>3. \A p \in Ops \ {o} : Apart(p)
  BY <1>1 DEF Apart
<1>4. Onward(o)
  BY DEF Onward, OpEnded
<1>5. OpFits(o)'
  BY <1>2 DEF RowsInv, OpFits
<1>6. \A n \in 1..2 : Truth(o, n, appr[o][n])'
  BY DEF RowsInv, OpFits, Truth
<1> QED BY <1>3, <1>4, <1>5, <1>6, RowsOneOp

LEMMA OperationCommits ==
    ASSUME OperationsInv, NEW o \in Ops, RecordOperationCommits(o)
    PROVE  OperationsInv'
<1>0. /\ o \in Outs /\ OpTypes /\ BudgetInv /\ RowsInv
      /\ UNCHANGED <<oappr, olevel, moneyVars, clockVars, worldVars, apprVars, carry, opFeed>>
      /\ inHand[o] >= 0 /\ inHand' = [inHand EXCEPT ![o] = -1]
      /\ ostate' = ostate \/ ostate' = [ostate EXCEPT ![o] = "awaiting"]
      /\ oflag' \subseteq oflag \union {o}
  BY DEF RecordOperationCommits, RecordOperation, Done, OperationsInv, Outs
<1>1. BudgetInv'
  BY <1>0, OperationCommitKeepsBudget
<1>2. ostate[o] = "none"
  <2>1. inHand[o] # -1
    BY <1>0 DEF OpTypes
  <2> QED BY <1>0, <2>1 DEF BudgetInv, HandFits
<1>3. inHand' \in [Outs -> Int] /\ \A j \in Outs : inHand'[j] >= -1
  BY <1>0 DEF OpTypes
<1>4. ostate' \in [Ops -> {"none", "awaiting"} \union OpEnded]
  BY <1>0 DEF OpTypes
<1>5. OpTypes'
  BY <1>0, <1>3, <1>4 DEF OpTypes, moneyVars, clockVars, worldVars, apprVars
<1>6. RowsInv'
  BY <1>0, <1>2, RequestKeepsRows DEF moneyVars, apprVars
<1> QED BY <1>1, <1>5, <1>6 DEF OperationsInv

LEMMA TransferRequested ==
    ASSUME OperationsInv, NEW o \in Ops, RequestTransfer(o)
    PROVE  OperationsInv'
<1>0. /\ OpTypes /\ BudgetInv /\ RowsInv
      /\ UNCHANGED <<oappr, olevel, inHand, moneyVars, clockVars, worldVars, apprVars, carry, opFeed>>
      /\ ostate[o] = "none" /\ oflag' = oflag
      /\ ostate' = ostate \/ ostate' = [ostate EXCEPT ![o] = "awaiting"]
  BY DEF RequestTransfer, RecordOperation, OperationsInv
<1>1. BudgetInv'
  BY <1>0, TransferKeepsBudget
<1>2. ostate' \in [Ops -> {"none", "awaiting"} \union OpEnded]
  BY <1>0 DEF OpTypes
<1>3. OpTypes'
  BY <1>0, <1>2 DEF OpTypes, moneyVars, clockVars, worldVars, apprVars
<1>4. RowsInv'
  BY <1>0, RequestKeepsRows DEF moneyVars, apprVars
<1> QED BY <1>1, <1>3, <1>4 DEF OperationsInv


-----------------------------------------------------------------------------
(***************************************************************************)
(* The executors' steps.                                                   *)
(***************************************************************************)
LEMMA ReadKeeps ==
    ASSUME OperationsInv, NEW x \in Carriers,
           UNCHANGED <<rowVars, moneyVars, clockVars, shut, blocked, apprVars, inHand, opFeed>>,
           catalog' \subseteq Carriers, carry' \in [Carriers -> Carrying],
           \A y \in Carriers \ {x} : carry'[y] = carry[y], CarrierFits(x)'
    PROVE  OperationsInv'
<1>0. /\ OpTypes /\ BudgetInv /\ RowsInv
      /\ UNCHANGED <<ostate, oappr, olevel, oflag, payout, balance, paidUnder, agedOut, oldOps,
                     appr, apLevel, altered>>
  BY DEF OperationsInv, rowVars, moneyVars, clockVars, apprVars
<1>1. OpTypes'
  BY <1>0 DEF OpTypes
<1>2. BudgetInv'
  <2>1. UNCHANGED <<inHand, payout, balance, agedOut, oflag>>
    BY <1>0
  <2>2. \A o \in Ops : ostate'[o] = ostate[o] /\ olevel'[o] = olevel[o]
    BY <1>0
  <2> QED BY <1>0, <2>1, <2>2, BudgetStays
<1>3. RowsInv'
  <2>1. UNCHANGED <<ostate, oappr, olevel, paidUnder, opFeed, appr, altered>>
    BY <1>0
  <2> QED BY <1>0, <2>1, RowsRead
<1> QED BY <1>1, <1>2, <1>3 DEF OperationsInv

LEMMA IdleFits == ASSUME NEW x \in Carriers, carry'[x].at = "idle" PROVE CarrierFits(x)'
BY DEF CarrierFits

\* An executor that takes an operation that waits.
LEMMA TakenKeeps ==
    ASSUME OperationsInv, NEW x \in Carriers, NEW o \in Ops, NEW n \in 0..2, NEW to \in {"close", "propose"},
           ostate[o] # "none", Takes(x, o, n, to),
           UNCHANGED <<rowVars, moneyVars, clockVars, worldVars, apprVars, inHand, opFeed>>
    PROVE  OperationsInv'
<1>0. OpTypes /\ ostate' = ostate /\ catalog' \subseteq Carriers
  BY DEF OperationsInv, OpTypes, rowVars, worldVars
<1>1. /\ carry' \in [Carriers -> Carrying] /\ \A y \in Carriers \ {x} : carry'[y] = carry[y]
      /\ carry'[x].at = to /\ carry'[x].job = o /\ carry'[x].num = n
  BY <1>0, CarryTo
<1>2. CarrierFits(x)'
  BY <1>0, <1>1 DEF CarrierFits
<1>3. UNCHANGED <<rowVars, moneyVars, clockVars, shut, blocked, apprVars, inHand, opFeed>>
  BY DEF worldVars
<1> QED BY <1>0, <1>1, <1>2, <1>3, ReadKeeps

LEMMA ListedKeeps ==
    ASSUME OperationsInv, NEW x \in Carriers, NEW o \in Ops, ExpireReads(x, o) \/ ProposeDue(x, o) \/ SettleOne(x, o)
    PROVE  OperationsInv'
<1>0. oappr[o] \in 0..2 /\ 0 \in 0..2
  BY DEF OperationsInv, OpTypes
<1>1. UNCHANGED <<rowVars, moneyVars, clockVars, worldVars, apprVars, inHand, opFeed>>
  BY DEF ExpireReads, ProposeDue, SettleOne
<1>2. /\ ostate[o] # "none"
      /\ Takes(x, o, 0, "close") \/ Takes(x, o, 0, "propose") \/ Takes(x, o, oappr[o], "close")
  BY DEF ExpireReads, ProposeDue, SettleOne
<1> QED BY <1>0, <1>1, <1>2, TakenKeeps

LEMMA PulledKeeps ==
    ASSUME OperationsInv, NEW x \in Carriers, NEW o \in Ops, NEW n \in 1..2, PullApproved(x, o, n)
    PROVE  OperationsInv'
<1>0. /\ OpTypes /\ RowsInv /\ n \in 0..2 /\ appr[o][n] = "passed" /\ Takes(x, o, n, "pulled")
      /\ UNCHANGED <<rowVars, moneyVars, clockVars, worldVars, apprVars, inHand, opFeed>>
  BY DEF OperationsInv, PullApproved
<1>1. /\ carry' \in [Carriers -> Carrying] /\ \A y \in Carriers \ {x} : carry'[y] = carry[y]
      /\ carry'[x].at = "pulled" /\ carry'[x].job = o /\ carry'[x].num = n
  BY <1>0, CarryTo
<1>2. ostate[o] # "none"
  BY <1>0 DEF RowsInv, OpFits
<1>3. CarrierFits(x)'
  BY <1>0, <1>1, <1>2 DEF CarrierFits, rowVars, apprVars
<1>4. catalog' \subseteq Carriers /\ UNCHANGED <<rowVars, moneyVars, clockVars, shut, blocked, apprVars, inHand, opFeed>>
  BY <1>0 DEF OpTypes, worldVars
<1> QED BY <1>1, <1>3, <1>4, ReadKeeps

LEMMA PublishKeeps ==
    ASSUME OperationsInv, NEW x \in Carriers, PublishCatalog(x)
    PROVE  OperationsInv'
<1>0. /\ OpTypes /\ RowsInv /\ carry' = carry /\ catalog' \subseteq Carriers
      /\ UNCHANGED <<rowVars, moneyVars, clockVars, shut, blocked, apprVars, inHand, opFeed>>
  BY DEF OperationsInv, PublishCatalog, OpTypes
<1>1. carry' \in [Carriers -> Carrying]
  BY <1>0 DEF OpTypes
<1>2. CarrierFits(x)'
  <2>1. \A o \in Ops : Apart(o)
    BY <1>0 DEF Apart, rowVars, moneyVars, apprVars
  <2> QED BY <1>0, <2>1, ApartGoesOn, CarrierWaits
<1> QED BY <1>0, <1>1, <1>2, ReadKeeps

LEMMA RestKeeps ==
    ASSUME OperationsInv, NEW x \in Carriers, Rests(x),
           UNCHANGED <<rowVars, moneyVars, clockVars, worldVars, apprVars, inHand, opFeed>>
    PROVE  OperationsInv'
<1>0. OpTypes
  BY DEF OperationsInv
<1>1. /\ carry' \in [Carriers -> Carrying] /\ carry'[x].at = "idle"
      /\ \A y \in Carriers \ {x} : carry'[y] = carry[y]
  BY <1>0, CarryTo
<1>2. catalog' \subseteq Carriers /\ UNCHANGED <<rowVars, moneyVars, clockVars, shut, blocked, apprVars, inHand, opFeed>>
  BY <1>0 DEF OpTypes, worldVars
<1> QED BY <1>1, <1>2, IdleFits, ReadKeeps

LEMMA RefusedKeeps ==
    ASSUME OperationsInv, NEW x \in Carriers, ProposeRefused(x)
    PROVE  OperationsInv'
<1>0. /\ OpTypes /\ RowsInv /\ carry[x].at = "propose" /\ Becomes(x, "close")
      /\ UNCHANGED <<rowVars, moneyVars, clockVars, worldVars, apprVars, inHand, opFeed>>
  BY DEF OperationsInv, ProposeRefused
<1>1. /\ carry' \in [Carriers -> Carrying] /\ \A y \in Carriers \ {x} : carry'[y] = carry[y]
      /\ carry'[x].at = "close" /\ carry'[x].job = carry[x].job
  BY <1>0, CarryTo
<1>2. carry[x].job \in Ops /\ ostate[carry[x].job] # "none"
  BY <1>0 DEF RowsInv, CarrierFits
<1>3. CarrierFits(x)'
  BY <1>0, <1>1, <1>2 DEF CarrierFits, rowVars
<1>4. catalog' \subseteq Carriers /\ UNCHANGED <<rowVars, moneyVars, clockVars, shut, blocked, apprVars, inHand, opFeed>>
  BY <1>0 DEF OpTypes, worldVars
<1> QED BY <1>1, <1>3, <1>4, ReadKeeps

\* The outcome read of an operation that does not wait is the truth about it.
LEMMA OutcomeIsTrue ==
    ASSUME OpTypes, RowsInv, NEW o \in Ops, NEW n \in 1..2, ostate[o] \notin {"none", "awaiting"},
           oappr[o] \in {0, n}
    PROVE  OutcomeOf(o) \in {"executed", "failed", "void"} /\ Truth(o, n, OutcomeOf(o))
<1>1. ostate[o] \in OpEnded /\ OpFits(o)
  BY DEF OpTypes, RowsInv
<1>2. CASE ostate[o] = "executed"
  <2>1. OutcomeOf(o) = "executed"
    BY <1>2 DEF OutcomeOf
  <2> QED BY <1>1, <1>2, <2>1 DEF OpFits, Truth
<1>3. CASE ostate[o] = "failed"
  <2>1. OutcomeOf(o) = "failed"
    BY <1>3 DEF OutcomeOf
  <2> QED BY <1>3, <2>1 DEF Truth
<1>4. CASE ostate[o] = "rejected"
  <2>1. OutcomeOf(o) = "void"
    BY <1>4 DEF OutcomeOf
  <2> QED BY <1>4, <2>1 DEF Truth
<1> QED BY <1>1, <1>2, <1>3, <1>4 DEF OpEnded

\* An executor that leaves with a true word: what it will report.
LEMMA LeavesFits ==
    ASSUME OpTypes, NEW x \in Carriers, NEW o \in Ops, NEW n \in 1..2, NEW w \in {"executed", "failed", "void"},
           carry'[x].at = "report", carry'[x].job = o, carry'[x].num = n, carry'[x].out = w,
           ostate'[o] # "none", appr'[o][n] # "none", Truth(o, n, w)'
    PROVE  CarrierFits(x)'
BY DEF CarrierFits, Truth

LEMMA CarryOutKeeps ==
    ASSUME OperationsInv, NEW x \in Carriers, CarryOut(x)
    PROVE  OperationsInv'
<1>a. PICK o, n : o = carry[x].job /\ n = carry[x].num
  OBVIOUS
<1>0. /\ OpTypes /\ RowsInv /\ carry[x].at = "pulled"
      /\ UNCHANGED <<rowVars, moneyVars, clockVars, worldVars, apprVars, inHand, opFeed>>
  BY DEF OperationsInv, CarryOut
<1>1. o \in Ops /\ ostate[o] # "none" /\ n \in 1..2 /\ appr[o][n] # "none"
  BY <1>a, <1>0 DEF RowsInv, CarrierFits
<1>2. UNCHANGED <<ostate, oappr, appr>>
  BY <1>0 DEF rowVars, apprVars
<1>3. catalog' \subseteq Carriers /\ UNCHANGED <<rowVars, moneyVars, clockVars, shut, blocked, apprVars, inHand, opFeed>>
  BY <1>0 DEF OpTypes, worldVars
<1>4. ASSUME NEW w \in {"executed", "failed", "void"}, Leaves(x, w), Truth(o, n, w)
      PROVE  OperationsInv'
  <2>1. /\ carry' \in [Carriers -> Carrying] /\ \A y \in Carriers \ {x} : carry'[y] = carry[y]
        /\ carry'[x].at = "report" /\ carry'[x].job = o /\ carry'[x].num = n /\ carry'[x].out = w
    BY <1>a, <1>0, <1>4, CarryTo
  <2>2. Truth(o, n, w)'
    BY <1>2, <1>4 DEF Truth
  <2>3. CarrierFits(x)'
    BY <1>0, <1>1, <1>2, <2>1, <2>2, LeavesFits
  <2> QED BY <1>3, <2>1, <2>3, ReadKeeps
<1>5. CASE OtherApproval(x) /\ Leaves(x, "void")
  <2>1. Truth(o, n, "void")
    BY <1>a, <1>5 DEF OtherApproval, Truth
  <2> QED BY <1>4, <1>5, <2>1
<1>6. CASE ~OtherApproval(x) /\ ostate[o] # "awaiting" /\ Leaves(x, OutcomeOf(o))
  <2>1. OutcomeOf(o) \in {"executed", "failed", "void"} /\ Truth(o, n, OutcomeOf(o))
    BY <1>a, <1>0, <1>1, <1>6, OutcomeIsTrue DEF OtherApproval
  <2>2. PICK w : w = OutcomeOf(o)
    OBVIOUS
  <2> QED BY <1>4, <1>6, <2>1, <2>2
<1>7. CASE Becomes(x, "confirm")
  <2>1. /\ carry' \in [Carriers -> Carrying] /\ \A y \in Carriers \ {x} : carry'[y] = carry[y]
        /\ carry'[x].at = "confirm" /\ carry'[x].job = o /\ carry'[x].num = n
    BY <1>a, <1>0, <1>7, CarryTo
  <2>2. CarrierFits(x)'
    BY <1>1, <1>2, <2>1 DEF CarrierFits
  <2> QED BY <1>3, <2>1, <2>2, ReadKeeps
<1> QED BY <1>a, <1>5, <1>6, <1>7 DEF CarryOut


LEMMA AppendTwo == ASSUME NEW a, NEW b PROVE Append(<<a>>, b) = <<a, b>>
<1> DEFINE U == {a, b}
           s == Append(<<a>>, b)
           t == <<a, b>>
<1>1. <<a>> \in Seq(U) /\ Len(<<a>>) = 1 /\ <<a>>[1] = a
  OBVIOUS
<1>2. s \in Seq(U) /\ Len(s) = 2 /\ s[1] = a /\ s[2] = b
  BY <1>1
<1>3. t \in Seq(U) /\ Len(t) = 2 /\ t[1] = a /\ t[2] = b
  OBVIOUS
<1>4. DOMAIN s = 1..2 /\ DOMAIN t = 1..2 /\ \A i \in 1..2 : i = 1 \/ i = 2
  BY <1>2, <1>3
<1>5. s = [i \in 1..2 |-> s[i]] /\ t = [i \in 1..2 |-> t[i]]
  BY <1>2, <1>3
<1> HIDE DEF s, t
<1>6. \A i \in 1..2 : s[i] = t[i]
  BY <1>2, <1>3, <1>4
<1>7. s = t
  BY <1>5, <1>6
<1> QED BY <1>7 DEF s, t

\* Closing ends an operation that waits, with its event; it leaves any other alone.
LEMMA CloseFits ==
    ASSUME OpTypes, RowsInv, NEW o \in Ops, NEW end \in {"rejected", "failed"}, Close(o, end),
           ostate[o] # "none", UNCHANGED <<oappr, olevel, paidUnder, altered>>,
           \A n \in 1..2 : appr[o][n] # "none" => appr'[o][n] # "none"
    PROVE  /\ ostate' \in [Ops -> {"none", "awaiting"} \union OpEnded] /\ DOMAIN opFeed' = Ops
           /\ \A p \in Ops \ {o} : ostate'[p] = ostate[p] /\ opFeed'[p] = opFeed[p]
           /\ \A p \in Ops : ostate'[p] = ostate[p] \/ (ostate[p] = "awaiting" /\ ostate'[p] \in OpEnded)
           /\ ostate'[o] \in OpEnded
           /\ ostate[o] = "awaiting" => ostate'[o] = end
           /\ Onward(o) /\ OpFits(o)'
<1>0. OpFits(o) /\ oappr[o] \in 0..2
  BY DEF RowsInv, OpTypes
<1>1. CASE ostate[o] = "awaiting"
  <2>1. ostate' = [ostate EXCEPT ![o] = end] /\ opFeed' = [opFeed EXCEPT ![o] = Append(opFeed[o], end)]
    BY <1>1 DEF Close, Tell
  <2>2. /\ ostate' \in [Ops -> {"none", "awaiting"} \union OpEnded] /\ DOMAIN opFeed' = Ops
        /\ \A p \in Ops \ {o} : ostate'[p] = ostate[p] /\ opFeed'[p] = opFeed[p]
        /\ ostate'[o] = end /\ opFeed'[o] = Append(opFeed[o], end)
    BY <2>1 DEF OpTypes, OpEnded
  <2>3. end \in OpEnded
    BY DEF OpEnded
  <2>4. Onward(o)
    BY <1>1, <2>2 DEF Onward, OpEnded
  <2>5. opFeed'[o] = IF oappr[o] = 0 THEN <<end>> ELSE <<"requested", end>>
    <3>1. Append(<<>>, end) = <<end>>
      OBVIOUS
    <3>2. Append(<<"requested">>, end) = <<"requested", end>>
      BY AppendTwo
    <3> QED BY <1>0, <1>1, <2>2, <3>1, <3>2 DEF OpFits
  <2>6. oappr'[o] # 0 => appr'[o][oappr'[o]] # "none" /\ <<o, oappr'[o]>> \notin altered'
    <3>1. oappr[o] # 0 => oappr[o] \in 1..2
      BY <1>0
    <3> QED BY <1>0, <3>1 DEF OpFits
  <2>7. OpFits(o)'
    BY <1>0, <1>1, <2>2, <2>5, <2>6 DEF OpFits
  <2> QED BY <1>1, <2>2, <2>3, <2>4, <2>7
<1>2. CASE ostate[o] # "awaiting"
  <2>1. ostate' = ostate /\ opFeed' = opFeed
    BY <1>2 DEF Close
  <2>2. ostate[o] \in OpEnded
    BY <1>2 DEF OpTypes
  <2>3. oappr'[o] # 0 => appr'[o][oappr'[o]] # "none" /\ <<o, oappr'[o]>> \notin altered'
    <3>1. oappr[o] # 0 => oappr[o] \in 1..2
      BY <1>0
    <3> QED BY <1>0, <3>1 DEF OpFits
  <2>4. OpFits(o)'
    BY <1>0, <1>2, <2>1, <2>2, <2>3 DEF OpFits
  <2>5. Onward(o)
    BY <2>1 DEF Onward
  <2> QED BY <1>2, <2>1, <2>2, <2>4, <2>5 DEF OpTypes
<1> QED BY <1>1, <1>2

\* The first approval stored decides, and the client is told of it once.
LEMMA OpenedFits ==
    ASSUME OpTypes, RowsInv, NEW o \in Ops, NEW n \in 1..2, Opened(o, n),
           ostate[o] # "none", appr[o][n] # "none", <<o, n>> \notin altered,
           UNCHANGED <<ostate, paidUnder, appr, altered>>
    PROVE  /\ oappr' \in [Ops -> 0..2] /\ olevel' \in [Ops -> {"none", "scope", "platform"}]
           /\ DOMAIN opFeed' = Ops
           /\ \A p \in Ops \ {o} : oappr'[p] = oappr[p] /\ olevel'[p] = olevel[p] /\ opFeed'[p] = opFeed[p]
           /\ \A p \in Ops : olevel'[p] = olevel[p] \/ olevel[p] = "none"
           /\ oappr'[o] = IF oappr[o] = 0 THEN n ELSE oappr[o]
           /\ Onward(o) /\ OpFits(o)'
<1>0. OpFits(o) /\ oappr[o] \in 0..2 /\ n \in 0..2 /\ n # 0
  BY DEF RowsInv, OpTypes
<1>1. CASE oappr[o] # 0
  <2>1. UNCHANGED <<oappr, olevel, opFeed>>
    BY <1>1 DEF Opened
  <2>2. Apart(o)
    BY <2>1 DEF Apart
  <2>3. Onward(o) /\ OpFits(o)'
    BY <2>2, ApartGoesOn, ApartFits
  <2> QED BY <1>1, <2>1, <2>3 DEF OpTypes
<1>2. CASE oappr[o] = 0
  <2>1. /\ oappr' = [oappr EXCEPT ![o] = n] /\ olevel' = [olevel EXCEPT ![o] = apLevel[o][n]]
        /\ opFeed' = IF ostate[o] = "awaiting" THEN [opFeed EXCEPT ![o] = Append(opFeed[o], "requested")] ELSE opFeed
    BY <1>2 DEF Opened, Tell
  <2>2. apLevel[o][n] \in {"none", "scope", "platform"}
    BY DEF OpTypes
  <2>3. oappr' \in [Ops -> 0..2] /\ olevel' \in [Ops -> {"none", "scope", "platform"}]
    BY <1>0, <2>1, <2>2 DEF OpTypes
  <2>4. DOMAIN opFeed' = Ops
    BY <2>1 DEF OpTypes
  <2>5. \A p \in Ops \ {o} : oappr'[p] = oappr[p] /\ olevel'[p] = olevel[p] /\ opFeed'[p] = opFeed[p]
    BY <2>1 DEF OpTypes
  <2>6. oappr'[o] = n
    BY <2>1 DEF OpTypes
  <2>7. olevel[o] = "none"
    BY <1>0, <1>2 DEF OpFits
  <2>8. Onward(o)
    BY <1>2 DEF Onward
  <2>9. opFeed'[o] = IF ostate[o] = "awaiting" THEN <<"requested">> ELSE opFeed[o]
    <3>1. Append(<<>>, "requested") = <<"requested">>
      OBVIOUS
    <3>2. ostate[o] = "awaiting" => opFeed[o] = <<>>
      BY <1>0, <1>2 DEF OpFits
    <3> QED BY <2>1, <3>1, <3>2 DEF OpTypes
  <2>10. OpFits(o)'
    BY <1>0, <1>2, <2>6, <2>9 DEF OpFits
  <2> QED BY <1>2, <2>3, <2>4, <2>5, <2>6, <2>7, <2>8, <2>10
<1> QED BY <1>1, <1>2

\* A step that ends or opens one operation, and may set an approval of it.
LEMMA StoreKeeps ==
    ASSUME OperationsInv, NEW x \in Carriers, NEW o \in Ops,
           UNCHANGED <<oflag, payout, balance, paidUnder, clockVars, worldVars, inHand>>,
           ostate' \in [Ops -> {"none", "awaiting"} \union OpEnded], DOMAIN opFeed' = Ops,
           oappr' \in [Ops -> 0..2], olevel' \in [Ops -> {"none", "scope", "platform"}],
           appr' \in [Ops -> [1..2 -> ApprovalStates]],
           apLevel' \in [Ops -> [1..2 -> {"none", "scope", "platform"}]],
           \A p \in Ops : ostate'[p] = ostate[p] \/ (ostate[p] = "awaiting" /\ ostate'[p] \in OpEnded),
           \A p \in Ops : olevel'[p] = olevel[p] \/ olevel[p] = "none",
           \A p \in Ops \ {o} : Apart(p),
           Onward(o), OpFits(o)', \A n \in 1..2 : Truth(o, n, appr[o][n])',
           carry' \in [Carriers -> Carrying],
           \A y \in Carriers \ {x} : carry'[y] = carry[y], CarrierFits(x)'
    PROVE  OperationsInv'
<1>0. OpTypes /\ BudgetInv /\ RowsInv
  BY DEF OperationsInv
<1>1. OpTypes'
  BY <1>0 DEF OpTypes, clockVars, worldVars
<1>2. UNCHANGED <<inHand, payout, balance, agedOut, oflag>>
  BY DEF clockVars
<1>3. BudgetInv'
  BY <1>0, <1>2, BudgetStays
<1>4. RowsInv'
  BY <1>0, RowsCarried
<1> QED BY <1>1, <1>3, <1>4 DEF OperationsInv

LEMMA CloseKeeps ==
    ASSUME OperationsInv, NEW x \in Carriers, CloseRejected(x)
    PROVE  OperationsInv'
<1>a. PICK o : o = carry[x].job
  OBVIOUS
<1>0. /\ OpTypes /\ RowsInv /\ carry[x].at = "close" /\ Close(o, "rejected") /\ Rests(x)
      /\ UNCHANGED <<oappr, olevel, oflag, payout, balance, paidUnder, clockVars, worldVars,
                     appr, apLevel, altered, inHand>>
  BY <1>a DEF OperationsInv, CloseRejected, moneyVars, apprVars
<1>1. o \in Ops /\ ostate[o] # "none"
  BY <1>a, <1>0 DEF RowsInv, CarrierFits
<1>2. /\ carry' \in [Carriers -> Carrying] /\ carry'[x].at = "idle"
      /\ \A y \in Carriers \ {x} : carry'[y] = carry[y]
  BY <1>0, CarryTo
<1>3. /\ ostate' \in [Ops -> {"none", "awaiting"} \union OpEnded] /\ DOMAIN opFeed' = Ops
      /\ \A p \in Ops \ {o} : ostate'[p] = ostate[p] /\ opFeed'[p] = opFeed[p]
      /\ \A p \in Ops : ostate'[p] = ostate[p] \/ (ostate[p] = "awaiting" /\ ostate'[p] \in OpEnded)
      /\ Onward(o) /\ OpFits(o)'
  BY <1>0, <1>1, CloseFits
<1>4. \A p \in Ops \ {o} : Apart(p)
  BY <1>0, <1>3 DEF Apart
<1>5. \A n \in 1..2 : Truth(o, n, appr[o][n])'
  <2> SUFFICES ASSUME NEW n \in 1..2 PROVE Truth(o, n, appr[o][n])'
    OBVIOUS
  <2>1. PICK w : w = appr[o][n]
    OBVIOUS
  <2>2. Truth(o, n, w)
    BY <1>0, <1>1, <2>1 DEF RowsInv
  <2>3. Truth(o, n, w)'
    BY <1>0, <1>1, <1>3, <2>2, TruthLasts
  <2> QED BY <1>0, <2>1, <2>3 DEF Truth
<1>6. CarrierFits(x)'
  BY <1>2, IdleFits
<1>7. /\ oappr' \in [Ops -> 0..2] /\ olevel' \in [Ops -> {"none", "scope", "platform"}]
      /\ appr' \in [Ops -> [1..2 -> ApprovalStates]]
      /\ apLevel' \in [Ops -> [1..2 -> {"none", "scope", "platform"}]]
      /\ \A p \in Ops : olevel'[p] = olevel[p]
  BY <1>0 DEF OpTypes
<1> QED BY <1>0, <1>1, <1>2, <1>3, <1>4, <1>5, <1>6, <1>7, StoreKeeps


\* What an executor in hand of an operation and its approval knows of both.
LEMMA InHandKnows ==
    ASSUME OperationsInv, NEW x \in Carriers, NEW o, NEW n, o = carry[x].job, n = carry[x].num,
           carry[x].at \notin {"idle", "propose", "close"}
    PROVE  /\ OpTypes /\ RowsInv /\ o \in Ops /\ ostate[o] # "none" /\ n \in 1..2 /\ appr[o][n] # "none"
           /\ carry[x].at \in {"opened", "adopt", "execute"} => <<o, n>> \notin altered
           /\ carry[x].at = "execute" => oappr[o] = n
           /\ carry[x].at = "report" => carry[x].out # "none" /\ Truth(o, n, carry[x].out)
BY DEF OperationsInv, RowsInv, CarrierFits

\* What was told of approvals the step does not set stays true.
LEMMA TruthsLast ==
    ASSUME OpTypes, RowsInv, NEW o \in Ops, Onward(o),
           \A n \in 1..2 : appr'[o][n] = appr[o][n] \/ appr'[o][n] \in {"open", "ended"}
    PROVE  \A n \in 1..2 : Truth(o, n, appr[o][n])'
<1> SUFFICES ASSUME NEW n \in 1..2 PROVE Truth(o, n, appr[o][n])'
  OBVIOUS
<1>1. CASE appr'[o][n] \in {"open", "ended"}
  BY <1>1 DEF Truth
<1>2. CASE appr'[o][n] = appr[o][n]
  <2>1. PICK w : w = appr[o][n]
    OBVIOUS
  <2>2. Truth(o, n, w)
    BY <2>1 DEF RowsInv
  <2>3. Truth(o, n, w)'
    BY <2>2, TruthLasts
  <2> QED BY <1>2, <2>1, <2>3 DEF Truth
<1> QED BY <1>1, <1>2

LEMMA MismatchKeeps ==
    ASSUME OperationsInv, NEW x \in Carriers, CloseMismatch(x)
    PROVE  OperationsInv'
<1>a. PICK o, n : o = carry[x].job /\ n = carry[x].num
  OBVIOUS
<1>0. /\ carry[x].at = "withdraw" /\ Close(o, "rejected") /\ Rests(x)
      /\ appr' = [appr EXCEPT ![o] = [appr[o] EXCEPT ![n] = IF appr[o][n] = "open" THEN "ended" ELSE appr[o][n]]]
      /\ UNCHANGED <<oappr, olevel, oflag, payout, balance, paidUnder, clockVars, worldVars,
                     apLevel, altered, inHand>>
  BY <1>a DEF CloseMismatch, moneyVars
<1>1. OpTypes /\ RowsInv /\ o \in Ops /\ ostate[o] # "none" /\ n \in 1..2
  BY <1>a, <1>0, InHandKnows
<1>2. /\ carry' \in [Carriers -> Carrying] /\ carry'[x].at = "idle"
      /\ \A y \in Carriers \ {x} : carry'[y] = carry[y]
  BY <1>0, <1>1, CarryTo
<1>3. /\ appr' \in [Ops -> [1..2 -> ApprovalStates]]
      /\ \A p \in Ops \ {o} : appr'[p] = appr[p]
      /\ \A m \in 1..2 : appr'[o][m] = appr[o][m] \/ (appr[o][m] = "open" /\ appr'[o][m] = "ended")
  BY <1>0, <1>1 DEF OpTypes, ApprovalStates
<1>4. \A m \in 1..2 : appr[o][m] # "none" => appr'[o][m] # "none"
  BY <1>3
<1>5. /\ ostate' \in [Ops -> {"none", "awaiting"} \union OpEnded] /\ DOMAIN opFeed' = Ops
      /\ \A p \in Ops \ {o} : ostate'[p] = ostate[p] /\ opFeed'[p] = opFeed[p]
      /\ \A p \in Ops : ostate'[p] = ostate[p] \/ (ostate[p] = "awaiting" /\ ostate'[p] \in OpEnded)
      /\ Onward(o) /\ OpFits(o)'
  <2>1. UNCHANGED <<oappr, olevel, paidUnder, altered>>
    BY <1>0
  <2> QED BY <1>0, <1>1, <1>4, <2>1, CloseFits
<1>6. \A p \in Ops \ {o} : Apart(p)
  BY <1>0, <1>3, <1>5 DEF Apart
<1>7. \A m \in 1..2 : Truth(o, m, appr[o][m])'
  <2>1. \A m \in 1..2 : appr'[o][m] = appr[o][m] \/ appr'[o][m] \in {"open", "ended"}
    BY <1>3
  <2> QED BY <1>1, <1>5, <2>1, TruthsLast
<1>8. CarrierFits(x)'
  BY <1>2, IdleFits
<1>9. /\ oappr' \in [Ops -> 0..2] /\ olevel' \in [Ops -> {"none", "scope", "platform"}]
      /\ apLevel' \in [Ops -> [1..2 -> {"none", "scope", "platform"}]]
      /\ \A p \in Ops : olevel'[p] = olevel[p]
  BY <1>0, <1>1 DEF OpTypes
<1> QED BY <1>0, <1>1, <1>2, <1>3, <1>5, <1>6, <1>7, <1>8, <1>9, StoreKeeps

\* Concierge keeps one approval per number: what it is over is fixed when it is opened.
LEMMA AnsweredKeeps ==
    ASSUME OperationsInv, NEW x \in Carriers, NEW n \in 1..2, NEW level \in {"scope", "platform"},
           ProposeAnswered(x, n, level)
    PROVE  OperationsInv'
<1>a. PICK o : o = carry[x].job
  OBVIOUS
<1>0. /\ carry[x].at = "propose" /\ Take(o, n, level)
      /\ Takes(x, o, n, IF <<o, n>> \in altered' THEN "withdraw" ELSE "opened") \/ Rests(x)
      /\ UNCHANGED <<ostate, oappr, olevel, oflag, payout, balance, paidUnder, clockVars, worldVars,
                     inHand, opFeed>>
  BY <1>a DEF ProposeAnswered, rowVars, moneyVars
<1>1. OpTypes /\ RowsInv /\ o \in Ops /\ ostate[o] # "none" /\ OpFits(o) /\ n \in 0..2
  <2>1. OpTypes /\ RowsInv /\ CarrierFits(x) /\ n \in 0..2
    BY DEF OperationsInv, RowsInv
  <2>2. o \in Ops /\ ostate[o] # "none"
    BY <1>a, <1>0, <2>1 DEF CarrierFits
  <2> QED BY <2>1, <2>2 DEF RowsInv
<1>t. /\ appr \in [Ops -> [1..2 -> ApprovalStates]] /\ appr[o] \in [1..2 -> ApprovalStates]
      /\ apLevel \in [Ops -> [1..2 -> {"none", "scope", "platform"}]]
      /\ apLevel[o] \in [1..2 -> {"none", "scope", "platform"}]
  BY <1>1 DEF OpTypes
<1>2. /\ appr' \in [Ops -> [1..2 -> ApprovalStates]]
      /\ apLevel' \in [Ops -> [1..2 -> {"none", "scope", "platform"}]]
      /\ \A p \in Ops \ {o} : appr'[p] = appr[p]
      /\ \A m \in 1..2 : appr'[o][m] = appr[o][m] \/ (m = n /\ appr[o][m] = "none" /\ appr'[o][m] = "open")
      /\ appr'[o][n] # "none"
      /\ altered' = altered \/ (appr[o][n] = "none" /\ altered' = altered \union {<<o, n>>})
  <2>1. CASE appr[o][n] = "none"
    <3>1. /\ appr' = [appr EXCEPT ![o] = [appr[o] EXCEPT ![n] = "open"]]
          /\ apLevel' = [apLevel EXCEPT ![o] = [apLevel[o] EXCEPT ![n] = level]]
          /\ altered' = altered \/ altered' = altered \union {<<o, n>>}
      BY <1>0, <2>1 DEF Take
    <3>2. [appr[o] EXCEPT ![n] = "open"] \in [1..2 -> ApprovalStates]
      BY <1>t DEF ApprovalStates
    <3>3. [apLevel[o] EXCEPT ![n] = level] \in [1..2 -> {"none", "scope", "platform"}]
      BY <1>t
    <3>4. /\ appr' \in [Ops -> [1..2 -> ApprovalStates]]
          /\ apLevel' \in [Ops -> [1..2 -> {"none", "scope", "platform"}]]
          /\ \A p \in Ops \ {o} : appr'[p] = appr[p]
          /\ appr'[o] = [appr[o] EXCEPT ![n] = "open"]
      BY <1>1, <1>t, <3>1, <3>2, <3>3
    <3>5. appr'[o][n] = "open" /\ \A m \in 1..2 : m # n => appr'[o][m] = appr[o][m]
      BY <1>t, <3>4
    <3> QED BY <2>1, <3>1, <3>4, <3>5
  <2>2. CASE appr[o][n] # "none"
    <3>1. appr' = appr /\ apLevel' = apLevel /\ altered' = altered
      BY <1>0, <2>2 DEF Take, apprVars
    <3> QED BY <1>t, <2>2, <3>1
  <2> QED BY <2>1, <2>2
<1>3. \A m \in 1..2 : appr[o][m] # "none" => appr'[o][m] # "none" /\ (<<o, m>> \in altered' => <<o, m>> \in altered)
  BY <1>2
<1>4. Onward(o)
  BY <1>0, <1>3 DEF Onward
<1>5. \A p \in Ops \ {o} : Apart(p)
  BY <1>0, <1>2 DEF Apart
<1>6. OpFits(o)'
  <2>1. oappr[o] # 0 => oappr[o] \in 1..2
    BY <1>1 DEF OpTypes
  <2>2. oappr'[o] # 0 => appr'[o][oappr'[o]] # "none" /\ <<o, oappr'[o]>> \notin altered'
    BY <1>0, <1>1, <1>3, <2>1 DEF OpFits
  <2> QED BY <1>0, <1>1, <2>2 DEF OpFits
<1>7. \A m \in 1..2 : Truth(o, m, appr[o][m])'
  <2>1. \A m \in 1..2 : appr'[o][m] = appr[o][m] \/ appr'[o][m] \in {"open", "ended"}
    BY <1>2
  <2> QED BY <1>1, <1>4, <2>1, TruthsLast
<1>8. /\ carry' \in [Carriers -> Carrying] /\ \A y \in Carriers \ {x} : carry'[y] = carry[y]
      /\ CarrierFits(x)'
  <2>1. CASE Rests(x)
    BY <1>1, <2>1, CarryTo, IdleFits
  <2>2. CASE <<o, n>> \in altered' /\ Takes(x, o, n, "withdraw")
    <3>1. /\ carry' \in [Carriers -> Carrying] /\ \A y \in Carriers \ {x} : carry'[y] = carry[y]
          /\ carry'[x].at = "withdraw" /\ carry'[x].job = o /\ carry'[x].num = n
      BY <1>1, <2>2, CarryTo
    <3> QED BY <1>0, <1>1, <1>2, <3>1 DEF CarrierFits
  <2>3. CASE <<o, n>> \notin altered' /\ Takes(x, o, n, "opened")
    <3>1. /\ carry' \in [Carriers -> Carrying] /\ \A y \in Carriers \ {x} : carry'[y] = carry[y]
          /\ carry'[x].at = "opened" /\ carry'[x].job = o /\ carry'[x].num = n
      BY <1>1, <2>3, CarryTo
    <3> QED BY <1>0, <1>1, <1>2, <2>3, <3>1 DEF CarrierFits
  <2> QED BY <1>0, <2>1, <2>2, <2>3
<1>9. /\ ostate' \in [Ops -> {"none", "awaiting"} \union OpEnded] /\ DOMAIN opFeed' = Ops
      /\ oappr' \in [Ops -> 0..2] /\ olevel' \in [Ops -> {"none", "scope", "platform"}]
      /\ \A p \in Ops : olevel'[p] = olevel[p] /\ ostate'[p] = ostate[p]
  BY <1>0, <1>1 DEF OpTypes
<1> QED BY <1>0, <1>1, <1>2, <1>4, <1>5, <1>6, <1>7, <1>8, <1>9, StoreKeeps

LEMMA OpenedKeeps ==
    ASSUME OperationsInv, NEW x \in Carriers, StoreOpened(x)
    PROVE  OperationsInv'
<1>a. PICK o, n : o = carry[x].job /\ n = carry[x].num
  OBVIOUS
<1>0. /\ carry[x].at = "opened" /\ Opened(o, n) /\ Rests(x)
      /\ UNCHANGED <<ostate, oflag, payout, balance, paidUnder, clockVars, worldVars, appr, apLevel, altered, inHand>>
  BY <1>a DEF StoreOpened, moneyVars, apprVars
<1>1. /\ OpTypes /\ RowsInv /\ o \in Ops /\ ostate[o] # "none" /\ n \in 1..2 /\ appr[o][n] # "none"
      /\ <<o, n>> \notin altered
  BY <1>a, <1>0, InHandKnows
<1>2. /\ oappr' \in [Ops -> 0..2] /\ olevel' \in [Ops -> {"none", "scope", "platform"}]
      /\ DOMAIN opFeed' = Ops
      /\ \A p \in Ops \ {o} : oappr'[p] = oappr[p] /\ olevel'[p] = olevel[p] /\ opFeed'[p] = opFeed[p]
      /\ \A p \in Ops : olevel'[p] = olevel[p] \/ olevel[p] = "none"
      /\ Onward(o) /\ OpFits(o)'
  <2>1. UNCHANGED <<ostate, paidUnder, appr, altered>>
    BY <1>0
  <2> QED BY <1>0, <1>1, <2>1, OpenedFits
<1>3. /\ carry' \in [Carriers -> Carrying] /\ \A y \in Carriers \ {x} : carry'[y] = carry[y]
      /\ CarrierFits(x)'
  BY <1>0, <1>1, CarryTo, IdleFits
<1>4. \A p \in Ops \ {o} : Apart(p)
  BY <1>0, <1>2 DEF Apart
<1>5. \A m \in 1..2 : Truth(o, m, appr[o][m])'
  <2>1. \A m \in 1..2 : appr'[o][m] = appr[o][m] \/ appr'[o][m] \in {"open", "ended"}
    BY <1>0
  <2> QED BY <1>1, <1>2, <2>1, TruthsLast
<1>6. /\ ostate' \in [Ops -> {"none", "awaiting"} \union OpEnded]
      /\ appr' \in [Ops -> [1..2 -> ApprovalStates]]
      /\ apLevel' \in [Ops -> [1..2 -> {"none", "scope", "platform"}]]
      /\ \A p \in Ops : ostate'[p] = ostate[p]
  BY <1>0, <1>1 DEF OpTypes
<1> QED BY <1>0, <1>1, <1>2, <1>3, <1>4, <1>5, <1>6, StoreKeeps


\* The decision read again: taken back, over another payload, or to be carried out.
LEMMA ConfirmKeeps ==
    ASSUME OperationsInv, NEW x \in Carriers, Confirm(x)
    PROVE  OperationsInv'
<1>a. PICK o, n : o = carry[x].job /\ n = carry[x].num
  OBVIOUS
<1>0. /\ carry[x].at = "confirm"
      /\ UNCHANGED <<oappr, olevel, oflag, moneyVars, clockVars, worldVars, apprVars, inHand>>
      /\ \/ Rests(x) /\ UNCHANGED <<ostate, opFeed>>
         \/ <<o, n>> \in altered /\ Close(o, "failed") /\ Leaves(x, "void")
         \/ <<o, n>> \notin altered /\ Becomes(x, "adopt") /\ UNCHANGED <<ostate, opFeed>>
  BY <1>a DEF Confirm
<1>1. OpTypes /\ RowsInv /\ o \in Ops /\ ostate[o] # "none" /\ n \in 1..2 /\ appr[o][n] # "none"
  BY <1>a, <1>0, InHandKnows
<1>2. UNCHANGED <<oappr, olevel, oflag, payout, balance, paidUnder, appr, apLevel, altered>>
  BY <1>0 DEF moneyVars, apprVars
<1>3. CASE Rests(x) /\ UNCHANGED <<ostate, opFeed>>
  <2>1. UNCHANGED <<rowVars, moneyVars, clockVars, worldVars, apprVars, inHand, opFeed>>
    BY <1>0, <1>3 DEF rowVars
  <2> QED BY <1>3, <2>1, RestKeeps
<1>4. CASE <<o, n>> \notin altered /\ Becomes(x, "adopt") /\ UNCHANGED <<ostate, opFeed>>
  <2>1. /\ carry' \in [Carriers -> Carrying] /\ \A y \in Carriers \ {x} : carry'[y] = carry[y]
        /\ carry'[x].at = "adopt" /\ carry'[x].job = o /\ carry'[x].num = n
    BY <1>a, <1>1, <1>4, CarryTo
  <2>2. CarrierFits(x)'
    BY <1>1, <1>2, <1>4, <2>1 DEF CarrierFits
  <2>3. catalog' \subseteq Carriers /\ UNCHANGED <<rowVars, moneyVars, clockVars, shut, blocked, apprVars, inHand, opFeed>>
    BY <1>0, <1>1, <1>4 DEF OpTypes, worldVars, rowVars
  <2> QED BY <2>1, <2>2, <2>3, ReadKeeps
<1>5. CASE <<o, n>> \in altered /\ Close(o, "failed") /\ Leaves(x, "void")
  <2>1. /\ carry' \in [Carriers -> Carrying] /\ \A y \in Carriers \ {x} : carry'[y] = carry[y]
        /\ carry'[x].at = "report" /\ carry'[x].job = o /\ carry'[x].num = n /\ carry'[x].out = "void"
    BY <1>a, <1>1, <1>5, CarryTo
  <2>2. /\ ostate' \in [Ops -> {"none", "awaiting"} \union OpEnded] /\ DOMAIN opFeed' = Ops
        /\ \A p \in Ops \ {o} : ostate'[p] = ostate[p] /\ opFeed'[p] = opFeed[p]
        /\ \A p \in Ops : ostate'[p] = ostate[p] \/ (ostate[p] = "awaiting" /\ ostate'[p] \in OpEnded)
        /\ ostate'[o] \in OpEnded
        /\ Onward(o) /\ OpFits(o)'
    <3>1. /\ UNCHANGED <<oappr, olevel, paidUnder, altered>>
          /\ \A m \in 1..2 : appr[o][m] # "none" => appr'[o][m] # "none"
      BY <1>2
    <3> QED BY <1>1, <1>5, <3>1, CloseFits
  <2>3. \A p \in Ops \ {o} : Apart(p)
    BY <1>2, <2>2 DEF Apart
  <2>4. \A m \in 1..2 : Truth(o, m, appr[o][m])'
    <3>1. \A m \in 1..2 : appr'[o][m] = appr[o][m] \/ appr'[o][m] \in {"open", "ended"}
      BY <1>2
    <3> QED BY <1>1, <2>2, <3>1, TruthsLast
  <2>5. Truth(o, n, "void")'
    <3>1. oappr'[o] # n
      <4>1. OpFits(o) /\ n # 0
        BY <1>1 DEF RowsInv
      <4>2. oappr[o] # 0 => <<o, oappr[o]>> \notin altered
        BY <4>1 DEF OpFits
      <4>3. oappr[o] = n => <<o, oappr[o]>> = <<o, n>>
        OBVIOUS
      <4> QED BY <1>2, <1>5, <4>1, <4>2, <4>3
    <3>2. ostate'[o] = "executed" => oappr'[o] # 0
      BY <2>2 DEF OpFits
    <3> QED BY <2>2, <3>1, <3>2 DEF Truth, OpEnded
  <2>6. CarrierFits(x)'
    <3>1. ostate'[o] # "none" /\ appr'[o][n] # "none"
      BY <1>1, <1>2, <2>2 DEF OpEnded
    <3> QED BY <1>1, <2>1, <2>5, <3>1, LeavesFits
  <2>7. /\ oappr' \in [Ops -> 0..2] /\ olevel' \in [Ops -> {"none", "scope", "platform"}]
        /\ appr' \in [Ops -> [1..2 -> ApprovalStates]]
        /\ apLevel' \in [Ops -> [1..2 -> {"none", "scope", "platform"}]]
        /\ \A p \in Ops : olevel'[p] = olevel[p]
        /\ UNCHANGED <<oflag, payout, balance, paidUnder, clockVars, worldVars, inHand>>
    BY <1>0, <1>1, <1>2 DEF OpTypes
  <2> QED BY <1>1, <2>1, <2>2, <2>3, <2>4, <2>6, <2>7, StoreKeeps
<1> QED BY <1>0, <1>3, <1>4, <1>5

\* The approval an executor is about to act on becomes the operation's, or it lets go.
LEMMA AdoptKeeps ==
    ASSUME OperationsInv, NEW x \in Carriers, Adopt(x)
    PROVE  OperationsInv'
<1>a. PICK o, n : o = carry[x].job /\ n = carry[x].num
  OBVIOUS
<1>0. /\ carry[x].at = "adopt"
      /\ UNCHANGED <<ostate, oflag, moneyVars, clockVars, worldVars, apprVars, inHand>>
      /\ \/ Rests(x) /\ UNCHANGED <<oappr, olevel, opFeed>>
         \/ oappr[o] \in {0, n} /\ Opened(o, n) /\ Becomes(x, "execute")
  BY <1>a DEF Adopt, OtherApproval
<1>1. /\ OpTypes /\ RowsInv /\ o \in Ops /\ ostate[o] # "none" /\ n \in 1..2 /\ appr[o][n] # "none"
      /\ <<o, n>> \notin altered
  BY <1>a, <1>0, InHandKnows
<1>2. UNCHANGED <<ostate, oflag, payout, balance, paidUnder, appr, apLevel, altered>>
  BY <1>0 DEF moneyVars, apprVars
<1>3. CASE Rests(x) /\ UNCHANGED <<oappr, olevel, opFeed>>
  <2>1. UNCHANGED <<rowVars, moneyVars, clockVars, worldVars, apprVars, inHand, opFeed>>
    BY <1>0, <1>3 DEF rowVars
  <2> QED BY <1>3, <2>1, RestKeeps
<1>4. CASE oappr[o] \in {0, n} /\ Opened(o, n) /\ Becomes(x, "execute")
  <2>1. /\ carry' \in [Carriers -> Carrying] /\ \A y \in Carriers \ {x} : carry'[y] = carry[y]
        /\ carry'[x].at = "execute" /\ carry'[x].job = o /\ carry'[x].num = n
    BY <1>a, <1>1, <1>4, CarryTo
  <2>2. /\ oappr' \in [Ops -> 0..2] /\ olevel' \in [Ops -> {"none", "scope", "platform"}]
        /\ DOMAIN opFeed' = Ops
        /\ \A p \in Ops \ {o} : oappr'[p] = oappr[p] /\ olevel'[p] = olevel[p] /\ opFeed'[p] = opFeed[p]
        /\ \A p \in Ops : olevel'[p] = olevel[p] \/ olevel[p] = "none"
        /\ oappr'[o] = IF oappr[o] = 0 THEN n ELSE oappr[o]
        /\ Onward(o) /\ OpFits(o)'
    <3>1. UNCHANGED <<ostate, paidUnder, appr, altered>>
      BY <1>2
    <3> QED BY <1>1, <1>4, <3>1, OpenedFits
  <2>3. CarrierFits(x)'
    BY <1>1, <1>2, <1>4, <2>1, <2>2 DEF CarrierFits
  <2>4. \A p \in Ops \ {o} : Apart(p)
    BY <1>2, <2>2 DEF Apart
  <2>5. \A m \in 1..2 : Truth(o, m, appr[o][m])'
    <3>1. \A m \in 1..2 : appr'[o][m] = appr[o][m] \/ appr'[o][m] \in {"open", "ended"}
      BY <1>2
    <3> QED BY <1>1, <2>2, <3>1, TruthsLast
  <2>6. /\ ostate' \in [Ops -> {"none", "awaiting"} \union OpEnded]
        /\ appr' \in [Ops -> [1..2 -> ApprovalStates]]
        /\ apLevel' \in [Ops -> [1..2 -> {"none", "scope", "platform"}]]
        /\ \A p \in Ops : ostate'[p] = ostate[p]
        /\ UNCHANGED <<oflag, payout, balance, paidUnder, clockVars, worldVars, inHand>>
    BY <1>0, <1>1, <1>2 DEF OpTypes
  <2> QED BY <1>1, <2>1, <2>2, <2>3, <2>4, <2>5, <2>6, StoreKeeps
<1> QED BY <1>0, <1>3, <1>4

\* Concierge is told of an approval it still holds as passed, and told the truth.
LEMMA ReportKeeps ==
    ASSUME OperationsInv, NEW x \in Carriers, Report(x)
    PROVE  OperationsInv'
<1>a. PICK o, n, w : o = carry[x].job /\ n = carry[x].num /\ w = carry[x].out
  OBVIOUS
<1>0. /\ carry[x].at = "report" /\ Rests(x)
      /\ appr' = [appr EXCEPT ![o] = [appr[o] EXCEPT ![n] = IF appr[o][n] = "passed" THEN w ELSE appr[o][n]]]
      /\ UNCHANGED <<ostate, oappr, olevel, oflag, payout, balance, paidUnder, clockVars, worldVars,
                     apLevel, altered, inHand, opFeed>>
  BY <1>a DEF Report, rowVars, moneyVars
<1>1. /\ OpTypes /\ RowsInv /\ o \in Ops /\ ostate[o] # "none" /\ n \in 1..2 /\ appr[o][n] # "none"
      /\ w # "none" /\ Truth(o, n, w)
  BY <1>a, <1>0, InHandKnows
<1>t. /\ appr \in [Ops -> [1..2 -> ApprovalStates]] /\ appr[o] \in [1..2 -> ApprovalStates]
      /\ w \in {"none", "executed", "failed", "void"}
  <2>1. carry[x] \in Carrying
    BY <1>1 DEF OpTypes
  <2> QED BY <1>a, <1>1, <2>1 DEF OpTypes, Carrying
<1>2. /\ carry' \in [Carriers -> Carrying] /\ \A y \in Carriers \ {x} : carry'[y] = carry[y]
      /\ CarrierFits(x)'
  BY <1>0, <1>1, CarryTo, IdleFits
<1>3. /\ appr' \in [Ops -> [1..2 -> ApprovalStates]]
      /\ \A p \in Ops \ {o} : appr'[p] = appr[p]
      /\ appr'[o][n] \in {w, appr[o][n]}
      /\ \A m \in 1..2 : m # n => appr'[o][m] = appr[o][m]
  <2> DEFINE v == [appr[o] EXCEPT ![n] = IF appr[o][n] = "passed" THEN w ELSE appr[o][n]]
  <2>1. v \in [1..2 -> ApprovalStates]
    BY <1>1, <1>t DEF ApprovalStates
  <2>2. v[n] \in {w, appr[o][n]} /\ \A m \in 1..2 : m # n => v[m] = appr[o][m]
    BY <1>1, <1>t
  <2>3. appr' = [appr EXCEPT ![o] = v]
    BY <1>0
  <2> HIDE DEF v
  <2> QED BY <1>1, <1>t, <2>1, <2>2, <2>3
<1>4. \A m \in 1..2 : appr[o][m] # "none" => appr'[o][m] # "none"
  BY <1>1, <1>3
<1>5. Onward(o)
  BY <1>0, <1>4 DEF Onward
<1>6. \A p \in Ops \ {o} : Apart(p)
  BY <1>0, <1>3 DEF Apart
<1>7. OpFits(o)'
  <2>1. OpFits(o) /\ oappr[o] \in 0..2
    BY <1>1 DEF RowsInv, OpTypes
  <2>2. oappr[o] # 0 => oappr[o] \in 1..2
    BY <2>1
  <2>3. oappr'[o] # 0 => appr'[o][oappr'[o]] # "none" /\ <<o, oappr'[o]>> \notin altered'
    BY <1>0, <1>4, <2>1, <2>2 DEF OpFits
  <2> QED BY <1>0, <1>1, <2>1, <2>3 DEF OpFits
<1>8. \A m \in 1..2 : Truth(o, m, appr[o][m])'
  <2> SUFFICES ASSUME NEW m \in 1..2 PROVE Truth(o, m, appr[o][m])'
    OBVIOUS
  <2>1. PICK v : v = appr'[o][m]
    OBVIOUS
  <2>2. Truth(o, m, v)
    BY <1>1, <1>3, <2>1 DEF RowsInv
  <2>3. Truth(o, m, v)'
    BY <1>1, <1>5, <2>2, TruthLasts
  <2> QED BY <2>1, <2>3 DEF Truth
<1>9. /\ ostate' \in [Ops -> {"none", "awaiting"} \union OpEnded] /\ DOMAIN opFeed' = Ops
      /\ oappr' \in [Ops -> 0..2] /\ olevel' \in [Ops -> {"none", "scope", "platform"}]
      /\ apLevel' \in [Ops -> [1..2 -> {"none", "scope", "platform"}]]
      /\ \A p \in Ops : olevel'[p] = olevel[p] /\ ostate'[p] = ostate[p]
  BY <1>0, <1>1 DEF OpTypes
<1> QED BY <1>0, <1>1, <1>2, <1>3, <1>5, <1>6, <1>7, <1>8, <1>9, StoreKeeps


\* The money moves under the approval stored, once: the operation waited, and it no longer does.
LEMMA ExecuteKeeps ==
    ASSUME OperationsInv, NEW x \in Carriers, Execute(x)
    PROVE  OperationsInv'
<1>a. PICK o, n : o = carry[x].job /\ n = carry[x].num
  OBVIOUS
<1>0. /\ carry[x].at = "execute"
      /\ UNCHANGED <<oappr, olevel, oflag, balance, clockVars, worldVars, apprVars, inHand>>
      /\ \/ ~Awaits(o) /\ Leaves(x, OutcomeOf(o)) /\ UNCHANGED <<ostate, opFeed, payout, paidUnder>>
         \/ /\ Awaits(o) /\ Leaves(x, "executed")
            /\ ostate' = [ostate EXCEPT ![o] = "executed"]
            /\ payout' = [payout EXCEPT ![o] = "pending"]
            /\ paidUnder' = [paidUnder EXCEPT ![o] = Append(paidUnder[o], n)]
            /\ UNCHANGED opFeed
         \/ /\ Awaits(o) /\ Leaves(x, "failed")
            /\ ostate' = [ostate EXCEPT ![o] = "failed"] /\ Tell(o, "failed")
            /\ UNCHANGED <<payout, paidUnder>>
  BY <1>a DEF Execute
<1>1. /\ OpTypes /\ BudgetInv /\ RowsInv /\ o \in Ops /\ ostate[o] # "none" /\ n \in 1..2
      /\ appr[o][n] # "none" /\ oappr[o] = n /\ OpFits(o)
  <2>1. carry[x].at = "execute"
    BY <1>0
  <2>2. /\ RowsInv /\ o \in Ops /\ ostate[o] # "none" /\ n \in 1..2
        /\ appr[o][n] # "none" /\ oappr[o] = n
    BY <1>a, <2>1, InHandKnows
  <2>3. OpFits(o)
    BY <2>2 DEF RowsInv
  <2> QED BY <2>2, <2>3 DEF OperationsInv
<1>2. UNCHANGED <<oappr, olevel, oflag, balance, appr, apLevel, altered, inHand, agedOut, oldOps,
                  shut, blocked, catalog>>
  BY <1>0 DEF apprVars, clockVars, worldVars
<1>3. BudgetInv'
  BY <1>a, <1>1, ExecuteKeepsBudget
<1>4. ASSUME NEW w \in {"executed", "failed", "void"}, Leaves(x, w), Truth(o, n, w)', ostate'[o] # "none"
      PROVE  /\ carry' \in [Carriers -> Carrying] /\ \A y \in Carriers \ {x} : carry'[y] = carry[y]
             /\ CarrierFits(x)'
  <2>1. /\ carry' \in [Carriers -> Carrying] /\ \A y \in Carriers \ {x} : carry'[y] = carry[y]
        /\ carry'[x].at = "report" /\ carry'[x].job = o /\ carry'[x].num = n /\ carry'[x].out = w
    BY <1>a, <1>1, <1>4, CarryTo
  <2>2. appr'[o][n] # "none"
    BY <1>1, <1>2
  <2>3. CarrierFits(x)'
    BY <1>1, <1>4, <2>1, <2>2, LeavesFits
  <2> QED BY <2>1, <2>3
<1>5. CASE ~Awaits(o) /\ Leaves(x, OutcomeOf(o)) /\ UNCHANGED <<ostate, opFeed, payout, paidUnder>>
  <2>1. OutcomeOf(o) \in {"executed", "failed", "void"} /\ Truth(o, n, OutcomeOf(o))
    BY <1>1, <1>5, OutcomeIsTrue DEF Awaits
  <2>2. PICK w \in {"executed", "failed", "void"} : w = OutcomeOf(o)
    BY <2>1
  <2>3. Truth(o, n, w)' /\ Leaves(x, w) /\ ostate'[o] # "none"
    BY <1>1, <1>2, <1>5, <2>1, <2>2 DEF Truth
  <2>4. /\ carry' \in [Carriers -> Carrying] /\ \A y \in Carriers \ {x} : carry'[y] = carry[y]
        /\ CarrierFits(x)'
    BY <1>4, <2>3
  <2>5. UNCHANGED <<rowVars, moneyVars, clockVars, shut, blocked, apprVars, inHand, opFeed>>
    BY <1>2, <1>5 DEF rowVars, moneyVars, clockVars, apprVars
  <2>6. catalog' \subseteq Carriers
    BY <1>1, <1>2 DEF OpTypes
  <2> QED BY <2>4, <2>5, <2>6, ReadKeeps
<1>6. CASE /\ Awaits(o) /\ Leaves(x, "executed")
           /\ ostate' = [ostate EXCEPT ![o] = "executed"]
           /\ payout' = [payout EXCEPT ![o] = "pending"]
           /\ paidUnder' = [paidUnder EXCEPT ![o] = Append(paidUnder[o], n)]
           /\ UNCHANGED opFeed
  <2>1. /\ ostate' \in [Ops -> {"none", "awaiting"} \union OpEnded]
        /\ ostate'[o] = "executed" /\ \A p \in Ops \ {o} : ostate'[p] = ostate[p]
    BY <1>1, <1>6 DEF OpTypes, OpEnded
  <2>2. o \in Outs /\ payout' \in [Outs -> {"none", "pending", "posted", "failed"}]
    BY <1>1, <1>6 DEF OpTypes, Outs
  <2>3. paidUnder[o] = <<>>
    BY <1>1, <1>6 DEF OpFits, Awaits
  <2>4. /\ DOMAIN paidUnder' = Ops /\ paidUnder'[o] = <<n>>
        /\ \A p \in Ops \ {o} : paidUnder'[p] = paidUnder[p]
    <3>1. Append(<<>>, n) = <<n>>
      OBVIOUS
    <3> QED BY <1>1, <1>6, <2>3, <3>1 DEF OpTypes
  <2>5. Onward(o) /\ \A p \in Ops \ {o} : Apart(p)
    BY <1>2, <1>6, <2>1, <2>4 DEF Onward, Apart, Awaits, OpEnded
  <2>6. OpFits(o)'
    <3>1. n # 0 /\ <<o, oappr[o]>> \notin altered /\ appr[o][oappr[o]] # "none" /\ opFeed[o] = <<"requested">>
      BY <1>1, <1>6 DEF OpFits, Awaits
    <3> QED BY <1>1, <1>2, <1>6, <2>1, <2>4, <3>1 DEF OpFits
  <2>7. \A m \in 1..2 : Truth(o, m, appr[o][m])'
    <3>1. \A m \in 1..2 : appr'[o][m] = appr[o][m] \/ appr'[o][m] \in {"open", "ended"}
      BY <1>2
    <3> QED BY <1>1, <2>5, <3>1, TruthsLast
  <2>8. /\ carry' \in [Carriers -> Carrying] /\ \A y \in Carriers \ {x} : carry'[y] = carry[y]
        /\ CarrierFits(x)'
    <3>1. Truth(o, n, "executed")'
      BY <1>1, <1>2, <2>1 DEF Truth
    <3> QED BY <1>4, <1>6, <2>1, <3>1
  <2>9. OpTypes'
    BY <1>1, <1>2, <1>6, <2>1, <2>2, <2>4, <2>8 DEF OpTypes
  <2>10. RowsInv'
    BY <1>1, <2>5, <2>6, <2>7, <2>8, RowsCarried
  <2> QED BY <1>3, <2>9, <2>10 DEF OperationsInv
<1>7. CASE /\ Awaits(o) /\ Leaves(x, "failed")
           /\ ostate' = [ostate EXCEPT ![o] = "failed"] /\ Tell(o, "failed")
           /\ UNCHANGED <<payout, paidUnder>>
  <2>1. Close(o, "failed")
    BY <1>7 DEF Close, Awaits
  <2>2. /\ ostate' \in [Ops -> {"none", "awaiting"} \union OpEnded] /\ DOMAIN opFeed' = Ops
        /\ \A p \in Ops \ {o} : ostate'[p] = ostate[p] /\ opFeed'[p] = opFeed[p]
        /\ \A p \in Ops : ostate'[p] = ostate[p] \/ (ostate[p] = "awaiting" /\ ostate'[p] \in OpEnded)
        /\ ostate'[o] = "failed"
        /\ Onward(o) /\ OpFits(o)'
    <3>1. /\ UNCHANGED <<oappr, olevel, paidUnder, altered>> /\ ostate[o] = "awaiting"
          /\ \A m \in 1..2 : appr[o][m] # "none" => appr'[o][m] # "none"
      BY <1>2, <1>7 DEF Awaits
    <3> QED BY <1>1, <2>1, <3>1, CloseFits
  <2>3. \A p \in Ops \ {o} : Apart(p)
    BY <1>2, <1>7, <2>2 DEF Apart
  <2>4. \A m \in 1..2 : Truth(o, m, appr[o][m])'
    <3>1. \A m \in 1..2 : appr'[o][m] = appr[o][m] \/ appr'[o][m] \in {"open", "ended"}
      BY <1>2
    <3> QED BY <1>1, <2>2, <3>1, TruthsLast
  <2>5. /\ carry' \in [Carriers -> Carrying] /\ \A y \in Carriers \ {x} : carry'[y] = carry[y]
        /\ CarrierFits(x)'
    <3>1. Truth(o, n, "failed")' /\ ostate'[o] # "none"
      BY <2>2 DEF Truth
    <3> QED BY <1>4, <1>7, <3>1
  <2>6. OpTypes'
    BY <1>1, <1>2, <1>7, <2>2, <2>5 DEF OpTypes
  <2>7. RowsInv'
    BY <1>1, <2>2, <2>3, <2>4, <2>5, RowsCarried
  <2> QED BY <1>3, <2>6, <2>7 DEF OperationsInv
<1> QED BY <1>0, <1>5, <1>6, <1>7


-----------------------------------------------------------------------------
(***************************************************************************)
(* The relay, time, and the other systems.                                 *)
(***************************************************************************)
LEMMA PostRowKeeps ==
    ASSUME OperationsInv, NEW i \in Outs, NEW to \in {"posted", "failed"}, PostRow(i, to)
    PROVE  OperationsInv'
<1>0. /\ OpTypes /\ BudgetInv /\ RowsInv /\ payout' = [payout EXCEPT ![i] = to]
      /\ UNCHANGED <<rowVars, paidUnder, clockVars, worldVars, apprVars, carry, inHand, opFeed>>
  BY DEF PostRow, OperationsInv
<1>1. BudgetInv' /\ balance' \in 0..Balance0
  BY <1>0, PostKeepsBudget
<1>2. payout' \in [Outs -> {"none", "pending", "posted", "failed"}]
  BY <1>0 DEF OpTypes
<1>3. OpTypes'
  BY <1>0, <1>1, <1>2 DEF OpTypes, rowVars, clockVars, worldVars, apprVars
<1>4. RowsInv'
  BY <1>0, RowsStand DEF rowVars, apprVars
<1> QED BY <1>1, <1>3, <1>4 DEF OperationsInv

LEMMA DayOverKeeps ==
    ASSUME OperationsInv, NEW i \in Outs, DayOver(i)
    PROVE  OperationsInv'
<1>0. /\ OpTypes /\ BudgetInv /\ RowsInv /\ agedOut' = agedOut \union {i}
      /\ UNCHANGED <<rowVars, moneyVars, oldOps, worldVars, apprVars, carry, inHand, opFeed>>
  BY DEF DayOver, OperationsInv
<1>1. BudgetInv'
  BY <1>0, DayKeepsBudget
<1>2. OpTypes'
  BY <1>0 DEF OpTypes, rowVars, moneyVars, worldVars, apprVars
<1>3. RowsInv'
  BY <1>0, RowsStand DEF rowVars, moneyVars, apprVars
<1> QED BY <1>1, <1>2, <1>3 DEF OperationsInv

\* Steps of the other systems that touch neither an operation's row nor its money.
LEMMA WorldKeeps ==
    ASSUME OperationsInv, UNCHANGED <<rowVars, moneyVars, agedOut, catalog, apprVars, carry, inHand, opFeed>>,
           oldOps' \subseteq Ops, shut' \in BOOLEAN, blocked' \in BOOLEAN
    PROVE  OperationsInv'
<1>0. /\ OpTypes /\ BudgetInv /\ RowsInv
      /\ UNCHANGED <<ostate, oappr, olevel, oflag, payout, balance, paidUnder, appr, apLevel, altered>>
  BY DEF OperationsInv, rowVars, moneyVars, apprVars
<1>1. BudgetInv'
  <2>1. UNCHANGED <<inHand, payout, balance, agedOut, oflag>>
    BY <1>0
  <2>2. \A o \in Ops : ostate'[o] = ostate[o] /\ olevel'[o] = olevel[o]
    BY <1>0
  <2> QED BY <1>0, <2>1, <2>2, BudgetStays
<1>2. OpTypes'
  BY <1>0 DEF OpTypes
<1>3. RowsInv'
  BY <1>0, RowsStand
<1> QED BY <1>1, <1>2, <1>3 DEF OperationsInv

LEMMA UnopenedKeeps ==
    ASSUME OperationsInv, NEW o \in Ops, UnopenedTooLong(o)
    PROVE  OperationsInv'
<1>1. oldOps' \subseteq Ops /\ shut' \in BOOLEAN /\ blocked' \in BOOLEAN
  BY DEF OperationsInv, OpTypes, UnopenedTooLong, worldVars
<1>2. UNCHANGED <<rowVars, moneyVars, agedOut, catalog, apprVars, carry, inHand, opFeed>>
  BY DEF UnopenedTooLong, worldVars
<1> QED BY <1>1, <1>2, WorldKeeps

LEMMA FreezeKeeps ==
    ASSUME OperationsInv, FreezeOps \/ BlockRecipient
    PROVE  OperationsInv'
<1>1. oldOps' \subseteq Ops /\ shut' \in BOOLEAN /\ blocked' \in BOOLEAN
  BY DEF OperationsInv, OpTypes, FreezeOps, BlockRecipient, clockVars
<1>2. UNCHANGED <<rowVars, moneyVars, agedOut, catalog, apprVars, carry, inHand, opFeed>>
  BY DEF FreezeOps, BlockRecipient, clockVars
<1> QED BY <1>1, <1>2, WorldKeeps

\* The approvers decide between any two steps of an executor; a passed
\* approval that is vetoed was still opened over the payload it is over.
LEMMA DecideKeeps ==
    ASSUME OperationsInv, NEW o \in Ops, NEW n \in 1..2, NEW to \in {"passed", "ended"}, ApproversDecide(o, n, to)
    PROVE  OperationsInv'
<1>0. /\ OpTypes /\ BudgetInv /\ RowsInv /\ appr[o][n] # "none"
      /\ appr' = [appr EXCEPT ![o] = [appr[o] EXCEPT ![n] = to]]
      /\ UNCHANGED <<ostate, oappr, olevel, oflag, payout, balance, paidUnder, clockVars, worldVars,
                     apLevel, altered, carry, inHand, opFeed>>
  BY DEF OperationsInv, ApproversDecide, rowVars, moneyVars
<1>1. /\ appr' \in [Ops -> [1..2 -> ApprovalStates]]
      /\ \A p \in Ops \ {o} : appr'[p] = appr[p]
      /\ appr'[o][n] = to /\ \A m \in 1..2 : m # n => appr'[o][m] = appr[o][m]
  <2> DEFINE v == [appr[o] EXCEPT ![n] = to]
  <2>1. appr[o] \in [1..2 -> ApprovalStates] /\ appr \in [Ops -> [1..2 -> ApprovalStates]]
    BY <1>0 DEF OpTypes
  <2>2. v \in [1..2 -> ApprovalStates] /\ v[n] = to /\ \A m \in 1..2 : m # n => v[m] = appr[o][m]
    BY <2>1 DEF ApprovalStates
  <2>3. appr' = [appr EXCEPT ![o] = v]
    BY <1>0
  <2> HIDE DEF v
  <2> QED BY <2>1, <2>2, <2>3
<1>2. BudgetInv'
  <2>1. UNCHANGED <<inHand, payout, balance, agedOut, oflag>>
    BY <1>0 DEF clockVars
  <2>2. \A p \in Ops : ostate'[p] = ostate[p] /\ olevel'[p] = olevel[p]
    BY <1>0
  <2> QED BY <1>0, <2>1, <2>2, BudgetStays
<1>3. OpTypes'
  BY <1>0, <1>1 DEF OpTypes, clockVars, worldVars
<1>4. \A m \in 1..2 : appr[o][m] # "none" => appr'[o][m] # "none"
  BY <1>1
<1>5. Onward(o)
  BY <1>0, <1>4 DEF Onward
<1>6. \A p \in Ops \ {o} : Apart(p)
  BY <1>0, <1>1 DEF Apart
<1>7. OpFits(o)'
  <2>1. OpFits(o) /\ oappr[o] \in 0..2
    BY <1>0 DEF RowsInv, OpTypes
  <2>2. oappr[o] # 0 => oappr[o] \in 1..2
    BY <2>1
  <2>3. oappr'[o] # 0 => appr'[o][oappr'[o]] # "none" /\ <<o, oappr'[o]>> \notin altered'
    BY <1>0, <1>4, <2>1, <2>2 DEF OpFits
  <2>4. ostate[o] # "none"
    BY <1>0, <2>1 DEF OpFits
  <2> QED BY <1>0, <2>1, <2>3, <2>4 DEF OpFits
<1>8. \A m \in 1..2 : Truth(o, m, appr[o][m])'
  <2> SUFFICES ASSUME NEW m \in 1..2 PROVE Truth(o, m, appr[o][m])'
    OBVIOUS
  <2>1. CASE m = n
    BY <1>1, <2>1 DEF Truth
  <2>2. CASE m # n
    <3>1. PICK v : v = appr[o][m]
      OBVIOUS
    <3>2. Truth(o, m, v)
      BY <1>0, <3>1 DEF RowsInv
    <3>3. Truth(o, m, v)'
      BY <1>0, <1>5, <3>2, TruthLasts
    <3> QED BY <1>1, <2>2, <3>1, <3>3 DEF Truth
  <2> QED BY <2>1, <2>2
<1>9. RowsInv'
  BY <1>0, <1>5, <1>6, <1>7, <1>8, RowsOneOp
<1> QED BY <1>2, <1>3, <1>9 DEF OperationsInv

-----------------------------------------------------------------------------
(***************************************************************************)
(* The theorems.                                                           *)
(***************************************************************************)
LEMMA OperationsStart == ASSUME NEW live \in SUBSET Outs, OpInitWith(live) PROVE OperationsInv
<1>1. Ops \subseteq Outs /\ {Budget, Balance0} \subseteq Nat
  BY OperationsAssumption DEF Outs
<1>2. OpTypes
  <2>1. Resting \in Carrying
    BY DEF Resting, Carrying, NoJob
  <2>2. /\ ostate \in [Ops -> {"none", "awaiting"} \union OpEnded]
        /\ oappr \in [Ops -> 0..2] /\ olevel \in [Ops -> {"none", "scope", "platform"}]
        /\ payout \in [Outs -> {"none", "pending", "posted", "failed"}]
        /\ inHand \in [Outs -> Int] /\ \A i \in Outs : inHand[i] >= -1
        /\ DOMAIN opFeed = Ops /\ DOMAIN paidUnder = Ops
    BY DEF OpInitWith, OpEnded
  <2>3. /\ appr \in [Ops -> [1..2 -> ApprovalStates]]
        /\ apLevel \in [Ops -> [1..2 -> {"none", "scope", "platform"}]]
    BY DEF OpInitWith, ApprovalStates
  <2>4. /\ oflag \subseteq Ops /\ oldOps \subseteq Ops /\ agedOut \subseteq Outs /\ catalog \subseteq Carriers
        /\ balance \in 0..Balance0 /\ shut \in BOOLEAN /\ blocked \in BOOLEAN
    <3>1. oflag = {} /\ oldOps = {} /\ agedOut = {} /\ catalog = {} /\ balance = Balance0
      BY DEF OpInitWith
    <3>2. Balance0 \in Nat /\ Balance0 \in 0..Balance0
      BY <1>1
    <3>3. shut = FALSE /\ blocked = FALSE
      BY Zenon DEF OpInitWith
    <3>4. shut \in BOOLEAN /\ blocked \in BOOLEAN
      BY <3>3, Zenon
    <3> QED BY <3>1, <3>2, <3>4
  <2>5. carry \in [Carriers -> Carrying]
    BY <2>1 DEF OpInitWith
  <2> QED BY <2>2, <2>3, <2>4, <2>5 DEF OpTypes
<1>3. TotalOf({}) = 0
  <2>1. TotalOf({}) = SumOver(Total, {})
    BY TotalIs
  <2> QED BY <2>1, SumChosen, FS_EmptySet
<1>4. PaidAlone = {} /\ CountedOperations = {} /\ {i \in Outs : payout[i] = "pending"} = {}
  BY <1>1 DEF OpInitWith, PaidAlone, CountedOperations, Outs
<1>5. BudgetHeld /\ RequestsAreCovered
  <2>1. CountedOperations \ oflag = {}
    BY <1>4
  <2>2. balance \in Nat /\ Budget \in Nat
    BY <1>1 DEF OpInitWith
  <2>3. BudgetHeld
    BY <1>3, <1>4, <2>1, <2>2 DEF BudgetHeld
  <2>4. SpendableOut = balance - 0
    BY <1>3, <1>4 DEF SpendableOut
  <2> QED BY <2>2, <2>3, <2>4 DEF RequestsAreCovered
<1>6. BudgetInv
  BY <1>5 DEF OpInitWith, BudgetInv, OneHolder, HandFits
<1>7. \A o \in Ops : OpFits(o) /\ \A n \in 1..2 : Truth(o, n, appr[o][n])
  BY <1>1 DEF OpInitWith, OpFits, Truth
<1>8. \A x \in Carriers : CarrierFits(x)
  BY DEF OpInitWith, CarrierFits, Resting
<1> QED BY <1>2, <1>6, <1>7, <1>8 DEF OperationsInv, RowsInv

LEMMA AskKeeps == OperationsInv /\ AskStep => OperationsInv'
BY PayoutReads, PayoutCommits, OperationReads, OperationCommits, TransferRequested DEF AskStep

LEMMA RoundKeeps ==
    ASSUME OperationsInv, NEW x \in Carriers, RoundOf(x)
    PROVE  OperationsInv'
<1>1. CASE \E o \in Ops : ExpireReads(x, o) \/ ProposeDue(x, o) \/ SettleOne(x, o)
  BY <1>1, ListedKeeps
<1>2. CASE \E o \in Ops, n \in 1..2 : PullApproved(x, o, n)
  BY <1>2, PulledKeeps
<1>3. CASE \E n \in 1..2, l \in {"scope", "platform"} : ProposeAnswered(x, n, l)
  BY <1>3, AnsweredKeeps
<1>4. CASE CarrierStops(x)
  BY <1>4, RestKeeps DEF CarrierStops
<1> QED BY <1>1, <1>2, <1>3, <1>4, PublishKeeps, RefusedKeeps, CloseKeeps, MismatchKeeps, OpenedKeeps,
           CarryOutKeeps, ConfirmKeeps, AdoptKeeps, ExecuteKeeps, ReportKeeps DEF RoundOf

LEMMA WorldStepKeeps == OperationsInv /\ OpWorldStep => OperationsInv'
BY DayOverKeeps, PostRowKeeps, UnopenedKeeps, DecideKeeps, FreezeKeeps DEF OpWorldStep

LEMMA OperationsStep == OperationsInv /\ [OpNext]_opVars => OperationsInv'
<1> SUFFICES ASSUME OperationsInv, [OpNext]_opVars PROVE OperationsInv'
  OBVIOUS
<1>1. CASE OpNext
  BY <1>1, AskKeeps, WorldStepKeeps, RoundKeeps DEF OpNext
<1>2. CASE UNCHANGED opVars
  <2>1. /\ UNCHANGED <<rowVars, moneyVars, agedOut, catalog, apprVars, carry, inHand, opFeed>>
        /\ UNCHANGED <<oldOps, shut, blocked>>
    BY <1>2 DEF opVars, clockVars, worldVars
  <2>2. oldOps' \subseteq Ops /\ shut' \in BOOLEAN /\ blocked' \in BOOLEAN
    BY <2>1 DEF OperationsInv, OpTypes
  <2> QED BY <2>1, <2>2, WorldKeeps
<1> QED BY <1>1, <1>2

\* The invariant of payouts and operations (the holder of the scope's budget
\* lock read at least what leaves the scope; the approval an operation stored
\* is opened, over its payload, and what it paid under; an executor in hand of
\* one knows it) holds for any number of them and of executors, whatever
\* concierge, the approvers and the relay do between two steps.
THEOREM OperationsInvariant == OpSpec => []OperationsInv
<1>1. OpInit => OperationsInv
  BY OperationsStart DEF OpInit
<1> QED BY <1>1, OperationsStep, PTL DEF OpSpec

\* What leaves a scope left under its one approval, in its budget and out of money it had.
THEOREM PaidByRight == OpSpec => []PaidWithinItsRight
<1>1. OperationsInv => PaidWithinItsRight
  <2> SUFFICES ASSUME OperationsInv PROVE PaidWithinItsRight
    OBVIOUS
  <2>1. BudgetHeld /\ RequestsAreCovered /\ \A o \in Ops : OpFits(o)
    BY DEF OperationsInv, BudgetInv, RowsInv
  <2>2. PaidUnderItsApproval
    <3> SUFFICES ASSUME NEW o \in Ops
                 PROVE  /\ Len(paidUnder[o]) <= 1
                        /\ paidUnder[o] # <<>> => ostate[o] = "executed" /\ paidUnder[o][1] = oappr[o]
      BY DEF PaidUnderItsApproval
    <3>1. PICK n : n = oappr[o]
      OBVIOUS
    <3>2. paidUnder[o] = IF ostate[o] = "executed" THEN <<n>> ELSE <<>>
      BY <2>1, <3>1 DEF OpFits
    <3>3. Len(<<n>>) = 1 /\ <<n>>[1] = n /\ Len(<<>>) = 0 /\ <<n>> # <<>>
      OBVIOUS
    <3> QED BY <3>1, <3>2, <3>3
  <2> QED BY <2>1, <2>2 DEF PaidWithinItsRight
<1> QED BY <1>1, OperationsInvariant, PTL

\* Concierge is told what became of the operation its approval decided, and a
\* client reads a request once, before its one end.
THEOREM EndsTold == OpSpec => []EndsAreTold
<1>1. OperationsInv => EndsAreTold
  <2> SUFFICES ASSUME OperationsInv PROVE EndsAreTold
    OBVIOUS
  <2>1. /\ \A o \in Ops : OpFits(o) /\ ostate[o] # "requested"
        /\ \A o \in Ops, n \in 1..2 : Truth(o, n, appr[o][n])
    BY DEF OperationsInv, RowsInv, OpTypes, OpEnded
  <2>2. ApproversKnowTheTruth
    BY <2>1 DEF ApproversKnowTheTruth, Truth
  <2>3. FeedTellsOneEnd
    <3> SUFFICES ASSUME NEW o \in Ops
                 PROVE  /\ Len(opFeed[o]) <= 2
                        /\ \A k \in 1..Len(opFeed[o]) :
                              opFeed[o][k] = "requested" <=> (k = 1 /\ oappr[o] # 0 /\ opFeed[o][1] = "requested")
                        /\ opFeed[o] # <<>> /\ opFeed[o][Len(opFeed[o])] # "requested" =>
                              ostate[o] = opFeed[o][Len(opFeed[o])]
      BY DEF FeedTellsOneEnd
    <3>1. PICK f, e : f = opFeed[o] /\ e = ostate[o]
      OBVIOUS
    <3>2. /\ e # "requested"
          /\ f = <<>> \/ (f = <<"requested">> /\ oappr[o] # 0) \/ f = <<e>> \/ (f = <<"requested", e>> /\ oappr[o] # 0)
      BY <2>1, <3>1 DEF OpFits
    <3>3. CASE f = <<>>
      BY <3>1, <3>3
    <3>4. CASE f = <<"requested">> /\ oappr[o] # 0
      <4>1. Len(f) = 1 /\ f[1] = "requested"
        BY <3>4
      <4> QED BY <3>1, <3>4, <4>1
    <3>5. CASE f = <<e>>
      <4>1. Len(f) = 1 /\ f[1] = e
        BY <3>5
      <4> QED BY <3>1, <3>2, <4>1
    <3>6. CASE f = <<"requested", e>> /\ oappr[o] # 0
      <4>1. Len(f) = 2 /\ f[1] = "requested" /\ f[2] = e
        BY <3>6
      <4>2. \A k \in 1..2 : k = 1 \/ k = 2
        OBVIOUS
      <4> QED BY <3>1, <3>2, <3>6, <4>1, <4>2
    <3> QED BY <3>2, <3>3, <3>4, <3>5, <3>6
  <2> QED BY <2>2, <2>3 DEF EndsAreTold
<1> QED BY <1>1, OperationsInvariant, PTL

\* The types of the operations, the approvals and the executors, of a scope
\* that can have an operation.
THEOREM OperationsTypes == ASSUME Ops # {} PROVE OpSpec => []OpTypeOK
<1>1. OperationsInv => OpTypeOK
  BY DEF OperationsInv, OpTypes, OpTypeOK, Carrying, NoJob
<1> QED BY <1>1, OperationsInvariant, PTL
=============================================================================
