----------------------------- MODULE FundProofs -----------------------------
(***************************************************************************)
(* Proofs about the parts of a product's fund, for any number of holders,  *)
(* changes, sweepers, desks and orders.                                    *)
(*                                                                         *)
(* Fees: a sweep prices a window of ticks at terms it read earlier.  The   *)
(* invariant says that, as long as the position's clock stands, those were *)
(* terms in force at every tick of that window: a promotion either moves   *)
(* the clock to its effective_from or leaves a window both terms govern.   *)
(***************************************************************************)
EXTENDS Fees, Shares, Sums

-----------------------------------------------------------------------------
(***************************************************************************)
(* Sums of what was billed for the ticks of a window.                      *)
(***************************************************************************)
LEMMA TicksFinite == IsFiniteSet(Ticks) /\ Horizon \in Nat
<1>1. Horizon \in Nat
  BY FeesAssumption
<1>2. IsFiniteSet(0..(Horizon - 1))
  BY <1>1, FS_Interval
<1> QED BY <1>1, <1>2 DEF Ticks

LEMMA BilledIs == \A b : Billed(b) = SumOver(b, Ticks)
BY DEF Billed, MapThenSumSet, MapThenFoldSet, SumOver, SumFn, IsSum

\* A fee added to each tick of a window adds the fee times its length.
LEMMA BilledWindow ==
    ASSUME NEW b \in [Ticks -> Nat], NEW v \in [Ticks -> Nat], NEW rate \in Nat,
           NEW from \in 0..Horizon, NEW to \in 0..Horizon,
           \A t \in Ticks : v[t] = IF t \in Window(from, to) THEN b[t] + rate ELSE b[t]
    PROVE  Billed(v) = Billed(b) + ManagementDue(rate, from, to)
<1> DEFINE u(n) == [t \in Ticks |-> IF from <= t /\ t < from + n THEN b[t] + rate ELSE b[t]]
           T == {n \in Nat : from + n <= Horizon => SumOver(u(n), Ticks) = SumOver(b, Ticks) + rate * n}
<1>0. Horizon \in Nat /\ IsFiniteSet(Ticks) /\ from \in Nat /\ to \in Nat
  BY TicksFinite
<1>1. 0 \in T
  <2>1. u(0) = b
    BY <1>0 DEF Ticks
  <2>2. SumOver(b, Ticks) \in Int
    BY <1>0, SumInt
  <2> HIDE DEF u
  <2> QED BY <2>1, <2>2
<1>2. ASSUME NEW n \in Nat, n \in T PROVE n + 1 \in T
  <2> SUFFICES ASSUME from + (n + 1) <= Horizon
               PROVE  SumOver(u(n + 1), Ticks) = SumOver(b, Ticks) + rate * (n + 1)
    OBVIOUS
  <2>1. SumOver(u(n), Ticks) = SumOver(b, Ticks) + rate * n
    BY <1>0, <1>2
  <2>2. from + n \in Ticks
    BY <1>0 DEF Ticks
  <2> DEFINE p == u(n)
             q == u(n + 1)
             k == from + n
  <2>3. /\ \A t \in Ticks : p[t] \in Int /\ q[t] \in Int
        /\ \A t \in Ticks \ {k} : p[t] = q[t]
        /\ p[k] = b[k] /\ q[k] = b[k] + rate /\ k \in Ticks
    BY <1>0, <2>2 DEF Ticks
  <2>4. SumOver(b, Ticks) \in Int /\ SumOver(p, Ticks) \in Int /\ b[k] \in Int
    BY <1>0, <2>2, <2>3, SumInt
  <2> HIDE DEF T, u, p, q, k
  <2>5. SumOver(q, Ticks) = SumOver(p, Ticks) + (q[k] - p[k])
    <3>1. SumOver(p, Ticks) = p[k] + SumOver(p, Ticks \ {k})
      BY <1>0, <2>3, SumRemove
    <3>2. SumOver(q, Ticks) = q[k] + SumOver(q, Ticks \ {k})
      BY <1>0, <2>3, SumRemove
    <3>3. IsFiniteSet(Ticks \ {k}) /\ \A t \in Ticks \ {k} : p[t] = q[t] /\ p[t] \in Int
      BY <1>0, <2>3, FS_Subset
    <3>4. SumOver(p, Ticks \ {k}) = SumOver(q, Ticks \ {k}) /\ SumOver(p, Ticks \ {k}) \in Int
      BY <3>3, SumSame, SumInt
    <3> QED BY <2>3, <2>4, <3>1, <3>2, <3>4
  <2>6. SumOver(q, Ticks) = SumOver(p, Ticks) + rate
    BY <2>3, <2>4, <2>5
  <2>7. rate * (n + 1) = rate * n + rate /\ rate * n \in Int
    OBVIOUS
  <2> QED BY <2>1, <2>4, <2>6, <2>7 DEF p, q
<1>3. \A n \in Nat : n \in T
  <2> HIDE DEF T
  <2> QED BY <1>1, <1>2, SetInduction
<1>4. v = u(Elapsed(from, to))
  BY <1>0 DEF Elapsed, Window, Ticks
<1>5. Elapsed(from, to) \in Nat /\ from + Elapsed(from, to) <= Horizon
  BY <1>0 DEF Elapsed
<1>6. SumOver(u(Elapsed(from, to)), Ticks) = SumOver(b, Ticks) + rate * Elapsed(from, to)
  <2> HIDE DEF u
  <2> QED BY <1>3, <1>5
<1> QED BY <1>4, <1>6, BilledIs DEF ManagementDue


-----------------------------------------------------------------------------
(***************************************************************************)
(* Fees: the invariant.                                                    *)
(***************************************************************************)
Snaps == [h : Holders, at : 0..Horizon, cryst : 0..Horizon, debt : Nat, mark : Prices]
SweepRecs == [at : {"idle", "next", "position", "charge"}, now : 0..Horizon, due : SUBSET Holders,
              fee : Nat, snap : Snaps \cup {<<>>}]

\* Types of the state and of its history.
FeesTypes ==
    /\ FeesTypeOK
    /\ sweep \in [Sweepers -> SweepRecs]
    /\ \A s \in Sweepers : sweep[s].at = "charge" => sweep[s].snap \in Snaps
    /\ announced \in [Changes -> Nat]
    /\ bill \in [Holders -> [Ticks -> Nat]] /\ owed \in [Holders -> [Ticks -> SUBSET Nat]]
    /\ overtaken \subseteq Holders /\ entry \in [Holders -> Prices] /\ taken \in [Holders -> Nat]

\* A notice stands where its change stands: none before the change is dated, none
\* waiting once it is withdrawn; only holders given up on are named by an operator,
\* and who was to be told was promised the notice period.
NoticeInv(f) ==
    /\ fstate[f] \in {"none", "awaiting_consilium", "rejected"} =>
           waived[f] = {} /\ \A h \in Holders : notice[f][h] = "none"
    /\ fstate[f] = "cancelled" => \A h \in Holders : notice[f][h] # "queued"
    /\ fstate[f] = "scheduled" =>
           /\ \A h \in Holders : notice[f][h] # "withdrawn"
           /\ \A h \in waived[f] : notice[f][h] = "given_up"
           /\ (\E h \in Holders : notice[f][h] # "none") => effective[f] >= announced[f] + MinNotice

\* The fee is one that was in force at every tick not billed yet before upto.
InForce(h, upto, rate) == \A t \in Window(accruedAt[h], upto) : rate \in owed[h][t]

\* A holding position's open window is at the terms, a dormant one has none.
WindowInv(h) ==
    /\ \A t \in Ticks : t >= clock => owed[h][t] = {}
    /\ h \in held => InForce(h, clock, terms.fee)
    /\ h \notin held => \A t \in Window(accruedAt[h], clock) : owed[h][t] = {}

BilledRight(h) ==
    \A t \in Ticks :
        IF t < accruedAt[h] /\ t < clock /\ owed[h][t] # {} THEN bill[h][t] \in owed[h][t] ELSE bill[h][t] = 0

AccountInv(h) ==
    /\ WindowInv(h) /\ BilledRight(h)
    /\ taken[h] + debt[h] = Billed(bill[h]) + gain[h]
    /\ gain[h] <= mark[h] - entry[h]

\* The holders a sweep may still charge.
SeenBy(s) == IF sweep[s].at = "charge" THEN sweep[s].due \cup {sweep[s].snap.h} ELSE sweep[s].due

\* The fee a sweep took with it was in force over the windows it may still bill.
SweepInv(s) ==
    /\ sweep[s].now <= clock
    /\ \A h \in SeenBy(s) \ overtaken : h \in held \/ accruedAt[h] >= sweep[s].now
    /\ sweep[s].at \in {"position", "charge"} =>
           \A h \in SeenBy(s) \ overtaken : InForce(h, sweep[s].now, sweep[s].fee)

FeesInv ==
    /\ FeesTypes
    /\ \A h \in Holders : accruedAt[h] <= clock
    /\ \A f \in Changes : NoticeInv(f)
    /\ \A h \in Holders \ overtaken : AccountInv(h)
    /\ \A s \in Sweepers : SweepInv(s)

-----------------------------------------------------------------------------
(***************************************************************************)
(* Frames, and what an amount or a clock may become.                       *)
(***************************************************************************)
LEMMA FeesConsts ==
    /\ FirstTerms \in [fee : Nat, hurdle : Nat]
    /\ NewTerms \in [Changes -> [fee : Nat, hurdle : Nat]]
    /\ Wished \in [Changes -> Nat]
    /\ House \in Nat /\ MinNotice \in Nat /\ MinAge \in Nat /\ Period \in Nat /\ Horizon \in Nat
    /\ Prices \subseteq Nat \ {0}
BY FeesAssumption

LEMMA DueNat == \A rate \in Nat, from, to \in 0..Horizon : ManagementDue(rate, from, to) \in Nat
<1>1. ASSUME NEW rate \in Nat, NEW from \in 0..Horizon, NEW to \in 0..Horizon
      PROVE  ManagementDue(rate, from, to) \in Nat
  <2>1. Elapsed(from, to) \in Nat
    BY FeesConsts DEF Elapsed
  <2>2. \A i, j \in Nat : i * j \in Nat
    OBVIOUS
  <2> QED BY <2>1, <2>2 DEF ManagementDue
<1> QED BY <1>1

\* What a position's account reads.
LEMMA AccountFrame ==
    ASSUME NEW h \in Holders, AccountInv(h),
           UNCHANGED <<clock, terms, accruedAt[h], owed[h], bill[h], taken[h], debt[h], gain[h], mark[h], entry[h]>>,
           h \in held <=> h \in held'
    PROVE  AccountInv(h)'
BY DEF AccountInv, WindowInv, BilledRight, InForce

\* A sweep at rest stays right while clocks only move forward, leaving holders
\* are stamped now, and a fee that was in force stays so.
Moves ==
    /\ clock <= clock' /\ overtaken \subseteq overtaken'
    /\ \A h \in Holders \ overtaken' :
           /\ accruedAt[h] <= accruedAt'[h]
           /\ h \in held => h \in held' \/ accruedAt'[h] >= clock
           /\ \A t \in Ticks : t < clock => owed[h][t] \subseteq owed'[h][t]

LEMMA SweepFrame ==
    ASSUME FeesTypes, FeesTypes', NEW s \in Sweepers, SweepInv(s), sweep'[s] = sweep[s], Moves
    PROVE  SweepInv(s)'
<1> DEFINE x == sweep[s]
           S == SeenBy(s)
<1>1. x \in SweepRecs /\ x.now \in 0..Horizon /\ S \subseteq Holders /\ clock \in 0..Horizon /\ clock' \in 0..Horizon
  <2>1. x \in SweepRecs /\ (x.at = "charge" => x.snap \in Snaps)
    BY DEF FeesTypes
  <2>2. x.now \in 0..Horizon /\ x.due \subseteq Holders /\ (x.at = "charge" => x.snap.h \in Holders)
    BY <2>1 DEF SweepRecs, Snaps
  <2>3. clock \in 0..Horizon /\ clock' \in 0..Horizon
    BY DEF FeesTypes, FeesTypeOK
  <2> QED BY <2>1, <2>2, <2>3 DEF SeenBy
<1>2. accruedAt \in [Holders -> 0..Horizon] /\ accruedAt' \in [Holders -> 0..Horizon] /\ Horizon \in Nat
  BY FeesConsts DEF FeesTypes, FeesTypeOK
<1>3. SeenBy(s)' = S
  BY DEF SeenBy
<1>4. (sweep[s].now <= clock)'
  BY <1>1, <1>2 DEF SweepInv, Moves
<1>5. ASSUME NEW h \in S \ overtaken' PROVE h \in held' \/ accruedAt'[h] >= x.now
  BY <1>1, <1>2 DEF SweepInv, Moves
<1>6. ASSUME x.at \in {"position", "charge"}, NEW h \in S \ overtaken', NEW t \in Window(accruedAt'[h], x.now)
      PROVE  x.fee \in owed'[h][t]
  <2>1. h \in Holders \ overtaken' /\ h \in S \ overtaken /\ t \in Ticks /\ accruedAt'[h] <= t /\ t < x.now /\ t \in Int
    BY <1>1, <1>6 DEF Moves, Window, Ticks
  <2>2. accruedAt[h] <= t /\ t < clock
    BY <1>1, <1>2, <2>1 DEF SweepInv, Moves
  <2>3. t \in Window(accruedAt[h], x.now)
    BY <2>1, <2>2 DEF Window
  <2>4. x.fee \in owed[h][t]
    BY <1>6, <2>1, <2>3 DEF SweepInv, InForce
  <2> QED BY <2>1, <2>2, <2>4 DEF Moves
<1> QED BY <1>3, <1>4, <1>5, <1>6 DEF SweepInv, InForce

\* Steps of a change alone leave positions and sweeps as they are.
ChangeOnly == UNCHANGED <<clock, price, sweep, terms, positionVars, historyVars>>

LEMMA ChangeOnlyInv ==
    ASSUME FeesInv, ChangeOnly, FeesTypes', \A f \in Changes : NoticeInv(f)'
    PROVE  FeesInv'
<1> USE DEF ChangeOnly, positionVars, historyVars
<1>1. \A h \in Holders : accruedAt'[h] <= clock'
  BY DEF FeesInv
<1>2. ASSUME NEW h \in Holders \ overtaken' PROVE AccountInv(h)'
  BY AccountFrame DEF FeesInv
<1>3. Moves
  <2>1. accruedAt \in [Holders -> 0..Horizon] /\ clock \in Int /\ Horizon \in Nat
    BY FeesConsts DEF FeesInv, FeesTypes, FeesTypeOK
  <2>2. clock <= clock' /\ \A h \in Holders : accruedAt[h] <= accruedAt'[h]
    BY <2>1
  <2> QED BY <2>2 DEF Moves
<1>4. ASSUME NEW s \in Sweepers PROVE SweepInv(s)'
  BY <1>3, SweepFrame DEF FeesInv
<1> QED BY <1>1, <1>2, <1>4 DEF FeesInv

-----------------------------------------------------------------------------
(***************************************************************************)
(* Fees: the steps of a change.                                            *)
(***************************************************************************)
NoticeStates == {"none", "queued", "sent", "given_up", "withdrawn"}

LEMMA ChangeTypes ==
    ASSUME FeesTypes, ChangeOnly,
           fstate' \in [Changes -> FeePolicyChangeStates \union {"none"}],
           effective' \in [Changes -> Nat], announced' \in [Changes -> Nat],
           notice' \in [Changes -> [Holders -> NoticeStates]],
           waived' \in [Changes -> SUBSET Holders]
    PROVE  FeesTypes'
BY DEF FeesTypes, FeesTypeOK, ChangeOnly, positionVars, historyVars, NoticeStates

\* A change nothing happened to.
NoticeUntouched(f) ==
    UNCHANGED <<fstate[f], effective[f], notice[f], waived[f], announced[f]>>

LEMMA NoticeFrame ==
    ASSUME NEW f \in Changes, NoticeInv(f), NoticeUntouched(f)
    PROVE  NoticeInv(f)'
BY DEF NoticeInv, NoticeUntouched

\* Notices are queued for the holders, who are then owed the notice period.
LEMMA EnqueueFacts ==
    ASSUME FeesTypes, NEW f \in Changes, EnqueueNotices(f),
           effective' = [effective EXCEPT ![f] = EarliestEffectiveFrom(f)]
    PROVE  /\ effective' \in [Changes -> Nat] /\ announced' \in [Changes -> Nat]
           /\ notice' \in [Changes -> [Holders -> NoticeStates]]
           /\ \A g \in Changes \ {f} : UNCHANGED <<effective[g], notice[g], announced[g]>>
           /\ \A h \in Holders : notice'[f][h] \in {"none", "queued"}
           /\ (\E h \in Holders : notice'[f][h] # "none") => effective'[f] >= announced'[f] + MinNotice
<1>0. /\ clock \in Nat /\ effective \in [Changes -> Nat] /\ announced \in [Changes -> Nat]
      /\ notice \in [Changes -> [Holders -> NoticeStates]] /\ held \subseteq Holders
  BY FeesConsts DEF FeesTypes, FeesTypeOK, NoticeStates
<1>1. /\ EarliestEffectiveFrom(f) \in Nat
      /\ held # {} => EarliestEffectiveFrom(f) >= clock + MinNotice
  BY <1>0, FeesConsts DEF EarliestEffectiveFrom
<1>2. /\ notice' = [notice EXCEPT ![f] = [h \in Holders |-> IF h \in held THEN "queued" ELSE "none"]]
      /\ announced' = [announced EXCEPT ![f] = clock]
  BY DEF EnqueueNotices
<1>3. [h \in Holders |-> IF h \in held THEN "queued" ELSE "none"] \in [Holders -> NoticeStates]
  BY DEF NoticeStates
<1>4. notice' \in [Changes -> [Holders -> NoticeStates]]
  BY <1>0, <1>2, <1>3
<1>5. effective' \in [Changes -> Nat] /\ announced' \in [Changes -> Nat]
  BY <1>0, <1>1, <1>2
<1>6. \A g \in Changes \ {f} : UNCHANGED <<effective[g], notice[g], announced[g]>>
  BY <1>0, <1>2
<1>7. notice'[f] = [h \in Holders |-> IF h \in held THEN "queued" ELSE "none"]
  BY <1>0, <1>2
<1>8. announced'[f] = clock /\ effective'[f] = EarliestEffectiveFrom(f)
  BY <1>0, <1>2
<1> QED BY <1>1, <1>4, <1>5, <1>6, <1>7, <1>8

\* Dated and announced, from a state without notices or waivers.
LEMMA ScheduledInv ==
    ASSUME FeesInv, NEW f \in Changes, fstate[f] \in {"none", "awaiting_consilium"},
           fstate' = [fstate EXCEPT ![f] = "scheduled"],
           effective' = [effective EXCEPT ![f] = EarliestEffectiveFrom(f)],
           EnqueueNotices(f), waived' = waived, ChangeOnly
    PROVE  FeesInv'
<1>1. FeesTypes /\ NoticeInv(f) /\ waived[f] = {}
  BY DEF FeesInv, NoticeInv
<1>2. /\ effective' \in [Changes -> Nat] /\ announced' \in [Changes -> Nat]
      /\ notice' \in [Changes -> [Holders -> NoticeStates]]
      /\ \A g \in Changes \ {f} : UNCHANGED <<effective[g], notice[g], announced[g]>>
      /\ \A h \in Holders : notice'[f][h] \in {"none", "queued"}
      /\ (\E h \in Holders : notice'[f][h] # "none") => effective'[f] >= announced'[f] + MinNotice
  BY <1>1, EnqueueFacts
<1>3. /\ fstate \in [Changes -> FeePolicyChangeStates \union {"none"}]
      /\ waived \in [Changes -> SUBSET Holders]
  BY <1>1 DEF FeesTypes, FeesTypeOK
<1>4. fstate' \in [Changes -> FeePolicyChangeStates \union {"none"}] /\ fstate'[f] = "scheduled"
  BY <1>3 DEF FeePolicyChangeStates
<1>5. FeesTypes'
  BY <1>1, <1>2, <1>3, <1>4, ChangeTypes
<1>6. NoticeInv(f)'
  BY <1>1, <1>2, <1>4 DEF NoticeInv
<1>7. ASSUME NEW g \in Changes \ {f} PROVE NoticeInv(g)'
  <2>1. NoticeInv(g) /\ NoticeUntouched(g)
    BY <1>2, <1>3 DEF FeesInv, NoticeUntouched
  <2> QED BY <2>1, NoticeFrame
<1> QED BY <1>5, <1>6, <1>7, ChangeOnlyInv DEF FeesInv

LEMMA ScheduleInv ==
    ASSUME FeesInv, NEW f \in Changes, Schedule(f) PROVE FeesInv'
BY ScheduledInv DEF Schedule, MayRequest, ChangeOnly

LEMMA ScheduleApprovedInv ==
    ASSUME FeesInv, NEW f \in Changes, ScheduleApproved(f) PROVE FeesInv'
<1>1. CASE fstate[f] = "awaiting_consilium"
  BY <1>1, ScheduledInv DEF ScheduleApproved, ChangeOnly
<1>2. CASE fstate[f] # "awaiting_consilium"
  <2>1. UNCHANGED <<fstate, effective, notice, announced, waived>> /\ ChangeOnly
    BY <1>2 DEF ScheduleApproved, ChangeOnly
  <2>2. FeesTypes' /\ \A g \in Changes : NoticeInv(g)'
    BY <2>1 DEF FeesInv, FeesTypes, FeesTypeOK, NoticeInv, ChangeOnly, positionVars, historyVars
  <2> QED BY <2>1, <2>2, ChangeOnlyInv
<1> QED BY <1>1, <1>2

\* A step of one change that leaves its date alone.
LEMMA UndatedInv ==
    ASSUME FeesInv, NEW f \in Changes, ChangeOnly, UNCHANGED <<effective, announced>>,
           fstate' \in [Changes -> FeePolicyChangeStates \union {"none"}],
           notice' \in [Changes -> [Holders -> NoticeStates]],
           waived' \in [Changes -> SUBSET Holders],
           \A g \in Changes \ {f} : UNCHANGED <<fstate[g], notice[g], waived[g]>>,
           NoticeInv(f)'
    PROVE  FeesInv'
<1>1. FeesTypes /\ effective' \in [Changes -> Nat] /\ announced' \in [Changes -> Nat]
  BY DEF FeesInv, FeesTypes, FeesTypeOK
<1>2. FeesTypes'
  BY <1>1, ChangeTypes
<1>3. ASSUME NEW g \in Changes \ {f} PROVE NoticeInv(g)'
  <2>1. NoticeInv(g) /\ NoticeUntouched(g)
    BY DEF FeesInv, NoticeUntouched
  <2> QED BY <2>1, NoticeFrame
<1> QED BY <1>2, <1>3, ChangeOnlyInv

LEMMA ChangeTypesNow ==
    ASSUME FeesInv
    PROVE  /\ fstate \in [Changes -> FeePolicyChangeStates \union {"none"}]
           /\ notice \in [Changes -> [Holders -> NoticeStates]]
           /\ waived \in [Changes -> SUBSET Holders] /\ held \subseteq Holders
BY DEF FeesInv, FeesTypes, FeesTypeOK, NoticeStates

LEMMA AwaitInv ==
    ASSUME FeesInv, NEW f \in Changes, AwaitConsilium(f) \/ RejectChange(f) PROVE FeesInv'
<1>1. UNCHANGED <<effective, announced, notice, waived>> /\ ChangeOnly
  BY DEF AwaitConsilium, RejectChange, ChangeOnly
<1>2. /\ fstate' \in [Changes -> FeePolicyChangeStates \union {"none"}]
      /\ \A g \in Changes \ {f} : fstate'[g] = fstate[g]
      /\ \/ fstate'[f] = fstate[f]
         \/ fstate[f] \in {"none", "awaiting_consilium"} /\ fstate'[f] \in {"awaiting_consilium", "rejected"}
  BY ChangeTypesNow DEF AwaitConsilium, RejectChange, MayRequest, FeePolicyChangeStates
<1>3. NoticeInv(f)'
  BY <1>1, <1>2 DEF FeesInv, NoticeInv
<1> QED BY <1>1, <1>2, <1>3, ChangeTypesNow, UndatedInv

LEMMA CancelInv ==
    ASSUME FeesInv, NEW f \in Changes, CancelChange(f) PROVE FeesInv'
<1>1. UNCHANGED <<effective, announced, waived>> /\ ChangeOnly
  BY DEF CancelChange, ChangeOnly
<1>2. /\ fstate' \in [Changes -> FeePolicyChangeStates \union {"none"}]
      /\ \A g \in Changes \ {f} : fstate'[g] = fstate[g]
      /\ fstate'[f] = "cancelled"
  BY ChangeTypesNow DEF CancelChange, FeePolicyChangeStates
<1>3. [h \in Holders |-> IF notice[f][h] \in {"queued", "given_up"} THEN "withdrawn" ELSE notice[f][h]]
         \in [Holders -> NoticeStates]
  BY ChangeTypesNow DEF NoticeStates
<1>4. notice' = [notice EXCEPT ![f] =
                    [h \in Holders |-> IF notice[f][h] \in {"queued", "given_up"} THEN "withdrawn" ELSE notice[f][h]]]
  BY DEF CancelChange, WithdrawUndelivered
<1>5. /\ notice' \in [Changes -> [Holders -> NoticeStates]]
      /\ \A g \in Changes \ {f} : notice'[g] = notice[g]
      /\ notice'[f] = [h \in Holders |-> IF notice[f][h] \in {"queued", "given_up"} THEN "withdrawn" ELSE notice[f][h]]
  BY <1>3, <1>4, ChangeTypesNow
<1>6. \A h \in Holders : notice'[f][h] # "queued"
  BY <1>5
<1>7. NoticeInv(f)'
  BY <1>2, <1>6 DEF NoticeInv
<1> QED BY <1>1, <1>2, <1>5, <1>7, ChangeTypesNow, UndatedInv

LEMMA AcknowledgeInv ==
    ASSUME FeesInv, NEW f \in Changes, Acknowledge(f) PROVE FeesInv'
<1>1. UNCHANGED <<effective, announced, fstate, notice>> /\ ChangeOnly /\ fstate[f] = "scheduled"
  BY DEF Acknowledge, ChangeOnly
<1>2. GivenUp(f) \subseteq Holders /\ \A h \in GivenUp(f) : notice[f][h] = "given_up"
  BY ChangeTypesNow DEF GivenUp, UndeliveredNotices
<1>3. /\ waived' \in [Changes -> SUBSET Holders]
      /\ \A g \in Changes \ {f} : waived'[g] = waived[g]
      /\ waived'[f] = waived[f] \union GivenUp(f)
  BY <1>2, ChangeTypesNow DEF Acknowledge
<1>4. NoticeInv(f)'
  BY <1>1, <1>2, <1>3 DEF FeesInv, NoticeInv
<1> QED BY <1>1, <1>3, <1>4, ChangeTypesNow, UndatedInv

LEMMA DeliverInv ==
    ASSUME FeesInv, NEW f \in Changes, NEW i \in Holders, NEW outcome \in {"sent", "given_up"},
           DeliverNotice(f, i, outcome)
    PROVE  FeesInv'
<1>1. UNCHANGED <<effective, announced, fstate, waived>> /\ ChangeOnly /\ notice[f][i] = "queued"
  BY DEF DeliverNotice, ChangeOnly
<1>2. /\ notice' \in [Changes -> [Holders -> NoticeStates]]
      /\ \A g \in Changes \ {f} : notice'[g] = notice[g]
      /\ notice'[f] = [notice[f] EXCEPT ![i] = outcome]
  <2>1. [notice[f] EXCEPT ![i] = outcome] \in [Holders -> NoticeStates]
    BY ChangeTypesNow DEF NoticeStates
  <2>2. notice' = [notice EXCEPT ![f] = [notice[f] EXCEPT ![i] = outcome]]
    BY ChangeTypesNow, Zenon DEF DeliverNotice
  <2> QED BY <2>1, <2>2, ChangeTypesNow
<1>3. \A h \in Holders : notice'[f][h] = IF h = i THEN outcome ELSE notice[f][h]
  BY <1>2, ChangeTypesNow
<1>4. NoticeInv(f) /\ waived[f] \subseteq Holders
  BY ChangeTypesNow DEF FeesInv
<1>5. fstate[f] \notin {"none", "awaiting_consilium", "rejected", "cancelled"}
  BY <1>1, <1>4 DEF NoticeInv
<1>6. NoticeInv(f)'
  <2>1. fstate'[f] = fstate[f] /\ effective'[f] = effective[f] /\ announced'[f] = announced[f] /\ waived'[f] = waived[f]
    BY <1>1
  <2>2. ASSUME fstate[f] = "scheduled", NEW h \in Holders PROVE notice'[f][h] # "withdrawn" /\ (h \in waived[f] => notice'[f][h] = "given_up")
    BY <1>1, <1>3, <1>4, <2>2 DEF NoticeInv
  <2>3. ASSUME fstate[f] = "scheduled" PROVE effective[f] >= announced[f] + MinNotice
    BY <1>1, <1>4, <2>3 DEF NoticeInv
  <2> QED BY <1>4, <1>5, <2>1, <2>2, <2>3 DEF NoticeInv
<1> QED BY <1>1, <1>2, <1>6, ChangeTypesNow, UndatedInv

-----------------------------------------------------------------------------
(***************************************************************************)
(* Fees: the steps of a position.                                          *)
(***************************************************************************)
LEMMA FeesTypesNow ==
    ASSUME FeesTypes
    PROVE  /\ clock \in 0..Horizon /\ Horizon \in Nat /\ price \in Prices /\ price \in Nat
           /\ terms \in [fee : Nat, hurdle : Nat] /\ terms.fee \in Nat /\ held \subseteq Holders
           /\ accruedAt \in [Holders -> 0..Horizon] /\ crystAt \in [Holders -> 0..Horizon]
           /\ debt \in [Holders -> Nat] /\ gain \in [Holders -> Nat] /\ taken \in [Holders -> Nat]
           /\ mark \in [Holders -> Prices] /\ entry \in [Holders -> Prices]
           /\ bill \in [Holders -> [Ticks -> Nat]] /\ owed \in [Holders -> [Ticks -> SUBSET Nat]]
           /\ overtaken \subseteq Holders
BY FeesConsts DEF FeesTypes, FeesTypeOK

LEMMA CarryTypes ==
    ASSUME FeesTypes, NEW h \in Holders, NEW to \in 0..Horizon
    PROVE  /\ Carry(h, to).debt \in Nat /\ Carry(h, to).bill \in [Ticks -> Nat]
           /\ Carry(h, to).debt = debt[h] + ManagementDue(terms.fee, accruedAt[h], to)
           /\ Carry(h, to).bill = [t \in Ticks |-> IF t \in Window(accruedAt[h], to)
                                                   THEN bill[h][t] + terms.fee ELSE bill[h][t]]
<1>1. ManagementDue(terms.fee, accruedAt[h], to) \in Nat
  BY FeesTypesNow, DueNat
<1>2. bill[h] \in [Ticks -> Nat] /\ debt[h] \in Nat /\ terms.fee \in Nat
  BY FeesTypesNow
<1>3. Carry(h, to).debt = debt[h] + ManagementDue(terms.fee, accruedAt[h], to)
  BY DEF Carry
<1>4. Carry(h, to).bill = [t \in Ticks |-> IF t \in Window(accruedAt[h], to)
                                           THEN bill[h][t] + terms.fee ELSE bill[h][t]]
  BY DEF Carry
<1>5. Carry(h, to).debt \in Nat
  BY <1>1, <1>2, <1>3
<1>6. Carry(h, to).bill \in [Ticks -> Nat]
  BY <1>2, <1>4
<1> QED BY <1>3, <1>4, <1>5, <1>6

\* Settling a holding position up to a tick bills what was in force, and the
\* account still adds up.
LEMMA CarryFacts ==
    ASSUME FeesTypes, NEW h \in Holders, h \in held, AccountInv(h),
           NEW to \in 0..Horizon, accruedAt[h] <= to, to <= clock
    PROVE  /\ taken[h] + Carry(h, to).debt = Billed(Carry(h, to).bill) + gain[h]
           /\ \A t \in Ticks : IF t < to /\ t < clock /\ owed[h][t] # {}
                               THEN Carry(h, to).bill[t] \in owed[h][t] ELSE Carry(h, to).bill[t] = 0
<1> DEFINE b == Carry(h, to).bill
           a == accruedAt[h]
<1>0. /\ a \in 0..Horizon /\ bill[h] \in [Ticks -> Nat] /\ terms.fee \in Nat /\ clock \in 0..Horizon
      /\ taken[h] \in Nat /\ debt[h] \in Nat /\ gain[h] \in Nat /\ Horizon \in Nat
  BY FeesTypesNow
<1>1. /\ b \in [Ticks -> Nat] /\ Carry(h, to).debt = debt[h] + ManagementDue(terms.fee, a, to)
      /\ b = [t \in Ticks |-> IF t \in Window(a, to) THEN bill[h][t] + terms.fee ELSE bill[h][t]]
  BY CarryTypes
<1> HIDE DEF b, a
<1>2. Billed(b) = Billed(bill[h]) + ManagementDue(terms.fee, a, to)
  <2> DEFINE old == bill[h]
             rate == terms.fee
  <2>1. /\ \A t \in Ticks : b[t] = IF t \in Window(a, to) THEN old[t] + rate ELSE old[t]
        /\ old \in [Ticks -> Nat] /\ b \in [Ticks -> Nat] /\ rate \in Nat /\ a \in 0..Horizon
    BY <1>0, <1>1
  <2> HIDE DEF old, rate
  <2>2. Billed(b) = Billed(old) + ManagementDue(rate, a, to)
    BY ONLY <2>1, BilledWindow, to \in 0..Horizon
  <2> QED BY <2>2 DEF old, rate
<1>3. ManagementDue(terms.fee, a, to) \in Nat /\ Billed(bill[h]) \in Int
  <2>1. Billed(bill[h]) \in Int
    BY <1>0, TicksFinite, SumInt, BilledIs
  <2> QED BY <1>0, <2>1, DueNat
<1>4. taken[h] + Carry(h, to).debt = Billed(b) + gain[h]
  <2>1. taken[h] + debt[h] = Billed(bill[h]) + gain[h]
    BY DEF AccountInv
  <2> QED BY <1>0, <1>1, <1>2, <1>3, <2>1
<1>5. ASSUME NEW t \in Ticks
      PROVE  IF t < to /\ t < clock /\ owed[h][t] # {} THEN b[t] \in owed[h][t] ELSE b[t] = 0
  <2>1. t \in Int /\ a = accruedAt[h] /\ a \in Int /\ a <= to
    BY <1>0 DEF Ticks, a
  <2>2. IF t < a /\ t < clock /\ owed[h][t] # {} THEN bill[h][t] \in owed[h][t] ELSE bill[h][t] = 0
    BY <2>1 DEF AccountInv, BilledRight
  <2>3. CASE t \in Window(a, to)
    <3>1. a <= t /\ t < to /\ t < clock
      BY <1>0, <2>1, <2>3 DEF Window
    <3>2. terms.fee \in owed[h][t]
      BY <2>1, <3>1 DEF AccountInv, WindowInv, InForce, Window
    <3>3. b[t] = terms.fee
      BY <1>0, <1>1, <2>1, <2>2, <2>3, <3>1
    <3> QED BY <3>1, <3>2, <3>3
  <2>4. CASE t \notin Window(a, to)
    <3>1. b[t] = bill[h][t]
      BY <1>1, <2>4
    <3>2. t < a <=> t < to
      BY <1>0, <2>1, <2>4 DEF Window
    <3> QED BY <2>2, <3>1, <3>2
  <2> QED BY <2>3, <2>4
<1> QED BY <1>4, <1>5 DEF b

\* A position that is stamped with the tick it is settled up to.
LEMMA SettledInv ==
    ASSUME FeesTypes, NEW h \in Holders, h \in held, AccountInv(h),
           accruedAt[h] <= clock, accruedAt'[h] = clock,
           debt'[h] = Carry(h, clock).debt, bill'[h] = Carry(h, clock).bill,
           UNCHANGED <<clock, terms, owed[h], taken[h], gain[h], entry[h]>>,
           mark'[h] \in Nat, mark[h] <= mark'[h]
    PROVE  AccountInv(h)'
<1>0. /\ clock \in 0..Horizon /\ mark[h] \in Nat /\ entry[h] \in Nat /\ gain[h] \in Nat /\ Horizon \in Nat
      /\ accruedAt[h] \in 0..Horizon
  BY FeesTypesNow, FeesConsts
<1>1. /\ taken[h] + Carry(h, clock).debt = Billed(Carry(h, clock).bill) + gain[h]
      /\ \A t \in Ticks : IF t < clock /\ t < clock /\ owed[h][t] # {}
                          THEN Carry(h, clock).bill[t] \in owed[h][t] ELSE Carry(h, clock).bill[t] = 0
  <2> HIDE DEF AccountInv
  <2> QED BY <1>0, CarryFacts
<1>2. BilledRight(h)'
  BY <1>1 DEF BilledRight
<1>3. \A t \in Ticks : t \notin Window(clock, clock)
  BY <1>0 DEF Window, Ticks
<1>4. WindowInv(h)'
  BY <1>3 DEF AccountInv, WindowInv, InForce, Window
<1>5. gain'[h] <= mark'[h] - entry'[h]
  BY <1>0 DEF AccountInv
<1> QED BY <1>1, <1>2, <1>4, <1>5 DEF AccountInv

\* Steps of one position leave the changes, the fees in force and the rest alone.
PositionOnly(h) ==
    /\ UNCHANGED <<clock, price, changeVars, owed, entry>>
    /\ \A i \in Holders \ {h} :
           /\ UNCHANGED <<accruedAt[i], bill[i], taken[i], debt[i], gain[i], mark[i]>>
           /\ i \in held <=> i \in held'
           /\ i \in overtaken <=> i \in overtaken'

LEMMA PositionOnlyInv ==
    ASSUME FeesInv, FeesTypes', NEW h \in Holders, PositionOnly(h), overtaken \subseteq overtaken',
           accruedAt'[h] <= clock,
           h \notin overtaken' => /\ AccountInv(h)' /\ accruedAt[h] <= accruedAt'[h]
                                  /\ h \in held => h \in held' \/ accruedAt'[h] >= clock,
           \A s \in Sweepers : sweep'[s] = sweep[s] \/ SweepInv(s)'
    PROVE  FeesInv'
<1>0. FeesTypes /\ clock' = clock /\ clock \in Int
  BY FeesTypesNow DEF FeesInv, PositionOnly
<1>1. \A i \in Holders : accruedAt'[i] <= clock'
  BY <1>0 DEF FeesInv, PositionOnly
<1>2. \A f \in Changes : NoticeInv(f)'
  BY DEF FeesInv, PositionOnly, changeVars, NoticeInv
<1>3. ASSUME NEW i \in Holders \ overtaken' PROVE AccountInv(i)'
  <2>1. CASE i = h
    BY <1>3, <2>1
  <2>2. CASE i # h
    <3>1. AccountInv(i) /\ UNCHANGED <<clock, terms, accruedAt[i], owed[i], bill[i], taken[i], debt[i], gain[i], mark[i], entry[i]>>
      BY <1>3, <2>2 DEF FeesInv, PositionOnly, changeVars
    <3>2. i \in held <=> i \in held'
      BY <2>2 DEF PositionOnly
    <3> QED BY <3>1, <3>2, AccountFrame
  <2> QED BY <2>1, <2>2
<1>4. Moves
  <2>1. accruedAt \in [Holders -> 0..Horizon] /\ Horizon \in Nat /\ clock \in Int
    BY <1>0, FeesTypesNow
  <2>2. ASSUME NEW i \in Holders \ overtaken'
        PROVE  /\ accruedAt[i] <= accruedAt'[i]
               /\ i \in held => i \in held' \/ accruedAt'[i] >= clock
    BY <2>1, <2>2 DEF PositionOnly
  <2>3. owed' = owed /\ clock <= clock'
    BY <1>0 DEF PositionOnly
  <2> QED BY <2>2, <2>3 DEF Moves
<1>5. ASSUME NEW s \in Sweepers PROVE SweepInv(s)'
  BY <1>0, <1>4, SweepFrame DEF FeesInv
<1> QED BY <1>1, <1>2, <1>3, <1>5 DEF FeesInv

\* The types of the variables a position's step writes.
LEMMA PositionTypes ==
    ASSUME FeesTypes, UNCHANGED <<clock, price, sweep, changeVars, owed, entry, overtaken>>,
           held' \subseteq Holders, accruedAt' \in [Holders -> 0..Horizon],
           crystAt' \in [Holders -> 0..Horizon], debt' \in [Holders -> Nat], gain' \in [Holders -> Nat],
           mark' \in [Holders -> Prices], bill' \in [Holders -> [Ticks -> Nat]],
           taken' \in [Holders -> Nat]
    PROVE  FeesTypes'
BY DEF FeesTypes, FeesTypeOK, changeVars

LEMMA ExitInv ==
    ASSUME FeesInv, NEW h \in Holders, Exit(h) PROVE FeesInv'
<1>0. FeesTypes /\ h \in held /\ accruedAt[h] <= clock
  BY DEF FeesInv, Exit
<1>1. /\ clock \in 0..Horizon /\ Horizon \in Nat
      /\ accruedAt \in [Holders -> 0..Horizon] /\ debt \in [Holders -> Nat]
      /\ bill \in [Holders -> [Ticks -> Nat]] /\ held \subseteq Holders
      /\ mark[h] \in Nat
  BY <1>0, FeesTypesNow, FeesConsts
<1>2. Carry(h, clock).debt \in Nat /\ Carry(h, clock).bill \in [Ticks -> Nat]
  BY <1>0, <1>1, CarryTypes
<1>3. /\ UNCHANGED <<clock, price, sweep, changeVars, owed, entry, overtaken, gain, taken, mark, crystAt>>
      /\ held' = held \ {h} /\ accruedAt' = [accruedAt EXCEPT ![h] = clock]
      /\ debt' = [debt EXCEPT ![h] = Carry(h, clock).debt]
      /\ bill' = [bill EXCEPT ![h] = Carry(h, clock).bill]
  BY DEF Exit
<1>4. FeesTypes'
  <2>1. /\ accruedAt' \in [Holders -> 0..Horizon] /\ debt' \in [Holders -> Nat]
        /\ bill' \in [Holders -> [Ticks -> Nat]] /\ held' \subseteq Holders
    BY <1>1, <1>2, <1>3
  <2>2. crystAt' \in [Holders -> 0..Horizon] /\ gain' \in [Holders -> Nat] /\ taken' \in [Holders -> Nat] /\ mark' \in [Holders -> Prices]
    BY <1>0, <1>3, FeesTypesNow
  <2> QED BY <1>0, <1>3, <2>1, <2>2, PositionTypes
<1>5. accruedAt'[h] = clock /\ debt'[h] = Carry(h, clock).debt /\ bill'[h] = Carry(h, clock).bill
  BY <1>1, <1>3
<1>6. PositionOnly(h)
  <2>1. \A i \in Holders \ {h} : UNCHANGED <<accruedAt[i], bill[i], taken[i], debt[i], gain[i], mark[i]>>
    BY <1>1, <1>3
  <2> QED BY <1>3, <2>1 DEF PositionOnly
<1>7. ASSUME h \notin overtaken' PROVE AccountInv(h)'
  <2>1. AccountInv(h) /\ UNCHANGED <<clock, terms, owed[h], taken[h], gain[h], entry[h]>> /\ mark'[h] = mark[h]
    BY <1>3, <1>7 DEF FeesInv, changeVars
  <2> QED BY <1>0, <1>1, <1>5, <2>1, SettledInv
<1>8. accruedAt'[h] <= clock /\ accruedAt[h] <= accruedAt'[h] /\ accruedAt'[h] >= clock
  BY <1>0, <1>1, <1>5
<1> QED BY <1>3, <1>4, <1>6, <1>7, <1>8, PositionOnlyInv

\* A dormant position that starts anew: nothing was in force while it was away.
LEMMA StartedInv ==
    ASSUME FeesTypes, NEW h \in Holders, h \notin held, AccountInv(h),
           accruedAt[h] <= clock, accruedAt'[h] = clock,
           UNCHANGED <<clock, terms, owed[h], bill[h], taken[h], debt[h], gain[h], entry[h]>>,
           mark'[h] \in Nat, mark[h] <= mark'[h]
    PROVE  AccountInv(h)'
<1>0. /\ clock \in 0..Horizon /\ mark[h] \in Nat /\ entry[h] \in Nat /\ gain[h] \in Nat /\ Horizon \in Nat
      /\ accruedAt[h] \in 0..Horizon
  BY FeesTypesNow, FeesConsts
<1>1. \A t \in Ticks : t \notin Window(clock, clock)
  BY <1>0 DEF Window, Ticks
<1>2. WindowInv(h)'
  BY <1>1 DEF AccountInv, WindowInv, InForce, Window
<1>3. ASSUME NEW t \in Ticks
      PROVE  IF t < clock /\ t < clock /\ owed[h][t] # {} THEN bill[h][t] \in owed[h][t] ELSE bill[h][t] = 0
  <2>1. IF t < accruedAt[h] /\ t < clock /\ owed[h][t] # {} THEN bill[h][t] \in owed[h][t] ELSE bill[h][t] = 0
    BY DEF AccountInv, BilledRight
  <2>2. t \in Int /\ (accruedAt[h] <= t /\ t < clock => owed[h][t] = {})
    BY <1>0 DEF AccountInv, WindowInv, Window, Ticks
  <2> QED BY <1>0, <2>1, <2>2
<1>4. BilledRight(h)'
  BY <1>3 DEF BilledRight
<1>5. gain'[h] <= mark'[h] - entry'[h]
  BY <1>0 DEF AccountInv
<1> QED BY <1>2, <1>4, <1>5 DEF AccountInv

LEMMA TopUpInv ==
    ASSUME FeesInv, NEW h \in Holders, TopUp(h) PROVE FeesInv'
<1>0. FeesTypes /\ accruedAt[h] <= clock
  BY DEF FeesInv
<1>1. /\ clock \in 0..Horizon /\ Horizon \in Nat /\ price \in Prices /\ Prices \subseteq Nat
      /\ accruedAt \in [Holders -> 0..Horizon] /\ crystAt \in [Holders -> 0..Horizon] /\ debt \in [Holders -> Nat]
      /\ bill \in [Holders -> [Ticks -> Nat]] /\ held \subseteq Holders
      /\ mark \in [Holders -> Prices]
  BY <1>0, FeesTypesNow, FeesConsts
<1>2. Carry(h, clock).debt \in Nat /\ Carry(h, clock).bill \in [Ticks -> Nat]
  BY <1>0, <1>1, CarryTypes
<1>3. /\ UNCHANGED <<clock, price, sweep, changeVars, owed, entry, overtaken, gain, taken>>
      /\ held' = held \union {h} /\ accruedAt' = [accruedAt EXCEPT ![h] = clock]
      /\ mark' = [mark EXCEPT ![h] = IF price > mark[h] THEN price ELSE mark[h]]
  BY DEF TopUp
<1>4. IF h \in held
      THEN /\ debt' = [debt EXCEPT ![h] = Carry(h, clock).debt]
           /\ bill' = [bill EXCEPT ![h] = Carry(h, clock).bill]
           /\ UNCHANGED crystAt
      ELSE crystAt' = [crystAt EXCEPT ![h] = clock] /\ UNCHANGED <<debt, bill>>
  BY DEF TopUp
<1>5. FeesTypes'
  <2>1. /\ accruedAt' \in [Holders -> 0..Horizon] /\ held' \subseteq Holders /\ mark' \in [Holders -> Prices]
    BY <1>1, <1>3
  <2>2. /\ crystAt' \in [Holders -> 0..Horizon] /\ debt' \in [Holders -> Nat] /\ bill' \in [Holders -> [Ticks -> Nat]]
    BY <1>1, <1>2, <1>4
  <2>3. gain' \in [Holders -> Nat] /\ taken' \in [Holders -> Nat]
    BY <1>0, <1>3, FeesTypesNow
  <2> QED BY <1>0, <1>3, <2>1, <2>2, <2>3, PositionTypes
<1>6. accruedAt'[h] = clock /\ mark'[h] \in Nat /\ mark[h] <= mark'[h]
  <2>1. accruedAt'[h] = clock /\ mark'[h] = IF price > mark[h] THEN price ELSE mark[h]
    BY <1>1, <1>3
  <2>2. price \in Nat /\ mark[h] \in Nat
    BY <1>1
  <2> QED BY <2>1, <2>2
<1>7. PositionOnly(h)
  <2>1. \A i \in Holders \ {h} : UNCHANGED <<accruedAt[i], taken[i], gain[i], mark[i]>>
    BY <1>1, <1>3
  <2>2. \A i \in Holders \ {h} : UNCHANGED <<bill[i], debt[i]>>
    BY <1>1, <1>4
  <2> QED BY <1>3, <2>1, <2>2 DEF PositionOnly
<1>8. ASSUME h \notin overtaken' PROVE AccountInv(h)'
  <2>1. AccountInv(h) /\ UNCHANGED <<clock, terms, owed[h], taken[h], gain[h], entry[h]>>
    BY <1>3, <1>8 DEF FeesInv, changeVars
  <2>2. CASE h \in held
    <3>1. debt'[h] = Carry(h, clock).debt /\ bill'[h] = Carry(h, clock).bill
      BY <1>1, <1>4, <2>2
    <3> QED BY <1>0, <1>6, <2>1, <2>2, <3>1, SettledInv
  <2>3. CASE h \notin held
    <3>1. UNCHANGED <<bill[h], debt[h]>>
      BY <1>4, <2>3
    <3> QED BY <1>0, <1>6, <2>1, <2>3, <3>1, StartedInv
  <2> QED BY <2>2, <2>3
<1>9. accruedAt'[h] <= clock /\ accruedAt[h] <= accruedAt'[h] /\ h \in held'
  BY <1>0, <1>1, <1>3, <1>6
<1> QED BY <1>3, <1>5, <1>7, <1>8, <1>9, PositionOnlyInv

-----------------------------------------------------------------------------
(***************************************************************************)
(* Fees: the sweeper's reads, and time.                                    *)
(***************************************************************************)
LEMMA SweepOnlyInv ==
    ASSUME FeesInv, NEW s \in Sweepers, NEW x \in SweepRecs,
           UNCHANGED <<clock, price, changeVars, positionVars, historyVars>>,
           sweep' = [sweep EXCEPT ![s] = x],
           x.at = "charge" => x.snap \in Snaps,
           SweepInv(s)'
    PROVE  FeesInv'
<1> USE DEF changeVars, positionVars, historyVars
<1>0. FeesTypes /\ sweep \in [Sweepers -> SweepRecs]
  BY DEF FeesInv, FeesTypes
<1>1. /\ sweep' \in [Sweepers -> SweepRecs] /\ sweep'[s] = x
      /\ \A r \in Sweepers \ {s} : sweep'[r] = sweep[r]
  BY <1>0
<1>2. FeesTypes'
  <2>1. FeesTypeOK'
    <3>1. \A r \in Sweepers : sweep'[r].at \in {"idle", "next", "position", "charge"} /\ sweep'[r].due \subseteq Holders
      BY <1>1 DEF SweepRecs
    <3> QED BY <1>0, <3>1 DEF FeesTypes, FeesTypeOK
  <2>2. \A r \in Sweepers : sweep'[r].at = "charge" => sweep'[r].snap \in Snaps
    BY <1>0, <1>1 DEF FeesTypes
  <2> QED BY <1>0, <1>1, <2>1, <2>2 DEF FeesTypes
<1>3. ASSUME NEW h \in Holders \ overtaken' PROVE AccountInv(h)'
  BY <1>3, AccountFrame DEF FeesInv
<1>4. \A f \in Changes : NoticeInv(f)'
  BY DEF FeesInv, NoticeInv
<1>5. ASSUME NEW r \in Sweepers \ {s} PROVE SweepInv(r)'
  BY <1>1 DEF FeesInv, SweepInv, SeenBy, InForce
<1> QED BY <1>2, <1>3, <1>4, <1>5 DEF FeesInv

LEMMA SweepStartsInv ==
    ASSUME FeesInv, NEW s \in Sweepers, SweepStarts(s) PROVE FeesInv'
<1> DEFINE x == [IdleSweep EXCEPT !.at = "next", !.now = clock, !.due = DuePositions]
<1>0. FeesTypes /\ clock \in 0..Horizon /\ Horizon \in Nat /\ held \subseteq Holders /\ sweep \in [Sweepers -> SweepRecs]
  BY FeesTypesNow DEF FeesInv, FeesTypes
<1>1. x.at = "next" /\ x.now = clock /\ x.due = DuePositions /\ x \in SweepRecs /\ DuePositions \subseteq held
  BY <1>0 DEF IdleSweep, SweepRecs, DuePositions
<1> HIDE DEF x
<1>2. sweep' = [sweep EXCEPT ![s] = x] /\ UNCHANGED <<clock, price, changeVars, positionVars, historyVars>>
  BY DEF SweepStarts, x
<1>3. sweep'[s] = x /\ held' = held /\ clock' = clock
  BY <1>0, <1>2 DEF positionVars
<1>4. SweepInv(s)'
  BY <1>0, <1>1, <1>3 DEF SweepInv, SeenBy
<1> QED BY <1>1, <1>2, <1>4, SweepOnlyInv

LEMMA ReadPolicyInv ==
    ASSUME FeesInv, NEW s \in Sweepers, ReadPolicy(s) PROVE FeesInv'
<1>0. /\ FeesTypes /\ clock \in 0..Horizon /\ Horizon \in Nat /\ sweep \in [Sweepers -> SweepRecs]
      /\ terms.fee \in Nat /\ accruedAt \in [Holders -> 0..Horizon]
  BY FeesTypesNow DEF FeesInv, FeesTypes
<1>1. UNCHANGED <<clock, price, changeVars, positionVars, historyVars>> /\ sweep[s].at = "next"
  BY DEF ReadPolicy
<1>2. SweepInv(s) /\ sweep[s] \in SweepRecs
  BY <1>0 DEF FeesInv
<1>3. CASE sweep[s].due = {}
  <2>1. sweep' = [sweep EXCEPT ![s] = IdleSweep]
    BY <1>3 DEF ReadPolicy
  <2>2. IdleSweep \in SweepRecs /\ IdleSweep.at = "idle" /\ IdleSweep.due = {} /\ IdleSweep.now = 0
    BY <1>0 DEF IdleSweep, SweepRecs
  <2>3. SweepInv(s)'
    <3>1. sweep'[s] = IdleSweep /\ clock' = clock
      BY <1>0, <1>1, <2>1
    <3> QED BY <1>0, <2>2, <3>1 DEF SweepInv, SeenBy
  <2> QED BY <1>1, <2>1, <2>2, <2>3, SweepOnlyInv
<1>4. CASE sweep[s].due # {}
  <2> DEFINE x == [sweep[s] EXCEPT !.at = "position", !.fee = terms.fee]
  <2>1. /\ x \in SweepRecs /\ x.at = "position" /\ x.fee = terms.fee
        /\ x.now = sweep[s].now /\ x.due = sweep[s].due
    BY <1>0, <1>2 DEF SweepRecs
  <2>2. sweep' = [sweep EXCEPT ![s] = x]
    BY <1>4, Zenon DEF ReadPolicy
  <2> HIDE DEF x
  <2>3. /\ sweep'[s] = x /\ held' = held /\ clock' = clock /\ accruedAt' = accruedAt /\ overtaken' = overtaken /\ owed' = owed
        /\ x.now \in 0..Horizon /\ x.due \subseteq Holders
    BY <1>0, <1>1, <1>2, <2>1, <2>2 DEF positionVars, historyVars, SweepRecs
  <2>4. x.now <= clock /\ \A h \in x.due \ overtaken : h \in held \/ accruedAt[h] >= x.now
    BY <1>1, <1>2, <2>1 DEF SweepInv, SeenBy
  <2>5. ASSUME NEW h \in x.due \ overtaken, NEW t \in Window(accruedAt[h], x.now) PROVE terms.fee \in owed[h][t]
    <3>1. h \in Holders /\ t \in Ticks /\ accruedAt[h] <= t /\ t < x.now /\ t < clock /\ t \in Int
      BY <1>0, <2>3, <2>4 DEF Window, Ticks
    <3>2. h \in held
      BY <1>0, <2>3, <2>4, <3>1
    <3>3. AccountInv(h) /\ t \in Window(accruedAt[h], clock)
      BY <3>1 DEF FeesInv, Window
    <3> QED BY <3>2, <3>3 DEF AccountInv, WindowInv, InForce
  <2>6. SweepInv(s)'
    BY <2>1, <2>3, <2>4, <2>5 DEF SweepInv, SeenBy, InForce
  <2> QED BY <1>1, <2>1, <2>2, <2>6, SweepOnlyInv
<1> QED BY <1>3, <1>4

LEMMA ReadPositionInv ==
    ASSUME FeesInv, NEW s \in Sweepers, ReadPosition(s) PROVE FeesInv'
<1>0. /\ FeesTypes /\ clock \in 0..Horizon /\ Horizon \in Nat /\ sweep \in [Sweepers -> SweepRecs]
      /\ accruedAt \in [Holders -> 0..Horizon] /\ crystAt \in [Holders -> 0..Horizon]
      /\ debt \in [Holders -> Nat] /\ mark \in [Holders -> Prices]
  BY FeesTypesNow DEF FeesInv, FeesTypes
<1>1. PICK h \in sweep[s].due :
        /\ sweep[s].at = "position"
        /\ sweep' = [sweep EXCEPT ![s].at = "charge", ![s].snap = SnapshotOf(h), ![s].due = @ \ {h}]
        /\ UNCHANGED <<clock, price, changeVars, positionVars, historyVars>>
  BY DEF ReadPosition
<1>2. SweepInv(s) /\ sweep[s] \in SweepRecs /\ h \in Holders
  BY <1>0 DEF FeesInv, SweepRecs
<1>3. SnapshotOf(h) \in Snaps /\ SnapshotOf(h).h = h
  BY <1>0, <1>2 DEF SnapshotOf, Snaps
<1> DEFINE x == [sweep[s] EXCEPT !.at = "charge", !.snap = SnapshotOf(h), !.due = sweep[s].due \ {h}]
<1>4. /\ x \in SweepRecs /\ x.at = "charge" /\ x.snap = SnapshotOf(h) /\ x.fee = sweep[s].fee
      /\ x.now = sweep[s].now /\ x.due = sweep[s].due \ {h}
  BY <1>2, <1>3 DEF SweepRecs
<1>5. sweep' = [sweep EXCEPT ![s] = x]
  BY <1>1, Zenon
<1> HIDE DEF x
<1>6. /\ sweep'[s] = x /\ held' = held /\ clock' = clock /\ accruedAt' = accruedAt /\ overtaken' = overtaken /\ owed' = owed
  BY <1>0, <1>1, <1>5 DEF positionVars, historyVars
<1>7. x.due \cup {x.snap.h} = sweep[s].due /\ SeenBy(s) = sweep[s].due
  BY <1>1, <1>3, <1>4 DEF SeenBy
<1>8. SweepInv(s)'
  BY <1>1, <1>2, <1>4, <1>6, <1>7 DEF SweepInv, SeenBy, InForce
<1> QED BY <1>1, <1>3, <1>4, <1>5, <1>8, SweepOnlyInv

LEMMA TickInv ==
    ASSUME FeesInv, Tick PROVE FeesInv'
<1>0. /\ FeesTypes /\ clock \in 0..Horizon /\ Horizon \in Nat
      /\ owed \in [Holders -> [Ticks -> SUBSET Nat]] /\ terms.fee \in Nat
      /\ accruedAt \in [Holders -> 0..Horizon]
  BY FeesTypesNow DEF FeesInv
<1>1. /\ clock < Horizon /\ clock' = clock + 1
      /\ owed' = [h \in Holders |-> IF h \in held THEN [owed[h] EXCEPT ![clock] = {terms.fee}] ELSE owed[h]]
      /\ UNCHANGED <<price, sweep, changeVars, positionVars, bill, overtaken, gain, entry, taken>>
  BY DEF Tick
<1>2. clock \in Ticks /\ clock' \in 0..Horizon
  BY <1>0, <1>1 DEF Ticks
<1>3. ASSUME NEW h \in Holders
      PROVE  /\ owed'[h] \in [Ticks -> SUBSET Nat]
             /\ \A t \in Ticks : owed'[h][t] = IF h \in held /\ t = clock THEN {terms.fee} ELSE owed[h][t]
  <2>1. owed'[h] = IF h \in held THEN [owed[h] EXCEPT ![clock] = {terms.fee}] ELSE owed[h]
    BY <1>1
  <2> QED BY <1>0, <1>2, <2>1
<1>4. owed' \in [Holders -> [Ticks -> SUBSET Nat]]
  BY <1>1, <1>3
<1>5. FeesTypes'
  BY <1>0, <1>1, <1>2, <1>4 DEF FeesTypes, FeesTypeOK, changeVars, positionVars
<1>6. \A h \in Holders : accruedAt'[h] <= clock'
  BY <1>0, <1>1 DEF FeesInv, positionVars
<1>7. \A f \in Changes : NoticeInv(f)'
  BY <1>1 DEF FeesInv, NoticeInv, changeVars
<1>8. ASSUME NEW h \in Holders \ overtaken' PROVE AccountInv(h)'
  <2>0. /\ AccountInv(h) /\ accruedAt[h] <= clock /\ h \in Holders /\ accruedAt[h] \in Int
        /\ UNCHANGED <<terms, held, accruedAt[h], bill[h], taken[h], debt[h], gain[h], mark[h], entry[h]>>
    <3>1. AccountInv(h) /\ accruedAt[h] <= clock /\ h \in Holders
      BY <1>1, <1>8 DEF FeesInv
    <3>2. accruedAt[h] \in Int
      BY <1>0, <3>1
    <3>3. UNCHANGED <<terms, held, accruedAt[h], bill[h], taken[h], debt[h], gain[h], mark[h], entry[h]>>
      BY <1>1 DEF changeVars, positionVars
    <3> QED BY <3>1, <3>2, <3>3
  <2>1. ASSUME NEW t \in Ticks PROVE t >= clock' => owed'[h][t] = {}
    <3>1. t >= clock => owed[h][t] = {}
      BY <2>0, <2>1 DEF AccountInv, WindowInv
    <3>2. t \in Int /\ (t >= clock' => t >= clock /\ t # clock)
      BY <1>0, <1>1, <2>1 DEF Ticks
    <3> QED BY <1>3, <2>0, <2>1, <3>1, <3>2
  <2>2. ASSUME NEW t \in Window(accruedAt[h], clock')
        PROVE  IF h \in held THEN terms.fee \in owed'[h][t] ELSE owed'[h][t] = {}
    <3>1. t \in Ticks /\ accruedAt[h] <= t /\ t \in Int /\ (t = clock \/ t < clock)
      BY <1>0, <1>1 DEF Window, Ticks
    <3>2. CASE t = clock
      <4>1. owed[h][t] = {}
        BY <1>0, <2>0, <3>1, <3>2 DEF AccountInv, WindowInv
      <4> QED BY <1>3, <2>0, <3>1, <3>2, <4>1
    <3>3. CASE t < clock
      <4>1. t \in Window(accruedAt[h], clock) /\ owed'[h][t] = owed[h][t]
        BY <1>0, <1>3, <2>0, <3>1, <3>3 DEF Window
      <4> QED BY <2>0, <4>1 DEF AccountInv, WindowInv, InForce
    <3> QED BY <3>1, <3>2, <3>3
  <2>3. WindowInv(h)'
    BY <2>0, <2>1, <2>2 DEF WindowInv, InForce
  <2>4. ASSUME NEW t \in Ticks
        PROVE  IF t < accruedAt[h] /\ t < clock' /\ owed'[h][t] # {} THEN bill[h][t] \in owed'[h][t] ELSE bill[h][t] = 0
    <3>1. IF t < accruedAt[h] /\ t < clock /\ owed[h][t] # {} THEN bill[h][t] \in owed[h][t] ELSE bill[h][t] = 0
      BY <2>0 DEF AccountInv, BilledRight
    <3>2. t \in Int /\ (t < accruedAt[h] => t < clock /\ owed'[h][t] = owed[h][t])
      BY <1>0, <1>3, <2>0 DEF Ticks
    <3> QED BY <1>0, <1>1, <2>0, <3>1, <3>2
  <2>5. BilledRight(h)'
    BY <2>0, <2>4 DEF BilledRight
  <2> QED BY <2>0, <2>3, <2>5 DEF AccountInv
<1>9. Moves
  <2>1. overtaken \subseteq overtaken' /\ held' = held /\ accruedAt' = accruedAt
    BY <1>1 DEF positionVars
  <2>2. clock <= clock' /\ \A h \in Holders : accruedAt[h] <= accruedAt[h]
    BY <1>0, <1>1
  <2>3. \A h \in Holders, t \in Ticks : t < clock => owed[h][t] \subseteq owed'[h][t]
    BY <1>0, <1>3 DEF Ticks
  <2> QED BY <2>1, <2>2, <2>3 DEF Moves
<1>10. ASSUME NEW s \in Sweepers PROVE SweepInv(s)'
  <2>1. SweepInv(s) /\ sweep'[s] = sweep[s]
    BY <1>1 DEF FeesInv
  <2> QED BY <1>0, <1>5, <1>9, <2>1, SweepFrame
<1> QED BY <1>5, <1>6, <1>7, <1>8, <1>10 DEF FeesInv

LEMMA RevalueInv ==
    ASSUME FeesInv, NEW p \in Prices, Revalue(p) PROVE FeesInv'
<1>1. price' \in Prices /\ UNCHANGED <<clock, sweep, changeVars, positionVars, historyVars>>
  BY DEF Revalue
<1> USE DEF changeVars, positionVars, historyVars
<1>2. FeesTypes'
  BY <1>1 DEF FeesInv, FeesTypes, FeesTypeOK
<1>3. \A f \in Changes : NoticeInv(f)'
  BY <1>1 DEF FeesInv, NoticeInv
<1>4. \A h \in Holders \ overtaken' : AccountInv(h)'
  BY <1>1, AccountFrame DEF FeesInv
<1>5. \A s \in Sweepers : SweepInv(s)'
  BY <1>1 DEF FeesInv, SweepInv, SeenBy, InForce
<1> QED BY <1>1, <1>2, <1>3, <1>4, <1>5 DEF FeesInv

-----------------------------------------------------------------------------
(***************************************************************************)
(* Fees: a charge.                                                         *)
(***************************************************************************)
LEMMA ChargeSkippedInv ==
    ASSUME FeesInv, NEW s \in Sweepers, sweep[s].at = "charge",
           sweep' = [sweep EXCEPT ![s].at = "next", ![s].snap = <<>>, ![s].fee = 0],
           UNCHANGED <<clock, price, changeVars, positionVars, historyVars>>
    PROVE  FeesInv'
<1> DEFINE x == [sweep[s] EXCEPT !.at = "next", !.snap = <<>>, !.fee = 0]
<1>0. sweep \in [Sweepers -> SweepRecs] /\ SweepInv(s)
  BY DEF FeesInv, FeesTypes
<1>1. x \in SweepRecs /\ x.at = "next" /\ x.now = sweep[s].now /\ x.due = sweep[s].due
  BY <1>0 DEF SweepRecs
<1>2. sweep' = [sweep EXCEPT ![s] = x]
  BY Zenon
<1> HIDE DEF x
<1>3. sweep'[s] = x /\ UNCHANGED <<clock, held, accruedAt, overtaken>>
  BY <1>0, <1>2 DEF positionVars, historyVars
<1>4. SweepInv(s)'
  BY <1>0, <1>1, <1>3 DEF SweepInv, SeenBy
<1> QED BY <1>1, <1>2, <1>4, SweepOnlyInv

\* The account of a position charged for the window its snapshot still describes.
LEMMA ChargedAccount ==
    ASSUME FeesTypes, NEW h \in Holders, AccountInv(h), accruedAt[h] <= clock,
           NEW now \in 0..Horizon, now <= clock, accruedAt[h] <= now,
           h \in held \/ accruedAt[h] >= now,
           NEW rate \in Nat, InForce(h, now, rate),
           NEW rise \in Nat, rise > 0 => price > mark[h] /\ rise = price - mark[h],
           NEW due \in Nat, due = ManagementDue(rate, accruedAt[h], now) + rise + debt[h],
           NEW part \in {0, due},
           UNCHANGED <<clock, terms, held, owed[h], entry[h]>>,
           debt'[h] = due - part, taken'[h] = taken[h] + part, accruedAt'[h] = now,
           gain'[h] = gain[h] + rise, mark'[h] = IF rise > 0 THEN price ELSE mark[h],
           bill'[h] = [t \in Ticks |-> IF t \in Window(accruedAt[h], now) THEN bill[h][t] + rate ELSE bill[h][t]]
    PROVE  AccountInv(h)'
<1>a. PICK a, b, v : a = accruedAt[h] /\ b = bill[h] /\ v = bill'[h]
  OBVIOUS
<1>0. /\ a \in 0..Horizon /\ b \in [Ticks -> Nat] /\ clock \in 0..Horizon /\ Horizon \in Nat
      /\ taken[h] \in Nat /\ debt[h] \in Nat /\ gain[h] \in Nat /\ mark[h] \in Nat /\ entry[h] \in Nat
      /\ price \in Nat /\ a <= now
  BY <1>a, FeesTypesNow, FeesConsts
<1>1. \A t \in Ticks : v[t] = IF t \in Window(a, now) THEN b[t] + rate ELSE b[t]
  BY <1>a
<1>2. v \in [Ticks -> Nat]
  BY <1>0, <1>a
<1>3. Billed(v) = Billed(b) + ManagementDue(rate, a, now)
  <2>1. /\ a \in 0..Horizon /\ now \in 0..Horizon /\ rate \in Nat
        /\ b \in [Ticks -> Nat] /\ v \in [Ticks -> Nat]
        /\ \A t \in Ticks : v[t] = IF t \in Window(a, now) THEN b[t] + rate ELSE b[t]
    BY <1>0, <1>1, <1>2
  <2> QED BY ONLY <2>1, BilledWindow, SMTT(30)
<1>4. ManagementDue(rate, a, now) \in Nat /\ Billed(b) \in Int
  <2>1. Billed(b) \in Int
    BY <1>0, TicksFinite, SumInt, BilledIs
  <2> QED BY <1>0, <2>1, DueNat
<1>5. taken'[h] + debt'[h] = Billed(v) + gain'[h]
  <2>1. taken[h] + debt[h] = Billed(b) + gain[h]
    BY <1>a DEF AccountInv
  <2>2. due = ManagementDue(rate, a, now) + rise + debt[h]
    BY <1>a
  <2>3. PICK tk, db, bl, g, md, q : /\ tk = taken[h] /\ db = debt[h] /\ bl = Billed(b) /\ g = gain[h]
                                   /\ md = ManagementDue(rate, a, now) /\ q = Billed(v)
    OBVIOUS
  <2>4. taken'[h] = tk + part /\ debt'[h] = due - part /\ gain'[h] = g + rise
    BY <2>3
  <2>5. /\ tk \in Nat /\ db \in Nat /\ bl \in Int /\ g \in Nat /\ md \in Nat /\ due \in Nat /\ part \in Int /\ rise \in Nat
        /\ tk + db = bl + g /\ due = md + rise + db /\ q = bl + md
    <3>1. part \in Int
      OBVIOUS
    <3> QED BY <1>0, <1>3, <1>4, <2>1, <2>2, <2>3, <3>1
  <2>6. (tk + part) + (due - part) = q + (g + rise)
    BY ONLY <2>5
  <2> QED BY <2>3, <2>4, <2>6
<1>6. gain'[h] <= mark'[h] - entry'[h]
  <2>1. gain[h] <= mark[h] - entry[h]
    BY DEF AccountInv
  <2> QED BY <1>0, <2>1
<1>7. ASSUME NEW t \in Ticks
      PROVE  IF t < now /\ t < clock /\ owed[h][t] # {} THEN v[t] \in owed[h][t] ELSE v[t] = 0
  <2>1. t \in Int /\ a = accruedAt[h]
    BY <1>0, <1>a DEF Ticks
  <2>2. IF t < a /\ t < clock /\ owed[h][t] # {} THEN b[t] \in owed[h][t] ELSE b[t] = 0
    BY <1>a, <2>1 DEF AccountInv, BilledRight
  <2>3. CASE t \in Window(a, now)
    <3>1. a <= t /\ t < now /\ t < clock
      BY <1>0, <2>1, <2>3 DEF Window
    <3>2. rate \in owed[h][t]
      BY <2>1, <2>3 DEF InForce
    <3>3. v[t] = rate
      BY <1>0, <1>1, <2>1, <2>2, <2>3, <3>1
    <3> QED BY <3>1, <3>2, <3>3
  <2>4. CASE t \notin Window(a, now)
    <3>1. v[t] = b[t]
      BY <1>1, <2>4
    <3>2. t < a <=> t < now
      BY <1>0, <2>1, <2>4 DEF Window
    <3> QED BY <2>2, <3>1, <3>2
  <2> QED BY <2>3, <2>4
<1>8. BilledRight(h)'
  BY <1>a, <1>7 DEF BilledRight
<1>9. ASSUME NEW t \in Window(now, clock) PROVE IF h \in held THEN terms.fee \in owed[h][t] ELSE owed[h][t] = {}
  <2>1. t \in Ticks /\ t \in Window(a, clock)
    BY <1>0 DEF Window, Ticks
  <2> QED BY <1>a, <2>1 DEF AccountInv, WindowInv, InForce
<1>10. WindowInv(h)'
  BY <1>9 DEF AccountInv, WindowInv, InForce
<1> QED BY <1>a, <1>5, <1>6, <1>8, <1>10 DEF AccountInv

LEMMA ChargeInv ==
    ASSUME FeesInv, NEW s \in Sweepers, Charge(s) PROVE FeesInv'
<1>a. PICK x, h, now, rate : x = sweep[s].snap /\ h = x.h /\ now = sweep[s].now /\ rate = sweep[s].fee
  OBVIOUS
<1>b. PICK rise : rise = IF Crystallizes(x, now) THEN PerformanceDue(h, x.mark) ELSE 0
  OBVIOUS
<1>c. PICK due : due = ManagementDue(rate, x.at, now) + rise + x.debt
  OBVIOUS
<1>1. sweep[s].at = "charge" /\ sweep' = [sweep EXCEPT ![s].at = "next", ![s].snap = <<>>, ![s].fee = 0]
  BY DEF Charge
<1>2. CASE ~(rate > 0 /\ due > 0 /\ ClockStands(x))
  <2>1. UNCHANGED <<clock, price, changeVars, positionVars, historyVars>>
    BY <1>2, <1>a, <1>b, <1>c DEF Charge, positionVars, historyVars
  <2> QED BY <1>1, <2>1, ChargeSkippedInv
<1>3. CASE rate > 0 /\ due > 0 /\ ClockStands(x)
  <2>0. /\ FeesTypes /\ SweepInv(s) /\ sweep \in [Sweepers -> SweepRecs] /\ x \in Snaps
    BY <1>1, <1>a DEF FeesInv, FeesTypes
  <2>1. /\ now \in 0..Horizon /\ rate \in Nat /\ sweep[s] \in SweepRecs /\ sweep[s].due \subseteq Holders
        /\ h \in Holders /\ x.at \in 0..Horizon /\ x.cryst \in 0..Horizon /\ x.debt \in Nat /\ x.mark \in Prices
    BY <2>0, <1>a DEF SweepRecs, Snaps
  <2>2. /\ clock \in 0..Horizon /\ Horizon \in Nat /\ price \in Prices /\ price \in Nat /\ Prices \subseteq Nat
        /\ accruedAt \in [Holders -> 0..Horizon] /\ crystAt \in [Holders -> 0..Horizon]
        /\ debt \in [Holders -> Nat] /\ gain \in [Holders -> Nat] /\ taken \in [Holders -> Nat]
        /\ mark \in [Holders -> Prices] /\ bill \in [Holders -> [Ticks -> Nat]] /\ overtaken \subseteq Holders
    BY <2>0, FeesTypesNow, FeesConsts
  <2>3. PICK part \in {0, due} :
          /\ debt' = [debt EXCEPT ![h] = due - part]
          /\ taken' = [taken EXCEPT ![h] = taken[h] + part]
          /\ accruedAt' = [accruedAt EXCEPT ![h] = now]
          /\ crystAt' = [crystAt EXCEPT ![h] = IF Crystallizes(x, now) THEN now ELSE crystAt[h]]
          /\ mark' = [mark EXCEPT ![h] = MarkAfter(x, rise)]
          /\ gain' = [gain EXCEPT ![h] = gain[h] + rise]
          /\ bill' = [bill EXCEPT ![h] = [t \in Ticks |->
                        IF t \in Window(x.at, now) THEN bill[h][t] + rate ELSE bill[h][t]]]
          /\ overtaken' = IF (accruedAt[h] = x.at /\ SnapshotOf(h) # x) \/ now < x.at
                          THEN overtaken \union {h} ELSE overtaken
    BY <1>3, <1>a, <1>b, <1>c, Zenon DEF Charge
  <2>4. /\ rise \in Nat
        /\ rise > 0 => price > x.mark /\ rise = price - x.mark
    <3>1. x.mark \in Nat /\ price \in Nat
      BY <2>1, <2>2
    <3>2. LET d == PerformanceDue(h, x.mark) IN d \in Nat /\ (d > 0 => price > x.mark /\ d = price - x.mark)
      BY <3>1 DEF PerformanceDue
    <3> QED BY <3>2, <1>b
  <2>5. ManagementDue(rate, x.at, now) \in Nat
    BY <2>1, DueNat
  <2>6. due \in Nat /\ part \in Nat /\ due - part \in Nat
    BY <2>1, <2>3, <2>4, <2>5, <1>c
  <2>7. UNCHANGED <<clock, price, changeVars, held, owed, entry>>
    BY Zenon DEF Charge
  <2>8. accruedAt[h] = x.at
    BY <1>3, <1>a DEF ClockStands
  <2>9. MarkAfter(x, rise) \in Prices
    BY <2>1, <2>2 DEF MarkAfter
  <2>10. /\ debt'[h] = due - part /\ taken'[h] = taken[h] + part /\ accruedAt'[h] = now
         /\ gain'[h] = gain[h] + rise /\ mark'[h] = MarkAfter(x, rise)
         /\ bill'[h] = [t \in Ticks |-> IF t \in Window(x.at, now) THEN bill[h][t] + rate ELSE bill[h][t]]
    BY <2>1, <2>2, <2>3
  <2>11. /\ \A i \in Holders \ {h} :
              /\ UNCHANGED <<accruedAt[i], bill[i], taken[i], debt[i], gain[i], mark[i]>>
              /\ i \in overtaken <=> i \in overtaken'
         /\ overtaken \subseteq overtaken' /\ overtaken' \subseteq Holders
    BY <2>1, <2>2, <2>3
  <2>12. PositionOnly(h)
    BY <2>7, <2>11 DEF PositionOnly
  <2> DEFINE y == [sweep[s] EXCEPT !.at = "next", !.snap = <<>>, !.fee = 0]
  <2>13. y \in SweepRecs /\ y.at = "next" /\ y.now = now /\ y.due = sweep[s].due
    BY <2>1, <1>a DEF SweepRecs
  <2>14. sweep' = [sweep EXCEPT ![s] = y]
    BY <1>1, Zenon
  <2> HIDE DEF y
  <2>15. /\ sweep' \in [Sweepers -> SweepRecs] /\ sweep'[s] = y
         /\ \A r \in Sweepers \ {s} : sweep'[r] = sweep[r]
    BY <2>0, <2>13, <2>14
  <2>16. FeesTypes'
    <3>1. /\ debt' \in [Holders -> Nat] /\ taken' \in [Holders -> Nat] /\ gain' \in [Holders -> Nat]
      BY <2>1, <2>2, <2>3, <2>4, <2>6
    <3>2. /\ accruedAt' \in [Holders -> 0..Horizon] /\ crystAt' \in [Holders -> 0..Horizon]
          /\ mark' \in [Holders -> Prices]
      BY <2>1, <2>2, <2>3, <2>9
    <3>3. [t \in Ticks |-> IF t \in Window(x.at, now) THEN bill[h][t] + rate ELSE bill[h][t]] \in [Ticks -> Nat]
      BY <2>1, <2>2
    <3>4. bill' \in [Holders -> [Ticks -> Nat]]
      BY <2>2, <2>3, <3>3
    <3>5. \A r \in Sweepers : sweep'[r].at = "charge" => sweep'[r].snap \in Snaps
      BY <2>0, <2>13, <2>15 DEF FeesTypes
    <3>6. \A r \in Sweepers : sweep'[r].at \in {"idle", "next", "position", "charge"} /\ sweep'[r].due \subseteq Holders
      BY <2>15 DEF SweepRecs
    <3>7. FeesTypeOK'
      BY <2>0, <2>7, <3>1, <3>2, <3>6 DEF FeesTypes, FeesTypeOK, changeVars
    <3> QED BY <2>0, <2>7, <2>11, <2>15, <3>1, <3>4, <3>5, <3>7 DEF FeesTypes, changeVars
  <2>17. now <= clock /\ h \in SeenBy(s) /\ sweep[s].due \subseteq SeenBy(s)
    BY <1>1, <1>a, <2>0 DEF SweepInv, SeenBy
  <2>18. SweepInv(s)'
    <3>1. ASSUME NEW i \in y.due \ overtaken' PROVE i \in held' \/ accruedAt'[i] >= y.now
      <4>1. i \in Holders /\ i \in SeenBy(s) \ overtaken
        BY <2>1, <2>11, <2>13, <2>17, <3>1
      <4>2. i \in held \/ accruedAt[i] >= now
        BY <2>0, <4>1, <1>a DEF SweepInv
      <4>3. CASE i = h
        BY <2>1, <2>10, <2>13, <4>3
      <4>4. CASE i # h
        BY <2>7, <2>11, <2>13, <4>1, <4>2, <4>4
      <4> QED BY <4>3, <4>4
    <3>2. y.now <= clock'
      BY <2>7, <2>13, <2>17
    <3> QED BY <2>13, <2>15, <3>1, <3>2 DEF SweepInv, SeenBy
  <2>19. ASSUME h \notin overtaken'
         PROVE  /\ AccountInv(h)' /\ accruedAt[h] <= accruedAt'[h]
    <3>1. SnapshotOf(h) = x /\ ~(now < x.at) /\ h \notin overtaken
      BY <2>3, <2>8, <2>19
    <3>2. x.debt = debt[h] /\ x.mark = mark[h] /\ x.at <= now
      BY <2>1, <3>1 DEF SnapshotOf
    <3>3. /\ AccountInv(h) /\ accruedAt[h] <= clock /\ InForce(h, now, rate)
          /\ h \in held \/ accruedAt[h] >= now
      BY <1>1, <1>a, <2>0, <2>1, <2>17, <3>1 DEF FeesInv, SweepInv
    <3>4. /\ rise > 0 => price > mark[h] /\ rise = price - mark[h]
          /\ due = ManagementDue(rate, accruedAt[h], now) + rise + debt[h]
          /\ mark'[h] = IF rise > 0 THEN price ELSE mark[h]
          /\ bill'[h] = [t \in Ticks |-> IF t \in Window(accruedAt[h], now) THEN bill[h][t] + rate ELSE bill[h][t]]
          /\ accruedAt[h] <= now
      BY <2>4, <2>8, <2>10, <3>2, <1>c DEF MarkAfter
    <3>5. UNCHANGED <<clock, terms, held, owed[h], entry[h]>>
      BY <2>7 DEF changeVars
    <3>6. AccountInv(h)'
      BY <2>0, <2>1, <2>3, <2>4, <2>6, <2>10, <2>17, <3>3, <3>4, <3>5, ChargedAccount
    <3> QED BY <2>10, <3>4, <3>6
  <2>20. accruedAt'[h] <= clock /\ (h \in held => h \in held')
    BY <2>7, <2>10, <2>17
  <2>21. \A r \in Sweepers : sweep'[r] = sweep[r] \/ SweepInv(r)'
    BY <2>15, <2>18
  <2> QED BY <2>1, <2>11, <2>12, <2>16, <2>19, <2>20, <2>21, PositionOnlyInv
<1> QED BY <1>2, <1>3

-----------------------------------------------------------------------------
(***************************************************************************)
(* Fees: a promotion.                                                      *)
(***************************************************************************)
\* Terms promoted at a tick e that has passed: a holding position they find behind
\* e is settled up to it, and the open windows are governed by both.
LEMMA PromotedAccount ==
    ASSUME FeesTypes, NEW h \in Holders, AccountInv(h), accruedAt[h] <= clock,
           NEW e \in 0..Horizon, e <= clock, NEW rate \in Nat, terms'.fee = rate,
           UNCHANGED <<clock, held, taken[h], gain[h], mark[h], entry[h]>>,
           \A t \in Ticks : owed'[h][t] = IF owed[h][t] # {} /\ t \in Window(e, clock)
                                          THEN owed[h][t] \union {rate} ELSE owed[h][t],
           IF h \in held /\ accruedAt[h] < e
           THEN /\ accruedAt'[h] = e
                /\ debt'[h] = Carry(h, e).debt /\ bill'[h] = Carry(h, e).bill
           ELSE UNCHANGED <<accruedAt[h], debt[h], bill[h]>>
    PROVE  AccountInv(h)'
<1>a. PICK a, b : a = accruedAt'[h] /\ b = bill'[h]
  OBVIOUS
<1>0. /\ accruedAt[h] \in 0..Horizon /\ clock \in 0..Horizon /\ Horizon \in Nat /\ e \in Int
      /\ accruedAt[h] <= a /\ a <= clock /\ a \in Int /\ (h \in held => e <= a)
  <2>1. accruedAt[h] \in 0..Horizon /\ clock \in 0..Horizon /\ Horizon \in Nat
    BY FeesTypesNow
  <2> QED BY <1>a, <2>1
<1>1. /\ taken[h] + debt'[h] = Billed(b) + gain[h]
      /\ \A t \in Ticks : IF t < a /\ t < clock /\ owed[h][t] # {} THEN b[t] \in owed[h][t] ELSE b[t] = 0
  <2>1. CASE h \in held /\ accruedAt[h] < e
    <3>1. accruedAt[h] <= e /\ a = e /\ debt'[h] = Carry(h, e).debt /\ b = Carry(h, e).bill
      BY <1>0, <1>a, <2>1
    <3>2. /\ taken[h] + Carry(h, e).debt = Billed(Carry(h, e).bill) + gain[h]
          /\ \A t \in Ticks : IF t < e /\ t < clock /\ owed[h][t] # {}
                              THEN Carry(h, e).bill[t] \in owed[h][t] ELSE Carry(h, e).bill[t] = 0
      BY <2>1, <3>1, CarryFacts
    <3> QED BY <3>1, <3>2
  <2>2. CASE ~(h \in held /\ accruedAt[h] < e)
    <3>1. a = accruedAt[h] /\ b = bill[h] /\ debt'[h] = debt[h]
      BY <1>a, <2>2
    <3> QED BY <3>1 DEF AccountInv, BilledRight
  <2> QED BY <2>1, <2>2
<1>2. ASSUME NEW t \in Ticks
      PROVE  IF t < a /\ t < clock /\ owed'[h][t] # {} THEN b[t] \in owed'[h][t] ELSE b[t] = 0
  <2>1. owed[h][t] \subseteq owed'[h][t] /\ (owed'[h][t] = {} <=> owed[h][t] = {})
    OBVIOUS
  <2> QED BY <1>1, <2>1
<1>3. BilledRight(h)'
  BY <1>a, <1>2 DEF BilledRight
<1>4. ASSUME NEW t \in Ticks, t >= clock PROVE owed'[h][t] = {}
  <2>1. owed[h][t] = {}
    BY <1>4 DEF AccountInv, WindowInv
  <2> QED BY <2>1
<1>5. ASSUME NEW t \in Window(a, clock) PROVE IF h \in held THEN rate \in owed'[h][t] ELSE owed'[h][t] = {}
  <2>1. t \in Ticks /\ t \in Window(accruedAt[h], clock) /\ (h \in held => t \in Window(e, clock))
    BY <1>0 DEF Window, Ticks
  <2>2. IF h \in held THEN terms.fee \in owed[h][t] ELSE owed[h][t] = {}
    BY <2>1 DEF AccountInv, WindowInv, InForce
  <2> QED BY <2>1, <2>2
<1>6. WindowInv(h)'
  BY <1>a, <1>4, <1>5 DEF WindowInv, InForce
<1> QED BY <1>a, <1>1, <1>3, <1>6 DEF AccountInv

LEMMA PromoteInv ==
    ASSUME FeesInv, NEW f \in Changes, Promote(f) PROVE FeesInv'
<1>a. PICK e, rate : e = effective[f] /\ rate = NewTerms[f].fee
  OBVIOUS
<1>0. /\ FeesTypes /\ clock \in 0..Horizon /\ Horizon \in Nat /\ held \subseteq Holders
      /\ accruedAt \in [Holders -> 0..Horizon] /\ debt \in [Holders -> Nat]
      /\ bill \in [Holders -> [Ticks -> Nat]] /\ owed \in [Holders -> [Ticks -> SUBSET Nat]]
  BY FeesTypesNow DEF FeesInv
<1>1. /\ UNCHANGED <<clock, price, sweep, effective, notice, waived, announced, held, crystAt, mark, overtaken, gain, entry, taken>>
      /\ terms' = NewTerms[f] /\ e <= clock
      /\ fstate' = [g \in Changes |-> IF g = f THEN "active"
                                      ELSE IF fstate[g] = "active" THEN "superseded" ELSE fstate[g]]
      /\ owed' = [h \in Holders |-> [t \in Ticks |->
                    IF owed[h][t] # {} /\ t \in Window(e, clock)
                    THEN owed[h][t] \union {rate} ELSE owed[h][t]]]
  BY <1>a DEF Promote
<1>2. e \in Nat /\ e \in 0..Horizon /\ NewTerms[f] \in [fee : Nat, hurdle : Nat] /\ rate \in Nat
  BY <1>0, <1>1, <1>a, FeesConsts DEF FeesTypes, FeesTypeOK
<1> DEFINE Old(h) == h \in held /\ accruedAt[h] < e
<1>3. /\ accruedAt' = [h \in Holders |-> IF Old(h) THEN e ELSE accruedAt[h]]
      /\ debt' = [h \in Holders |-> IF Old(h) THEN Carry(h, e).debt ELSE debt[h]]
      /\ bill' = [h \in Holders |-> IF Old(h) THEN Carry(h, e).bill ELSE bill[h]]
  BY <1>a DEF Promote, SettleAtOldTerms
<1>4. ASSUME NEW h \in Holders
      PROVE  /\ Carry(h, e).debt \in Nat /\ Carry(h, e).bill \in [Ticks -> Nat]
             /\ \A t \in Ticks : owed'[h][t] = IF owed[h][t] # {} /\ t \in Window(e, clock)
                                               THEN owed[h][t] \union {rate} ELSE owed[h][t]
             /\ owed'[h] \in [Ticks -> SUBSET Nat]
  <2>1. Carry(h, e).debt \in Nat /\ Carry(h, e).bill \in [Ticks -> Nat]
    BY <1>0, <1>2, CarryTypes
  <2>2. owed'[h] = [t \in Ticks |-> IF owed[h][t] # {} /\ t \in Window(e, clock)
                                    THEN owed[h][t] \union {rate} ELSE owed[h][t]]
    BY <1>1
  <2>3. owed'[h] \in [Ticks -> SUBSET Nat]
    BY <1>0, <1>2, <2>2
  <2> QED BY <2>1, <2>2, <2>3
<1>5. FeesTypes'
  <2>1. accruedAt' \in [Holders -> 0..Horizon]
    BY <1>0, <1>2, <1>3
  <2>2. debt' \in [Holders -> Nat] /\ bill' \in [Holders -> [Ticks -> Nat]]
    BY <1>0, <1>3, <1>4
  <2>3. owed' \in [Holders -> [Ticks -> SUBSET Nat]]
    BY <1>1, <1>4
  <2>4. fstate' \in [Changes -> FeePolicyChangeStates \union {"none"}]
    BY <1>0, <1>1 DEF FeesTypes, FeesTypeOK, FeePolicyChangeStates
  <2>5. FeesTypeOK'
    BY <1>0, <1>1, <1>2, <2>1, <2>2, <2>4 DEF FeesTypes, FeesTypeOK
  <2> QED BY <1>0, <1>1, <2>2, <2>3, <2>5 DEF FeesTypes
<1>6. ASSUME NEW g \in Changes PROVE NoticeInv(g)'
  <2>1. NoticeInv(g)
    BY DEF FeesInv
  <2>2. fstate'[g] = fstate[g] \/ fstate'[g] \in {"active", "superseded"}
    BY <1>1
  <2> QED BY <1>1, <2>1, <2>2 DEF NoticeInv
<1>7. ASSUME NEW h \in Holders
      PROVE  /\ IF h \in held /\ accruedAt[h] < e
                THEN /\ accruedAt'[h] = e
                     /\ debt'[h] = Carry(h, e).debt /\ bill'[h] = Carry(h, e).bill
                ELSE UNCHANGED <<accruedAt[h], debt[h], bill[h]>>
             /\ accruedAt'[h] <= clock' /\ accruedAt[h] <= accruedAt'[h]
  <2>1. /\ accruedAt'[h] = IF Old(h) THEN e ELSE accruedAt[h]
        /\ debt'[h] = IF Old(h) THEN Carry(h, e).debt ELSE debt[h]
        /\ bill'[h] = IF Old(h) THEN Carry(h, e).bill ELSE bill[h]
    BY <1>3
  <2>2. accruedAt[h] \in Int /\ accruedAt[h] <= clock
    BY <1>0 DEF FeesInv
  <2> QED BY <1>0, <1>1, <1>2, <2>1, <2>2
<1>8. ASSUME NEW h \in Holders \ overtaken' PROVE AccountInv(h)'
  <2>1. AccountInv(h) /\ accruedAt[h] <= clock /\ h \in Holders
    BY <1>1, <1>8 DEF FeesInv
  <2>2. terms'.fee = rate /\ UNCHANGED <<clock, held, taken[h], gain[h], mark[h], entry[h]>>
    BY <1>1, <1>a
  <2> QED BY <1>0, <1>1, <1>2, <1>4, <1>7, <2>1, <2>2, PromotedAccount
<1>9. Moves
  <2>1. overtaken \subseteq overtaken' /\ held' = held /\ clock <= clock'
    BY <1>0, <1>1
  <2>2. \A h \in Holders : accruedAt[h] <= accruedAt'[h]
    BY <1>7
  <2>3. \A h \in Holders, t \in Ticks : owed[h][t] \subseteq owed'[h][t]
    BY <1>4
  <2> QED BY <2>1, <2>2, <2>3 DEF Moves
<1>10. ASSUME NEW s \in Sweepers PROVE SweepInv(s)'
  <2>1. SweepInv(s) /\ sweep'[s] = sweep[s]
    BY <1>1 DEF FeesInv
  <2> QED BY <1>0, <1>5, <1>9, <2>1, SweepFrame
<1> QED BY <1>5, <1>6, <1>7, <1>8, <1>10 DEF FeesInv

-----------------------------------------------------------------------------
(***************************************************************************)
(* Fees: the theorems.                                                     *)
(***************************************************************************)
LEMMA FeesInitInv == FeesInit => FeesInv
<1> SUFFICES ASSUME FeesInit PROVE FeesInv
  OBVIOUS
<1> USE DEF FeesInit, FeesInitWith
<1>0. price \in Prices /\ price \in Nat /\ Horizon \in Nat
  BY FeesConsts
<1>1. FeesTypeOK
  BY <1>0, FeesConsts DEF FeesTypeOK, FeePolicyChangeStates, IdleSweep
<1>2. FeesTypes
  <2>1. IdleSweep \in SweepRecs /\ IdleSweep.at = "idle"
    BY <1>0 DEF IdleSweep, SweepRecs
  <2>2. sweep \in [Sweepers -> SweepRecs] /\ \A s \in Sweepers : sweep[s].at = "charge" => sweep[s].snap \in Snaps
    BY <2>1
  <2> QED BY <1>0, <1>1, <2>2 DEF FeesTypes
<1>3. \A h \in Holders : accruedAt[h] <= clock
  OBVIOUS
<1>4. \A f \in Changes : NoticeInv(f)
  BY DEF NoticeInv
<1>5. Billed([t \in Ticks |-> 0]) = 0
  <2> DEFINE z == [t \in Ticks |-> 0]
             zero == {S \in SUBSET Ticks : SumOver(z, S) = 0}
  <2>1. {} \in zero
    BY SumChosen, FS_EmptySet
  <2>2. ASSUME NEW S \in SUBSET Ticks, S # {}, \A t \in S : S \ {t} \in zero PROVE S \in zero
    <3>1. IsFiniteSet(S) /\ \A t \in S : z[t] = 0 /\ z[t] \in Int
      BY TicksFinite, FS_Subset
    <3>2. PICK t \in S : TRUE
      BY <2>2
    <3> HIDE DEF z
    <3>3. SumOver(z, S) = z[t] + SumOver(z, S \ {t})
      BY <3>1, <3>2, SumRemove
    <3>4. SumOver(z, S \ {t}) = 0
      BY <2>2, <3>2
    <3>5. SumOver(z, S) = 0
      BY <3>1, <3>2, <3>3, <3>4
    <3> QED BY <3>5
  <2>3. Ticks \in zero
    <3> HIDE DEF zero
    <3>1. \A S \in SUBSET Ticks : S \in zero
      BY <2>1, <2>2, TicksFinite, SubsetInduction
    <3> QED BY <3>1
  <2> QED BY <2>3, BilledIs
<1>6. ASSUME NEW h \in Holders PROVE AccountInv(h)
  <2>1. \A t \in Ticks : owed[h][t] = {} /\ bill[h][t] = 0
    OBVIOUS
  <2>2. \A t \in Ticks : t \notin Window(accruedAt[h], clock)
    BY <1>0 DEF Window, Ticks
  <2>3. WindowInv(h)
    BY <2>1, <2>2 DEF WindowInv, InForce, Window
  <2>4. BilledRight(h)
    BY <2>1 DEF BilledRight
  <2>5. taken[h] + debt[h] = Billed(bill[h]) + gain[h]
    BY <1>5
  <2>6. gain[h] <= mark[h] - entry[h]
    BY <1>0
  <2> QED BY <2>3, <2>4, <2>5, <2>6 DEF AccountInv
<1>7. \A s \in Sweepers : SweepInv(s)
  BY DEF SweepInv, SeenBy, IdleSweep
<1> QED BY <1>2, <1>3, <1>4, <1>6, <1>7 DEF FeesInv

LEMMA FeesStutterInv == ASSUME FeesInv, UNCHANGED feesVars PROVE FeesInv'
<1> USE DEF feesVars, changeVars, positionVars, historyVars
<1>1. FeesTypes'
  BY DEF FeesInv, FeesTypes, FeesTypeOK
<1>2. \A h \in Holders \ overtaken' : AccountInv(h)'
  BY AccountFrame DEF FeesInv
<1>3. \A f \in Changes : NoticeInv(f)'
  BY DEF FeesInv, NoticeInv
<1>4. \A s \in Sweepers : SweepInv(s)'
  BY DEF FeesInv, SweepInv, SeenBy, InForce
<1> QED BY <1>1, <1>2, <1>3, <1>4 DEF FeesInv

LEMMA FeesNextInv == FeesInv /\ [FeesNext]_feesVars => FeesInv'
<1> SUFFICES ASSUME FeesInv, [FeesNext]_feesVars PROVE FeesInv'
  OBVIOUS
<1>1. ASSUME NEW f \in Changes, ChangeStep(f) PROVE FeesInv'
  <2>1. CASE Schedule(f)
    BY <2>1, ScheduleInv
  <2>2. CASE CancelChange(f)
    BY <2>2, CancelInv
  <2>3. CASE Acknowledge(f)
    BY <2>3, AcknowledgeInv
  <2>4. CASE Promote(f)
    BY <2>4, PromoteInv
  <2>5. ASSUME NEW h \in Holders, NEW outcome \in {"sent", "given_up"}, DeliverNotice(f, h, outcome) PROVE FeesInv'
    BY <2>5, DeliverInv
  <2> QED BY <1>1, <2>1, <2>2, <2>3, <2>4, <2>5 DEF ChangeStep
<1>2. ASSUME NEW f \in Changes, AwaitConsilium(f) \/ RejectChange(f) PROVE FeesInv'
  BY <1>2, AwaitInv
<1>3. ASSUME NEW f \in Changes, ScheduleApproved(f) PROVE FeesInv'
  BY <1>3, ScheduleApprovedInv
<1>4. ASSUME NEW s \in Sweepers, SweepStep(s) PROVE FeesInv'
  BY <1>4, SweepStartsInv, ReadPolicyInv, ReadPositionInv, ChargeInv DEF SweepStep
<1>5. ASSUME NEW h \in Holders, TopUp(h) \/ Exit(h) PROVE FeesInv'
  BY <1>5, TopUpInv, ExitInv
<1>6. CASE Tick
  BY <1>6, TickInv
<1>7. ASSUME NEW p \in Prices, Revalue(p) PROVE FeesInv'
  BY <1>7, RevalueInv
<1>8. CASE UNCHANGED feesVars
  BY <1>8, FeesStutterInv
<1> QED BY <1>1, <1>2, <1>3, <1>4, <1>5, <1>6, <1>7, <1>8 DEF FeesNext

\* Every reachable state satisfies the invariant.
THEOREM FeesInvariant == FeesSpec => []FeesInv
<1> QED BY FeesInitInv, FeesNextInv, PTL DEF FeesSpec

\* A holder pays what the terms in force ask, once: Charge, carry_accrual and the
\* promotion of a change price every tick once, at terms that governed it, and
\* neither a debt nor a rise of the price is dropped or counted twice.
THEOREM FeesChargedOnce == FeesSpec => []ChargedOnceAtTerms
<1>1. FeesInv => ChargedOnceAtTerms
  BY DEF FeesInv, AccountInv, BilledRight, ChargedOnceAtTerms, BilledAtTermsInForce, NothingLost, GainChargedOnce
<1> QED BY <1>1, FeesInvariant, PTL

LEMMA NoticeStep == FeesInv /\ [FeesNext]_feesVars =>
    [/\ \A f \in Changes :
            fstate[f] = "scheduled" /\ fstate'[f] = "active" /\ TightensFrom(NewTerms[f], terms) =>
            \A h \in held : notice[f][h] = "none" \/
                /\ notice[f][h] = "sent" \/ (notice[f][h] = "given_up" /\ h \in waived[f])
                /\ clock >= announced[f] + MinNotice
     /\ \A f \in Changes, h \in Holders :
            notice[f][h] # "sent" /\ notice'[f][h] = "sent" => fstate[f] \in {"scheduled", "active", "superseded"}]_feesVars
<1> SUFFICES ASSUME FeesInv, FeesNext
    PROVE  /\ \A f \in Changes :
                fstate[f] = "scheduled" /\ fstate'[f] = "active" /\ TightensFrom(NewTerms[f], terms) =>
                \A h \in held : notice[f][h] = "none" \/
                    /\ notice[f][h] = "sent" \/ (notice[f][h] = "given_up" /\ h \in waived[f])
                    /\ clock >= announced[f] + MinNotice
           /\ \A f \in Changes, h \in Holders :
                notice[f][h] # "sent" /\ notice'[f][h] = "sent" => fstate[f] \in {"scheduled", "active", "superseded"}
  OBVIOUS
<1>0. /\ fstate \in [Changes -> FeePolicyChangeStates \union {"none"}]
      /\ notice \in [Changes -> [Holders -> NoticeStates]] /\ held \subseteq Holders
      /\ clock \in Nat /\ effective \in [Changes -> Nat] /\ announced \in [Changes -> Nat] /\ MinNotice \in Nat
  BY FeesConsts, FeesTypesNow DEF FeesInv, FeesTypes, FeesTypeOK, NoticeStates
<1>1. ASSUME NEW f \in Changes, fstate[f] = "scheduled", fstate'[f] = "active", TightensFrom(NewTerms[f], terms),
             NEW h \in held, notice[f][h] # "none"
      PROVE  /\ notice[f][h] = "sent" \/ (notice[f][h] = "given_up" /\ h \in waived[f])
             /\ clock >= announced[f] + MinNotice
  <2>1. Promote(f)
    <3>1. ASSUME NEW g \in Changes, Promote(g) PROVE g = f
      <4>1. fstate' = [k \in Changes |-> IF k = g THEN "active"
                                         ELSE IF fstate[k] = "active" THEN "superseded" ELSE fstate[k]]
        BY <3>1 DEF Promote
      <4> QED BY <1>1, <4>1
    <3>2. ASSUME NEW g \in Changes, \/ Schedule(g) \/ CancelChange(g) \/ Acknowledge(g) \/ AwaitConsilium(g) \/ ScheduleApproved(g)
                                    \/ RejectChange(g)
          PROVE  FALSE
      <4>1. CASE Schedule(g) \/ ScheduleApproved(g)
        BY <1>0, <1>1, <4>1 DEF Schedule, ScheduleApproved
      <4>2. CASE CancelChange(g) \/ AwaitConsilium(g)
        BY <1>0, <1>1, <4>2 DEF CancelChange, AwaitConsilium
      <4>3. CASE Acknowledge(g) \/ RejectChange(g)
        BY <1>0, <1>1, <4>3 DEF Acknowledge, RejectChange
      <4> QED BY <3>2, <4>1, <4>2, <4>3
    <3>3. ASSUME NEW g \in Changes, NEW i \in Holders, NEW outcome \in {"sent", "given_up"}, DeliverNotice(g, i, outcome)
          PROVE  FALSE
      BY <1>1, <3>3 DEF DeliverNotice
    <3>4. ASSUME NEW s \in Sweepers, SweepStep(s) PROVE FALSE
      <4>1. fstate' = fstate
        BY <3>4 DEF SweepStep, SweepStarts, ReadPolicy, ReadPosition, Charge, changeVars
      <4> QED BY <1>1, <4>1
    <3>5. ASSUME NEW i \in Holders, TopUp(i) \/ Exit(i) PROVE FALSE
      BY <1>1, <3>5 DEF TopUp, Exit, changeVars
    <3>6. ASSUME Tick \/ \E p \in Prices : Revalue(p) PROVE FALSE
      BY <1>1, <3>6 DEF Tick, Revalue, changeVars
    <3> QED BY <3>1, <3>2, <3>3, <3>4, <3>5, <3>6 DEF FeesNext, ChangeStep
  <2>2. NoticeInv(f) /\ h \in Holders
    BY <1>0 DEF FeesInv
  <2>3. notice[f][h] \in NoticeStates /\ effective[f] <= clock /\ (h \in UndeliveredNotices(f) => h \in waived[f])
    BY <1>0, <1>1, <2>1, <2>2 DEF Promote, MayBind
  <2>4. notice[f][h] \in {"queued", "given_up"} => h \in UndeliveredNotices(f)
    BY DEF UndeliveredNotices
  <2>5. /\ notice[f][h] # "withdrawn" /\ (h \in waived[f] => notice[f][h] = "given_up")
        /\ effective[f] >= announced[f] + MinNotice
    BY <1>1, <2>2 DEF NoticeInv
  <2> QED BY <1>0, <1>1, <2>3, <2>4, <2>5 DEF NoticeStates
<1>2. ASSUME NEW f \in Changes, NEW h \in Holders, notice[f][h] # "sent", notice'[f][h] = "sent"
      PROVE  notice[f][h] = "queued"
  <2>1. ASSUME NEW g \in Changes, Schedule(g) \/ ScheduleApproved(g) PROVE FALSE
    <3>1. notice' = notice \/ notice' = [notice EXCEPT ![g] = [i \in Holders |-> IF i \in held THEN "queued" ELSE "none"]]
      BY <2>1 DEF Schedule, ScheduleApproved, EnqueueNotices
    <3>2. \/ notice'[f] = notice[f]
          \/ notice'[f] = [i \in Holders |-> IF i \in held THEN "queued" ELSE "none"]
      BY <1>0, <3>1
    <3> QED BY <1>2, <3>2
  <2>2. ASSUME NEW g \in Changes, CancelChange(g) PROVE FALSE
    <3>1. notice' = [notice EXCEPT ![g] =
                       [i \in Holders |-> IF notice[g][i] \in {"queued", "given_up"} THEN "withdrawn" ELSE notice[g][i]]]
      BY <2>2 DEF CancelChange, WithdrawUndelivered
    <3>2. \/ notice'[f] = notice[f]
          \/ notice'[f] = [i \in Holders |-> IF notice[f][i] \in {"queued", "given_up"} THEN "withdrawn" ELSE notice[f][i]]
      BY <1>0, <3>1
    <3> QED BY <1>2, <3>2
  <2>3. ASSUME NEW g \in Changes, Acknowledge(g) \/ AwaitConsilium(g) \/ RejectChange(g) \/ Promote(g) PROVE FALSE
    <3>1. notice' = notice
      BY <2>3 DEF Acknowledge, AwaitConsilium, RejectChange, Promote
    <3> QED BY <1>2, <3>1
  <2>4. ASSUME NEW g \in Changes, NEW i \in Holders, NEW outcome \in {"sent", "given_up"}, DeliverNotice(g, i, outcome)
        PROVE  notice[f][h] = "queued"
    <3>1. notice[g][i] = "queued" /\ notice' = [notice EXCEPT ![g] = [notice[g] EXCEPT ![i] = outcome]]
      BY <1>0, <2>4, Zenon DEF DeliverNotice
    <3>2. notice'[f] = IF f = g THEN [notice[f] EXCEPT ![i] = outcome] ELSE notice[f]
      BY <1>0, <3>1
    <3>3. f = g /\ h = i
      BY <1>0, <1>2, <3>2
    <3> QED BY <3>1, <3>3
  <2>5. ASSUME NEW s \in Sweepers, SweepStep(s) PROVE FALSE
    <3>1. notice' = notice
      BY <2>5 DEF SweepStep, SweepStarts, ReadPolicy, ReadPosition, Charge, changeVars
    <3> QED BY <1>2, <3>1
  <2>6. ASSUME NEW i \in Holders, TopUp(i) \/ Exit(i) PROVE FALSE
    BY <1>2, <2>6 DEF TopUp, Exit, changeVars
  <2>7. ASSUME Tick \/ \E p \in Prices : Revalue(p) PROVE FALSE
    BY <1>2, <2>7 DEF Tick, Revalue, changeVars
  <2> QED BY <2>1, <2>2, <2>3, <2>4, <2>5, <2>6, <2>7 DEF FeesNext, ChangeStep
<1>3. ASSUME NEW f \in Changes, NEW h \in Holders, notice[f][h] = "queued"
      PROVE  fstate[f] \in {"scheduled", "active", "superseded"}
  <2>1. NoticeInv(f) /\ fstate[f] \in FeePolicyChangeStates \union {"none"}
    BY <1>0 DEF FeesInv
  <2> QED BY <1>3, <2>1 DEF NoticeInv, FeePolicyChangeStates
<1> QED BY <1>1, <1>2, <1>3

\* Dearer terms bind no holder on the notice roster whose notice did not arrive or
\* whose notice period has not passed, and withdrawn terms are never announced.
THEOREM FeesNoticesFollow == FeesSpec => NoticesFollowTerms
<1> QED BY FeesInvariant, NoticeStep, PTL
        DEF FeesSpec, NoticesFollowTerms, NoticeBeforeDearerTerms, NoNoticeOfDeadTerms

-----------------------------------------------------------------------------
(***************************************************************************)
(* Shares: the invariant.                                                  *)
(***************************************************************************)
Stamps == {"queued", "parked", "done"}
OfRed  == {"requested", "settled", "failed", "cancelled"}
Events ==
    [kind : {"subscribed"}, id : Subs, st : Stamps] \cup [kind : {"issued"}, id : Issues, st : Stamps]
    \cup [kind : OfRed, id : Reds, st : Stamps] \cup [kind : {"charged"}, id : Dues, st : Stamps]
    \cup [kind : {"fees_settled"}, id : Payouts, st : Stamps]
Desked == [at : {"idle", "subscribe", "issue", "request", "tosettle", "settle", "value", "charge", "fees"},
           op : Subs \cup Issues \cup Reds \cup Dues \cup Payouts \cup Investors \cup {"none"},
           price : Nat, covered : BOOLEAN]

UnitsTypes ==
    /\ product \in [state : AllocationStates, access : AllocationAccesses,
                    cap : UnitCaps \cup {Max(UnitCaps)}, backing : {"cash", "in_kind"}]
    /\ marks \in Seq([nav : Nat \ {0}, by : Investors])
    /\ cash \in [Investors -> Nat] /\ fund \in Nat /\ units \in [Investors -> Nat] /\ fee \in Nat
    /\ burn \in [Reds -> {"none", "pending", "posted", "void"}]
    /\ bought \in [Subs -> Nat] /\ red \in [Reds -> RedemptionStates] /\ redCash \in [Reds -> Nat]
    /\ issued \in [Issues -> {"none", "queued", "applied"}] /\ dueRow \subseteq Dues
    /\ paidFees \in [Payouts -> Nat] /\ pos \in [Investors -> [units : Nat, basis : Nat]]
    /\ clamped \subseteq Investors /\ marked \subseteq Subs \cup Issues /\ outbox \in Seq(Events) /\ desk \in [Desks -> Desked]

\* What a request in flight carries: the price it read, and what it is about.
DeskFits(t) ==
    /\ t.at \in {"subscribe", "settle", "fees"} => t.price > 0
    /\ t.at = "subscribe" => t.op \in Subs /\ FromCash(SubOf[t.op].cash, t.price) > 0
    /\ t.at = "issue" => t.op \in Issues
    /\ t.at \in {"request", "tosettle", "settle"} => t.op \in Reds
    /\ t.at = "charge" => t.op \in Dues
    /\ t.at = "fees" => t.op \in Payouts
    /\ t.at = "value" => t.op \in Investors

\* Each row that changed has its event, ...
Told(kind, id) == \E j \in DOMAIN outbox : outbox[j].kind = kind /\ outbox[j].id = id
RowsTold ==
    /\ \A s \in Subs : bought[s] > 0 => Told("subscribed", s)
    /\ \A i \in Issues : issued[i] # "none" => Told("issued", i)
    /\ \A r \in Reds : red[r] \in {"completed", "failed", "cancelled"} =>
           Told(IF red[r] = "completed" THEN "settled" ELSE red[r], r)
    /\ \A k \in dueRow : Told("charged", k)

\* ... each event a row in the state that it tells of, and what is stamped done is done.
EventFits(e) ==
    /\ e.kind = "subscribed" => bought[e.id] > 0
    /\ e.kind = "issued" => issued[e.id] # "none"
    /\ e.kind = "requested" => red[e.id] # "none"
    /\ e.kind = "settled" => red[e.id] = "completed"
    /\ e.kind \in {"failed", "cancelled"} => red[e.id] = e.kind
    /\ e.kind = "charged" => e.id \in dueRow
    /\ e.st = "done" => /\ \A k \in DOMAIN PlanShares(e) : <<e.id, PlanShares(e)[k]>> \in legsDone
                        /\ e.kind \in {"subscribed", "issued"} => e.id \in marked

\* What the ledger has, it has for a row, leg after leg.
SubLegs(s) == (<<s, "mint">> \in legsDone => <<s, "cash">> \in legsDone) /\ (<<s, "cash">> \in legsDone => bought[s] > 0)
IssueLegs(i) == (<<i, "issue">> \in legsDone \/ <<i, "retire">> \in legsDone) => issued[i] # "none"
RedLegs(r) ==
    /\ burn[r] = "none" <=> <<r, "reserve">> \notin legsDone
    /\ burn[r] = "posted" <=> <<r, "burn">> \in legsDone
    /\ burn[r] = "void" <=> <<r, "void">> \in legsDone
    /\ <<r, "burn">> \in legsDone => red[r] = "completed"
    /\ <<r, "void">> \in legsDone => red[r] \in {"failed", "cancelled"}
    /\ <<r, "payout">> \in legsDone => <<r, "burn">> \in legsDone
DueLegs(k) == <<k, "clawback">> \in legsDone => k \in dueRow

LegsFit ==
    /\ \A s \in Subs : SubLegs(s) /\ (s \in marked => <<s, "mint">> \in legsDone)
    /\ \A i \in Issues : IssueLegs(i) /\ (i \in marked => <<i, "issue">> \in legsDone \/ <<i, "retire">> \in legsDone)
    /\ \A r \in Reds : RedLegs(r)
    /\ \A k \in Dues : DueLegs(k)

\* The units behind pending burns are there.
RedUnits == [r \in Reds |-> RedOf[r].units]
Pending(b, u) == {r \in Reds : b[r] = "pending" /\ RedOf[r].user = u}
UnitsCover(u) == SumOver(RedUnits, Pending(burn, u)) <= units[u]

\* A basis is at most what was projected of cash paid.
CashPaid  == [s \in Subs |-> SubOf[s].cash]
BasisSet  == [i \in Issues |-> IssueOf[i].basis]
SubsOf(m, u)   == {s \in Subs : s \in m /\ SubOf[s].user = u}
IssuesOf(m, u) == {i \in Issues : i \in m /\ IssueOf[i].user = u}
BasisFits(u) ==
    /\ pos[u].basis <= StartUnits[u] + SumOver(CashPaid, SubsOf(marked, u)) + SumOver(BasisSet, IssuesOf(marked, u))
    /\ pos[u].units = 0 /\ dueRow = {} => pos[u].basis = 0

\* How far the projection of a position is ahead of the ledger.
Chosen(c, n) == IF c THEN n ELSE 0
SubWeight(m, l, b, s) == Chosen(s \in m, b[s]) - Chosen(<<s, "mint">> \in l, b[s])
IssueWeight(m, l, i)  ==
    IF IssueOf[i].source = "mint"
    THEN Chosen(i \in m, IssueOf[i].units) - Chosen(<<i, "issue">> \in l, IssueOf[i].units)
    ELSE Chosen(<<i, "retire">> \in l, IssueOf[i].units) - Chosen(i \in m, IssueOf[i].units)
RedWeight(x, b, r)    == Chosen(b[r] = "posted", RedOf[r].units) - Chosen(x[r] = "completed", RedOf[r].units)
DueWeight(x, l, k)    == Chosen(<<k, "clawback">> \in l, DueOf[k].units) - Chosen(k \in x, DueOf[k].units)
At(a, u, n) == IF a = u THEN n ELSE 0
SubGap(m, l, b, u) == [s \in Subs |-> At(SubOf[s].user, u, SubWeight(m, l, b, s))]
IssueGap(m, l, u)  == [i \in Issues |-> At(IssueOf[i].user, u, IssueWeight(m, l, i))]
RedGap(x, b, u)    == [r \in Reds |-> At(RedOf[r].user, u, RedWeight(x, b, r))]
DueGap(x, l, u)    == [k \in Dues |-> At(DueOf[k].user, u, DueWeight(x, l, k))]
Ahead(u) == SumOver(SubGap(marked, legsDone, bought, u), Subs) + SumOver(IssueGap(marked, legsDone, u), Issues)
            + SumOver(RedGap(red, burn, u), Reds) + SumOver(DueGap(dueRow, legsDone, u), Dues)

\* A charge or a retirement is projected down to zero at most, so it may leave a
\* position ahead, never behind; only a clamped one is not level.
GapFits(u) ==
    /\ pos[u].units >= units[u] + Ahead(u)
    /\ u \notin clamped => pos[u].units = units[u] + Ahead(u)

UnitsInv ==
    /\ UnitsTypes /\ \A d \in Desks : DeskFits(desk[d])
    /\ RowsTold /\ \A j \in DOMAIN outbox : EventFits(outbox[j])
    /\ LegsFit /\ KeyIssuesOnce
    /\ \A u \in Investors : UnitsCover(u) /\ BasisFits(u) /\ GapFits(u)

-----------------------------------------------------------------------------
(***************************************************************************)
(* Shares: sums, prices and the plan of an event.                          *)
(***************************************************************************)
DesksFit  == \A d \in Desks : DeskFits(desk[d])
EventsFit == \A j \in DOMAIN outbox : EventFits(outbox[j])

LEMMA RedUnitsNat == \A S \in SUBSET Reds : IsFiniteSet(S) /\ \A r \in S : RedUnits[r] \in Nat
<1>1. \A r \in Reds : RedUnits[r] \in Nat
  BY SharesAssumption DEF RedUnits
<1> QED BY <1>1, SharesAssumption, FS_Subset

LEMMA PendingIn == \A b, u : Pending(b, u) \in SUBSET Reds
BY DEF Pending

LEMMA BurnsNat == \A b, u : SumOver(RedUnits, Pending(b, u)) \in Nat
BY RedUnitsNat, PendingIn, SumNat

\* The ledger's pending burns are a sum over the redemptions.
LEMMA BurnsPendingIs == \A u : BurnsPending(u) = SumOver(RedUnits, Pending(burn, u))
<1> SUFFICES ASSUME NEW u PROVE BurnsPending(u) = SumOver(RedUnits, Pending(burn, u))
  OBVIOUS
<1> DEFINE D == Pending(burn, u)
           w == RedUnits
           Rec(f) == f = [S \in SUBSET D |-> IF S = {} THEN 0
                            ELSE RedOf[CHOOSE x \in S : TRUE].units + f[S \ {CHOOSE x \in S : TRUE}]]
           it == CHOOSE f : Rec(f)
<1>1. IsFiniteSet(D) /\ D \subseteq Reds
  BY RedUnitsNat, PendingIn
<1>2. \A S \in SUBSET D : S # {} => w[CHOOSE x \in S : TRUE] = RedOf[CHOOSE x \in S : TRUE].units
  BY <1>1 DEF RedUnits
<1>3. \A f : Rec(f) <=> IsSum(f, w, D)
  <2> HIDE DEF w, D
  <2> QED BY <1>2 DEF IsSum
<1>4. Rec(it)
  <2>1. \E f : IsSum(f, w, D)
    BY <1>1, SumExists
  <2> HIDE DEF Rec
  <2> QED BY <2>1, <1>3
<1>5. it[D] = SumOver(w, D)
  <2>1. IsSum(it, w, D)
    BY <1>3, <1>4
  <2> HIDE DEF it, w, D
  <2> QED BY <1>1, <2>1, SumUnique
<1>6. BurnsPending(u) = it[D]
  BY DEF BurnsPending, MapThenSumSet, MapThenFoldSet, Pending
<1> QED BY <1>5, <1>6

LEMMA SupplyNat == UnitsTypes => IssuedSupply \in Nat
<1> SUFFICES ASSUME UnitsTypes PROVE IssuedSupply \in Nat
  OBVIOUS
<1>1. MapThenSumSet(LAMBDA u : units[u], Investors) = SumOver(units, Investors)
  BY DEF MapThenSumSet, MapThenFoldSet, SumOver, SumFn, IsSum
<1>2. SumOver(units, Investors) \in Nat
  BY SharesAssumption, SumNat DEF UnitsTypes
<1> QED BY <1>1, <1>2 DEF IssuedSupply, UnitsTypes

LEMMA DivNat == \A a \in Nat, b \in Nat \ {0} : a \div b \in Nat
OBVIOUS

\* Every price a request deals at is positive.
LEMMA PricePositive == UnitsTypes => DealingNav \in Nat \ {0}
<1> SUFFICES ASSUME UnitsTypes PROVE DealingNav \in Nat \ {0}
  OBVIOUS
<1>1. marks \in Seq([nav : Nat \ {0}, by : Investors])
  BY DEF UnitsTypes
<1>2. CASE marks = <<>>
  BY <1>2 DEF DealingNav, CurrentNav, SeedNav
<1>3. CASE marks # <<>>
  <2>1. Len(marks) \in DOMAIN marks
    BY <1>1, <1>3
  <2>2. marks[Len(marks)] \in [nav : Nat \ {0}, by : Investors]
    <3> DEFINE S == [nav : Nat \ {0}, by : Investors]
    <3>1. marks \in Seq(S)
      BY <1>1
    <3> HIDE DEF S
    <3>2. marks[Len(marks)] \in S
      BY <2>1, <3>1
    <3> QED BY <3>2 DEF S
  <2> QED BY <1>3, <2>2 DEF DealingNav, CurrentNav
<1> QED BY <1>2, <1>3

\* A basis shrinks in proportion.
LEMMA ShrinkBasis ==
    \A b \in Nat, m \in Nat \ {0} : \A k \in 0..m : (b * k) \div m \in Nat /\ (b * k) \div m <= b
<1> SUFFICES ASSUME NEW b \in Nat, NEW m \in Nat \ {0}, NEW k \in 0..m
             PROVE  (b * k) \div m \in Nat /\ (b * k) \div m <= b
  OBVIOUS
<1>1. b * k \in Nat /\ b * m \in Nat /\ b * k <= b * m
  OBVIOUS
<1> DEFINE x == b * k
           q == x \div m
<1>2. q \in Nat
  BY <1>1
<1>3. m * q <= x
  <2>1. \A y \in Nat, n \in Nat \ {0} : n * (y \div n) <= y
    OBVIOUS
  <2> QED BY <2>1, <1>1
<1>4. m * q <= m * b
  <2>1. b * m = m * b
    OBVIOUS
  <2> HIDE DEF q
  <2> QED BY <1>1, <1>2, <1>3, <2>1
<1>5. q <= b
  <2> HIDE DEF q
  <2>1. \A y, z \in Nat, n \in Nat \ {0} : n * y <= n * z => y <= z
    OBVIOUS
  <2> QED BY <1>2, <1>4, <2>1
<1> QED BY <1>2, <1>5

-----------------------------------------------------------------------------
(***************************************************************************)
(* Shares: what reads, registry and marks leave alone.                     *)
(***************************************************************************)
LEMMA RowsFrame ==
    ASSUME UnitsInv, UNCHANGED <<burn, legsDone, bought, red, issued, dueRow, marked, outbox>>
    PROVE  RowsTold' /\ EventsFit' /\ LegsFit' /\ KeyIssuesOnce'
<1>1. RowsTold' /\ KeyIssuesOnce'
  BY DEF UnitsInv, RowsTold, Told, KeyIssuesOnce
<1>2. EventsFit'
  <2>1. ASSUME NEW e, EventFits(e) PROVE EventFits(e)'
    BY <2>1 DEF EventFits
  <2>2. ASSUME NEW j \in DOMAIN outbox PROVE EventFits(outbox[j])'
    <3>1. PICK e : e = outbox[j]
      OBVIOUS
    <3>2. EventFits(e)'
      BY <2>1, <3>1 DEF UnitsInv
    <3> QED BY <3>1, <3>2
  <2> QED BY <2>2 DEF EventsFit
<1>3. LegsFit'
  BY DEF UnitsInv, LegsFit, SubLegs, IssueLegs, RedLegs, DueLegs
<1> QED BY <1>1, <1>2, <1>3

LEMMA HoldersFrame ==
    ASSUME UnitsInv, UNCHANGED <<units, burn, legsDone, bought, red, dueRow, pos, clamped, marked>>
    PROVE  \A u \in Investors : UnitsCover(u)' /\ BasisFits(u)' /\ GapFits(u)'
<1> SUFFICES ASSUME NEW u \in Investors PROVE UnitsCover(u)' /\ BasisFits(u)' /\ GapFits(u)'
  OBVIOUS
<1>1. UnitsCover(u) /\ BasisFits(u) /\ GapFits(u)
  BY DEF UnitsInv
<1>2. UnitsCover(u)'
  BY <1>1 DEF UnitsCover
<1>3. BasisFits(u)'
  BY <1>1 DEF BasisFits
<1>4. GapFits(u)'
  BY <1>1 DEF GapFits, Ahead
<1> QED BY <1>2, <1>3, <1>4

LEMMA QuietStep ==
    ASSUME UnitsInv, UnitsTypes', DesksFit',
           UNCHANGED <<units, burn, legsDone, bought, red, issued, dueRow, pos, clamped, marked, outbox>>
    PROVE  UnitsInv'
BY RowsFrame, HoldersFrame DEF UnitsInv, DesksFit, EventsFit

LEMMA DesksStep ==
    ASSUME UnitsInv, NEW d \in Desks, NEW t \in Desked, DeskFits(t), desk' = [desk EXCEPT ![d] = t]
    PROVE  desk' \in [Desks -> Desked] /\ DesksFit'
<1>1. desk \in [Desks -> Desked]
  BY DEF UnitsInv, UnitsTypes
<1>2. desk' \in [Desks -> Desked]
  <2> HIDE DEF Desked
  <2> QED BY <1>1
<1>3. ASSUME NEW x \in Desks PROVE DeskFits(desk'[x])
  <2>1. CASE x = d
    <3>1. desk'[x] = t
      BY <1>1, <2>1
    <3> QED BY <3>1
  <2>2. CASE x # d
    <3>1. desk'[x] = desk[x]
      BY <1>1, <2>2
    <3> QED BY <3>1 DEF UnitsInv
  <2> QED BY <2>1, <2>2
<1>4. DesksFit'
  <2>1. ASSUME NEW x \in Desks PROVE DeskFits(desk[x])'
    <3>1. DeskFits(desk'[x])
      BY <1>3
    <3> QED BY <3>1 DEF DeskFits
  <2> QED BY <2>1 DEF DesksFit
<1> QED BY <1>2, <1>4

LEMMA IdleDesk == Desk \in Desked /\ DeskFits(Desk)
BY DEF Desk, Desked, DeskFits

\* Only a register, and perhaps what backs the product, changes.
LEMMA DeskOnly ==
    ASSUME UnitsInv, NEW d \in Desks, NEW t \in Desked, DeskFits(t), desk' = [desk EXCEPT ![d] = t],
           product' = product \/ product' = [product EXCEPT !.backing = "in_kind"],
           UNCHANGED <<invited, markVars, bookVars, rowVars, pos, clamped, marked, outbox>>
    PROVE  UnitsInv'
<1>1. desk' \in [Desks -> Desked] /\ DesksFit'
  BY DesksStep
<1>2. UnitsTypes'
  <2>1. product' \in [state : AllocationStates, access : AllocationAccesses,
                      cap : UnitCaps \cup {Max(UnitCaps)}, backing : {"cash", "in_kind"}]
    BY DEF UnitsInv, UnitsTypes
  <2> QED BY <1>1, <2>1 DEF UnitsInv, UnitsTypes, markVars, bookVars, rowVars
<1> QED BY <1>1, <1>2, QuietStep DEF bookVars, rowVars

\* The accrual clock counts charges.
LEMMA ClockNat == UnitsTypes => \A u : AccrualClock(u) \in Nat
<1> SUFFICES ASSUME UnitsTypes, NEW u PROVE AccrualClock(u) \in Nat
  OBVIOUS
<1> DEFINE S == {k \in dueRow : DueOf[k].user = u}
<1>1. S \subseteq Dues
  BY DEF UnitsTypes
<1> HIDE DEF S
<1>2. Cardinality(S) \in Nat
  BY <1>1, SharesAssumption, FS_Subset, FS_CardinalityType
<1> QED BY <1>2 DEF AccrualClock, S

LEMMA ReadsKeep ==
    ASSUME UnitsInv, NEW d \in Desks,
           \/ \E a \in Aums, u \in Investors : PostValuationReads(d, a, u)
           \/ \E s \in Subs : SubscribeReads(d, s)
           \/ \E i \in Issues : MintReads(d, i) \/ \E f \in BOOLEAN : RetireReads(d, i, f)
           \/ \E r \in Reds : RequestReads(d, r) \/ SettleReads(d, r)
           \/ \E p \in Payouts : SettleFeesReads(d, p)
           \/ \E k \in Dues : ChargeReads(d, k)
           \/ DeskGivesUp(d)
    PROVE  UnitsInv'
<1>0. DealingNav \in Nat \ {0}
  BY PricePositive DEF UnitsInv
<1>1. PICK nav : nav = DealingNav
  OBVIOUS
<1>2. nav \in Nat /\ nav > 0
  BY <1>0, <1>1
<1>a. CASE \E a \in Aums, u \in Investors : PostValuationReads(d, a, u)
  <2>1. PICK a \in Aums, u \in Investors : PostValuationReads(d, a, u)
    BY <1>a
  <2> DEFINE t == [at |-> "value", op |-> u, price |-> a, covered |-> FALSE]
  <2>2. t \in Desked /\ DeskFits(t)
    BY SharesAssumption DEF Desked, DeskFits
  <2>3. desk' = [desk EXCEPT ![d] = t] /\ product' = product
        /\ UNCHANGED <<invited, markVars, bookVars, rowVars, pos, clamped, marked, outbox>>
    BY <2>1 DEF PostValuationReads, registryVars
  <2> HIDE DEF t
  <2> QED BY <2>2, <2>3, DeskOnly
<1>b. CASE \E s \in Subs : SubscribeReads(d, s)
  <2>1. PICK s \in Subs : SubscribeReads(d, s)
    BY <1>b
  <2> DEFINE t == [at |-> "subscribe", op |-> s, price |-> nav, covered |-> TRUE]
  <2>2. t \in Desked /\ DeskFits(t)
    BY <1>1, <1>2, <2>1 DEF Desked, DeskFits, SubscribeReads
  <2>3. desk' = [desk EXCEPT ![d] = t] /\ product' = product
        /\ UNCHANGED <<invited, markVars, bookVars, rowVars, pos, clamped, marked, outbox>>
    BY <1>1, <2>1 DEF SubscribeReads, registryVars
  <2> HIDE DEF t
  <2> QED BY <2>2, <2>3, DeskOnly
<1>c. CASE \E i \in Issues : MintReads(d, i) \/ \E f \in BOOLEAN : RetireReads(d, i, f)
  <2>1. PICK i \in Issues : MintReads(d, i) \/ \E f \in BOOLEAN : RetireReads(d, i, f)
    BY <1>c
  <2> DEFINE t == [at |-> "issue", op |-> i, price |-> nav, covered |-> FALSE]
  <2>2. t \in Desked /\ DeskFits(t)
    BY <1>2 DEF Desked, DeskFits
  <2>3. /\ desk' = [desk EXCEPT ![d] = t]
        /\ product' = product \/ product' = [product EXCEPT !.backing = "in_kind"]
        /\ UNCHANGED <<invited, markVars, bookVars, rowVars, pos, clamped, marked, outbox>>
    BY <1>1, <2>1 DEF MintReads, RetireReads, registryVars
  <2> HIDE DEF t
  <2> QED BY <2>2, <2>3, DeskOnly
<1>d. CASE \E r \in Reds : RequestReads(d, r)
  <2>1. PICK r \in Reds : RequestReads(d, r)
    BY <1>d
  <2>0. PICK c \in BOOLEAN : c = (fund >= RedOf[r].units * DealingNav)
    <3>1. \A n, m \in Nat : (n >= m) \in BOOLEAN
      OBVIOUS
    <3>2. fund \in Nat /\ RedOf[r].units \in Nat /\ DealingNav \in Nat
      BY <1>0, SharesAssumption DEF UnitsInv, UnitsTypes
    <3>3. RedOf[r].units * DealingNav \in Nat
      BY <3>2
    <3> QED BY <3>1, <3>2, <3>3, Zenon
  <2> DEFINE t == [at |-> "request", op |-> r, price |-> nav, covered |-> c]
  <2>2. t \in Desked /\ DeskFits(t)
    BY <1>2, <2>0 DEF Desked, DeskFits
  <2>3. desk' = [desk EXCEPT ![d] = t] /\ product' = product
        /\ UNCHANGED <<invited, markVars, bookVars, rowVars, pos, clamped, marked, outbox>>
    BY <1>1, <2>0, <2>1 DEF RequestReads, registryVars
  <2> HIDE DEF t
  <2> QED BY <2>2, <2>3, DeskOnly
<1>e. CASE \E r \in Reds : SettleReads(d, r)
  <2>1. PICK r \in Reds : SettleReads(d, r)
    BY <1>e
  <2> DEFINE t == [at |-> "settle", op |-> r, price |-> nav, covered |-> FALSE]
  <2>2. t \in Desked /\ DeskFits(t)
    BY <1>2 DEF Desked, DeskFits
  <2>3. desk' = [desk EXCEPT ![d] = t] /\ product' = product
        /\ UNCHANGED <<invited, markVars, bookVars, rowVars, pos, clamped, marked, outbox>>
    BY <1>1, <2>1 DEF SettleReads, registryVars
  <2> HIDE DEF t
  <2> QED BY <2>2, <2>3, DeskOnly
<1>f. CASE \E p \in Payouts : SettleFeesReads(d, p)
  <2>1. PICK p \in Payouts : SettleFeesReads(d, p)
    BY <1>f
  <2> DEFINE t == [at |-> "fees", op |-> p, price |-> nav, covered |-> TRUE]
  <2>2. t \in Desked /\ DeskFits(t)
    BY <1>2 DEF Desked, DeskFits
  <2>3. desk' = [desk EXCEPT ![d] = t] /\ product' = product
        /\ UNCHANGED <<invited, markVars, bookVars, rowVars, pos, clamped, marked, outbox>>
    BY <1>1, <2>1 DEF SettleFeesReads, registryVars
  <2> HIDE DEF t
  <2> QED BY <2>2, <2>3, DeskOnly
<1>g. CASE DeskGivesUp(d)
  <2>1. desk' = [desk EXCEPT ![d] = Desk] /\ product' = product
        /\ UNCHANGED <<invited, markVars, bookVars, rowVars, pos, clamped, marked, outbox>>
    BY <1>g DEF DeskGivesUp, registryVars
  <2> QED BY <2>1, IdleDesk, DeskOnly
<1>h. CASE \E k \in Dues : ChargeReads(d, k)
  <2>1. PICK k \in Dues : ChargeReads(d, k)
    BY <1>h
  <2>0. PICK c \in Nat : c = AccrualClock(DueOf[k].user)
    BY ClockNat DEF UnitsInv
  <2> DEFINE t == [at |-> "charge", op |-> k, price |-> c, covered |-> FALSE]
  <2>2. t \in Desked /\ DeskFits(t)
    BY DEF Desked, DeskFits
  <2>3. desk' = [desk EXCEPT ![d] = t] /\ product' = product
        /\ UNCHANGED <<invited, markVars, bookVars, rowVars, pos, clamped, marked, outbox>>
    BY <2>0, <2>1 DEF ChargeReads, registryVars
  <2> HIDE DEF t
  <2> QED BY <2>2, <2>3, DeskOnly
<1> QED BY <1>a, <1>b, <1>c, <1>d, <1>e, <1>f, <1>g, <1>h

\* The registry row and the grants.
LEMMA RegistryKeeps ==
    ASSUME UnitsInv,
           \/ OpenProduct \/ CloseProduct
           \/ \E a \in AllocationAccesses : SetAccess(a)
           \/ \E c \in UnitCaps : SetUnitCap(c)
           \/ \E b \in {"cash", "in_kind"} : SetBacking(b)
           \/ \E u \in Investors : GrantAccess(u) \/ RevokeAccess(u)
    PROVE  UnitsInv'
<1> DEFINE P == [state : AllocationStates, access : AllocationAccesses,
                 cap : UnitCaps \cup {Max(UnitCaps)}, backing : {"cash", "in_kind"}]
<1>0. product \in P
  BY DEF UnitsInv, UnitsTypes
<1>1. product' \in P /\ UNCHANGED <<markVars, bookVars, rowVars, pos, clamped, marked, outbox, desk>>
  <2>1. CASE OpenProduct \/ CloseProduct
    BY <1>0, <2>1 DEF OpenProduct, CloseProduct, Transition, AllocationStates
  <2>2. CASE \E a \in AllocationAccesses : SetAccess(a)
    BY <1>0, <2>2 DEF SetAccess, Transition
  <2>3. CASE \E c \in UnitCaps : SetUnitCap(c)
    BY <1>0, <2>3 DEF SetUnitCap, Transition
  <2>4. CASE \E b \in {"cash", "in_kind"} : SetBacking(b)
    BY <1>0, <2>4 DEF SetBacking, Transition
  <2>5. CASE \E u \in Investors : GrantAccess(u) \/ RevokeAccess(u)
    BY <1>0, <2>5 DEF GrantAccess, RevokeAccess
  <2> QED BY <2>1, <2>2, <2>3, <2>4, <2>5
<1>2. UnitsTypes'
  BY <1>1 DEF UnitsInv, UnitsTypes, markVars, bookVars, rowVars
<1>3. DesksFit'
  BY <1>1 DEF UnitsInv, DesksFit
<1> HIDE DEF P
<1> QED BY <1>1, <1>2, <1>3, QuietStep DEF bookVars, rowVars

LEMMA MarksKeep ==
    ASSUME UnitsInv, MarkAges \/ FundTopUp \/ \E d \in Desks : RecordValuation(d)
    PROVE  UnitsInv'
<1>0. UnitsTypes /\ DesksFit
  BY DEF UnitsInv, DesksFit
<1>a. CASE MarkAges
  <2>1. UnitsTypes' /\ DesksFit'
    BY <1>0, <1>a DEF UnitsTypes, MarkAges, registryVars, bookVars, rowVars, DesksFit
  <2> QED BY <1>a, <2>1, QuietStep DEF MarkAges, bookVars, rowVars
<1>b. CASE FundTopUp
  <2>1. fund' \in Nat
    BY <1>b, SharesAssumption DEF FundTopUp
  <2>2. UnitsTypes' /\ DesksFit'
    BY <1>0, <1>b, <2>1 DEF UnitsTypes, FundTopUp, registryVars, markVars, rowVars, DesksFit
  <2> QED BY <1>b, <2>2, QuietStep DEF FundTopUp, rowVars
<1>c. ASSUME NEW d \in Desks, RecordValuation(d) PROVE UnitsInv'
  <2>1. desk' \in [Desks -> Desked] /\ DesksFit'
    <3>1. desk' = [desk EXCEPT ![d] = Desk]
      BY <1>c DEF RecordValuation
    <3> QED BY <3>1, IdleDesk, DesksStep
  <2>2. marks' \in Seq([nav : Nat \ {0}, by : Investors])
    <3>0. marks \in Seq([nav : Nat \ {0}, by : Investors]) /\ desk[d] \in Desked /\ DeskFits(desk[d])
      BY <1>0 DEF UnitsTypes, DesksFit
    <3>1. CASE marks' = marks
      BY <3>0, <3>1
    <3>2. CASE marks' # marks
      <4>1. PICK n, b : n = FromAum(desk[d].price, IssuedSupply) /\ b = desk[d].op
        OBVIOUS
      <4>2. IssuedSupply > 0 /\ n > 0 /\ marks' = Append(marks, [nav |-> n, by |-> b])
        BY <1>c, <3>2, <4>1 DEF RecordValuation
      <4>3. IssuedSupply \in Nat
        BY <1>0, SupplyNat
      <4>4. n \in Nat
        <5>1. desk[d].price \in Nat
          BY <3>0 DEF Desked
        <5> QED BY <4>1, <4>2, <4>3, <5>1, DivNat DEF FromAum
      <4>5. b \in Investors
        BY <1>c, <3>0, <4>1 DEF RecordValuation, DeskFits
      <4> DEFINE S == [nav : Nat \ {0}, by : Investors]
      <4>6. [nav |-> n, by |-> b] \in S
        BY <4>2, <4>4, <4>5
      <4> HIDE DEF S
      <4>7. marks \in Seq(S)
        BY <3>0 DEF S
      <4>8. marks' \in Seq(S)
        BY <4>2, <4>6, <4>7
      <4> QED BY <4>8 DEF S
    <3> QED BY <3>1, <3>2
  <2>3. UnitsTypes'
    BY <1>0, <1>c, <2>1, <2>2 DEF UnitsTypes, RecordValuation, registryVars, bookVars, rowVars
  <2> QED BY <1>c, <2>1, <2>3, QuietStep DEF RecordValuation, bookVars, rowVars
<1> QED BY <1>a, <1>b, <1>c

-----------------------------------------------------------------------------
(***************************************************************************)
(* Shares: rows and their events.                                          *)
(***************************************************************************)
LEMMA EventIs ==
    ASSUME NEW e \in Events
    PROVE  /\ e.kind \in {"subscribed", "issued", "charged", "fees_settled"} \cup OfRed
           /\ e.kind = "subscribed" => e.id \in Subs
           /\ e.kind = "issued" => e.id \in Issues
           /\ e.kind \in OfRed => e.id \in Reds
           /\ e.kind = "charged" => e.id \in Dues
           /\ e.kind = "fees_settled" => e.id \in Payouts
           /\ e.st \in Stamps
BY DEF Events, OfRed

\* No row that changed changes back, nothing done is undone.
Grows ==
    /\ \A s \in Subs : bought[s] > 0 => bought'[s] > 0
    /\ \A i \in Issues : issued[i] # "none" => issued'[i] # "none"
    /\ \A r \in Reds : /\ red[r] # "none" => red'[r] # "none"
                       /\ red[r] \in {"completed", "failed", "cancelled"} => red'[r] = red[r]
    /\ dueRow \subseteq dueRow' /\ legsDone \subseteq legsDone' /\ marked \subseteq marked'

LEMMA EventKept == ASSUME Grows, NEW e \in Events, EventFits(e) PROVE EventFits(e)'
<1>1. /\ e.kind = "subscribed" => bought'[e.id] > 0
      /\ e.kind = "issued" => issued'[e.id] # "none"
      /\ e.kind = "charged" => e.id \in dueRow'
  BY EventIs DEF Grows, EventFits
<1>2. /\ e.kind = "requested" => red'[e.id] # "none"
      /\ e.kind = "settled" => red'[e.id] = "completed"
      /\ e.kind \in {"failed", "cancelled"} => red'[e.id] = e.kind
  BY EventIs DEF Grows, EventFits, OfRed
<1>3. e.st = "done" => /\ \A k \in DOMAIN PlanShares(e) : <<e.id, PlanShares(e)[k]>> \in legsDone'
                       /\ e.kind \in {"subscribed", "issued"} => e.id \in marked'
  BY DEF Grows, EventFits
<1> QED BY <1>1, <1>2, <1>3 DEF EventFits

LEMMA OutboxIs ==
    ASSUME UnitsTypes
    PROVE  outbox \in Seq(Events) /\ \A j \in DOMAIN outbox : outbox[j] \in Events
<1>1. outbox \in Seq(Events)
  BY DEF UnitsTypes
<1> HIDE DEF Events
<1> QED BY <1>1

LEMMA Appended ==
    ASSUME UnitsInv, Grows, NEW e \in Events, EventFits(e)', outbox' = Append(outbox, e)
    PROVE  /\ outbox' \in Seq(Events) /\ EventsFit'
           /\ \A kind, id : Told(kind, id) => Told(kind, id)'
           /\ Told(e.kind, e.id)'
<1>0. outbox \in Seq(Events) /\ \A j \in DOMAIN outbox : outbox[j] \in Events /\ EventFits(outbox[j])
  BY OutboxIs DEF UnitsInv
<1> HIDE DEF Events
<1>1. /\ outbox' \in Seq(Events) /\ DOMAIN outbox' = 1..(Len(outbox) + 1)
      /\ \A j \in DOMAIN outbox : j \in DOMAIN outbox' /\ outbox'[j] = outbox[j]
      /\ Len(outbox) + 1 \in DOMAIN outbox' /\ outbox'[Len(outbox) + 1] = e
      /\ \A j \in DOMAIN outbox' : j \in DOMAIN outbox \/ j = Len(outbox) + 1
  BY <1>0
<1>2. EventsFit'
  <2>1. ASSUME NEW j \in DOMAIN outbox' PROVE EventFits(outbox[j])'
    <3>1. PICK f : f = outbox'[j]
      OBVIOUS
    <3>2. EventFits(f)'
      <4>1. CASE j \in DOMAIN outbox
        BY <1>0, <1>1, <3>1, <4>1, EventKept
      <4>2. CASE j = Len(outbox) + 1
        BY <1>1, <3>1, <4>2
      <4> QED BY <1>1, <2>1, <4>1, <4>2
    <3> QED BY <3>1, <3>2
  <2> QED BY <2>1 DEF EventsFit
<1>3. \A kind, id : Told(kind, id) => Told(kind, id)'
  BY <1>1 DEF Told
<1>4. Told(e.kind, e.id)'
  BY <1>1 DEF Told
<1> QED BY <1>1, <1>2, <1>3, <1>4

\* A stamp that claims nothing, or what is done.
LEMMA Stamped ==
    ASSUME UnitsInv, Grows, NEW i \in DOMAIN outbox, NEW st \in Stamps, StampEvent(i, st),
           st = "done" => /\ \A k \in DOMAIN PlanShares(outbox[i]) :
                                  <<outbox[i].id, PlanShares(outbox[i])[k]>> \in legsDone'
                          /\ outbox[i].kind \in {"subscribed", "issued"} => outbox[i].id \in marked'
    PROVE  /\ outbox' \in Seq(Events) /\ EventsFit'
           /\ \A kind, id : Told(kind, id) <=> Told(kind, id)'
<1>0. outbox \in Seq(Events) /\ \A j \in DOMAIN outbox : outbox[j] \in Events /\ EventFits(outbox[j])
  BY OutboxIs DEF UnitsInv
<1>a. PICK e : e = outbox[i]
  OBVIOUS
<1> DEFINE f == [e EXCEPT !.st = st]
<1>1. e \in Events /\ EventFits(e)
  BY <1>0, <1>a
<1>2. f \in Events /\ f.kind = e.kind /\ f.id = e.id /\ f.st = st
  BY <1>1 DEF Events
<1>3. PlanShares(f) = PlanShares(e)
  BY <1>2 DEF PlanShares
<1>4. EventFits(f)'
  <2>1. EventFits(e)'
    BY <1>1, EventKept
  <2>2. st = "done" => /\ \A k \in DOMAIN PlanShares(e) : <<e.id, PlanShares(e)[k]>> \in legsDone'
                       /\ e.kind \in {"subscribed", "issued"} => e.id \in marked'
    BY <1>a
  <2> HIDE DEF f
  <2> QED BY <1>2, <1>3, <2>1, <2>2 DEF EventFits
<1> HIDE DEF Events
<1>5. outbox' = [outbox EXCEPT ![i] = f]
  BY <1>a DEF StampEvent
<1> HIDE DEF f
<1>6. outbox' \in Seq(Events) /\ DOMAIN outbox' = DOMAIN outbox /\ outbox'[i] = f
      /\ \A j \in DOMAIN outbox : j # i => outbox'[j] = outbox[j]
  BY <1>0, <1>2, <1>5
<1>7. EventsFit'
  <2>1. ASSUME NEW j \in DOMAIN outbox' PROVE EventFits(outbox[j])'
    <3>1. PICK g : g = outbox'[j]
      OBVIOUS
    <3>2. EventFits(g)'
      <4>1. CASE j # i
        BY <1>0, <1>6, <3>1, <4>1, EventKept
      <4>2. CASE j = i
        BY <1>4, <1>6, <3>1, <4>2
      <4> QED BY <4>1, <4>2
    <3> QED BY <3>1, <3>2
  <2> QED BY <2>1 DEF EventsFit
<1>8. \A kind, id : Told(kind, id) <=> Told(kind, id)'
  BY <1>2, <1>6, <1>a DEF Told
<1> QED BY <1>6, <1>7, <1>8

LEMMA LegsFrame ==
    ASSUME UnitsInv, Grows, UNCHANGED <<burn, legsDone, marked>>
    PROVE  LegsFit'
<1>1. LegsFit
  BY DEF UnitsInv
<1>2. ASSUME NEW s \in Subs PROVE SubLegs(s)' /\ (s \in marked' => <<s, "mint">> \in legsDone')
  BY <1>1 DEF LegsFit, SubLegs, Grows
<1>3. ASSUME NEW i \in Issues
      PROVE  IssueLegs(i)' /\ (i \in marked' => <<i, "issue">> \in legsDone' \/ <<i, "retire">> \in legsDone')
  BY <1>1 DEF LegsFit, IssueLegs, Grows
<1>4. ASSUME NEW r \in Reds PROVE RedLegs(r)'
  <2>1. RedLegs(r)
    BY <1>1 DEF LegsFit
  <2>2. red[r] \in {"completed", "failed", "cancelled"} => red'[r] = red[r]
    BY DEF Grows
  <2> QED BY <2>1, <2>2 DEF RedLegs
<1>5. ASSUME NEW k \in Dues PROVE DueLegs(k)'
  BY <1>1 DEF LegsFit, DueLegs, Grows
<1> QED BY <1>2, <1>3, <1>4, <1>5 DEF LegsFit

LEMMA CoverFrame ==
    ASSUME UnitsInv, UNCHANGED <<units, burn>> PROVE \A u \in Investors : UnitsCover(u)'
<1>1. ASSUME NEW u \in Investors PROVE UnitsCover(u)'
  <2>1. UnitsCover(u)
    BY DEF UnitsInv
  <2> QED BY <2>1 DEF UnitsCover
<1> QED BY <1>1

LEMMA BasisFrame ==
    ASSUME UnitsInv, UNCHANGED <<pos, clamped, marked, dueRow>> PROVE \A u \in Investors : BasisFits(u)'
<1>1. ASSUME NEW u \in Investors PROVE BasisFits(u)'
  <2>1. BasisFits(u)
    BY DEF UnitsInv
  <2> QED BY <2>1 DEF BasisFits
<1> QED BY <1>1

\* Stamps alone.
LEMMA ParksKeep ==
    ASSUME UnitsInv,
           \E i \in DOMAIN outbox : RelayParks(i) \/ UnparkEvent(i)
    PROVE  UnitsInv'
<1>1. PICK i \in DOMAIN outbox : RelayParks(i) \/ UnparkEvent(i)
  OBVIOUS
<1>2. PICK st \in {"parked", "queued"} : StampEvent(i, st)
  BY <1>1 DEF RelayParks, UnparkEvent
<1>3. UNCHANGED <<registryVars, markVars, bookVars, rowVars, pos, clamped, marked, desk>>
  BY <1>1 DEF RelayParks, UnparkEvent
<1>4. Grows
  BY <1>3 DEF Grows, bookVars, rowVars
<1>5. outbox' \in Seq(Events) /\ EventsFit' /\ \A kind, id : Told(kind, id) <=> Told(kind, id)'
  <2>1. st \in Stamps /\ st # "done"
    BY DEF Stamps
  <2> QED BY <1>2, <1>4, <2>1, Stamped
<1>6. UnitsTypes' /\ DesksFit'
  BY <1>3, <1>5 DEF UnitsInv, UnitsTypes, registryVars, markVars, bookVars, rowVars, DesksFit
<1>7. RowsTold' /\ KeyIssuesOnce'
  BY <1>3, <1>5 DEF UnitsInv, RowsTold, KeyIssuesOnce, rowVars
<1>8. LegsFit'
  BY <1>3, <1>4, LegsFrame DEF bookVars
<1>9. \A u \in Investors : UnitsCover(u)' /\ BasisFits(u)' /\ GapFits(u)'
  BY <1>3, HoldersFrame DEF bookVars, rowVars
<1> QED BY <1>5, <1>6, <1>7, <1>8, <1>9 DEF UnitsInv, DesksFit, EventsFit

-----------------------------------------------------------------------------
(***************************************************************************)
(* Shares: what moves a projection against the ledger.                     *)
(***************************************************************************)
LEMMA WeightsInt ==
    /\ \A m, l : \A b \in [Subs -> Nat], s \in Subs : SubWeight(m, l, b, s) \in Int
    /\ \A m, l : \A i \in Issues : IssueWeight(m, l, i) \in Int
    /\ \A x, b : \A r \in Reds : RedWeight(x, b, r) \in Int
    /\ \A x, l : \A k \in Dues : DueWeight(x, l, k) \in Int
<1>1. \A m, l : \A b \in [Subs -> Nat], s \in Subs : SubWeight(m, l, b, s) \in Int
  BY DEF SubWeight, Chosen
<1>2. \A m, l : \A i \in Issues : IssueWeight(m, l, i) \in Int
  BY SharesAssumption DEF IssueWeight, Chosen
<1>3. \A x, b : \A r \in Reds : RedWeight(x, b, r) \in Int
  BY SharesAssumption DEF RedWeight, Chosen
<1>4. \A x, l : \A k \in Dues : DueWeight(x, l, k) \in Int
  BY SharesAssumption DEF DueWeight, Chosen
<1> QED BY <1>1, <1>2, <1>3, <1>4

LEMMA GapsInt ==
    /\ \A m, l, u : \A b \in [Subs -> Nat] :
           (\A s \in Subs : SubGap(m, l, b, u)[s] \in Int) /\ SumOver(SubGap(m, l, b, u), Subs) \in Int
    /\ \A m, l, u : (\A i \in Issues : IssueGap(m, l, u)[i] \in Int) /\ SumOver(IssueGap(m, l, u), Issues) \in Int
    /\ \A x, b, u : (\A r \in Reds : RedGap(x, b, u)[r] \in Int) /\ SumOver(RedGap(x, b, u), Reds) \in Int
    /\ \A x, l, u : (\A k \in Dues : DueGap(x, l, u)[k] \in Int) /\ SumOver(DueGap(x, l, u), Dues) \in Int
<1>0. IsFiniteSet(Subs) /\ IsFiniteSet(Issues) /\ IsFiniteSet(Reds) /\ IsFiniteSet(Dues)
  BY SharesAssumption
<1>1. ASSUME NEW m, NEW l, NEW u, NEW b \in [Subs -> Nat]
      PROVE  (\A s \in Subs : SubGap(m, l, b, u)[s] \in Int) /\ SumOver(SubGap(m, l, b, u), Subs) \in Int
  <2>1. \A s \in Subs : SubGap(m, l, b, u)[s] \in Int
    BY WeightsInt DEF SubGap, At
  <2> QED BY <1>0, <2>1, SumInt
<1>2. ASSUME NEW m, NEW l, NEW u
      PROVE  (\A i \in Issues : IssueGap(m, l, u)[i] \in Int) /\ SumOver(IssueGap(m, l, u), Issues) \in Int
  <2>1. \A i \in Issues : IssueGap(m, l, u)[i] \in Int
    BY WeightsInt DEF IssueGap, At
  <2> QED BY <1>0, <2>1, SumInt
<1>3. ASSUME NEW x, NEW b, NEW u
      PROVE  (\A r \in Reds : RedGap(x, b, u)[r] \in Int) /\ SumOver(RedGap(x, b, u), Reds) \in Int
  <2>1. \A r \in Reds : RedGap(x, b, u)[r] \in Int
    BY WeightsInt DEF RedGap, At
  <2> QED BY <1>0, <2>1, SumInt
<1>4. ASSUME NEW x, NEW l, NEW u
      PROVE  (\A k \in Dues : DueGap(x, l, u)[k] \in Int) /\ SumOver(DueGap(x, l, u), Dues) \in Int
  <2>1. \A k \in Dues : DueGap(x, l, u)[k] \in Int
    BY WeightsInt DEF DueGap, At
  <2> QED BY <1>0, <2>1, SumInt
<1> QED BY <1>1, <1>2, <1>3, <1>4

\* One row's weight moves the sum by as much, for its own user.
LEMMA SubMoves ==
    ASSUME NEW u, NEW m, NEW l, NEW b \in [Subs -> Nat], NEW m2, NEW l2, NEW y \in Subs,
           \A s \in Subs \ {y} : (s \in m <=> s \in m2) /\ (<<s, "mint">> \in l <=> <<s, "mint">> \in l2)
    PROVE  SumOver(SubGap(m2, l2, b, u), Subs)
             = SumOver(SubGap(m, l, b, u), Subs) + At(SubOf[y].user, u, SubWeight(m2, l2, b, y) - SubWeight(m, l, b, y))
<1> DEFINE f == SubGap(m, l, b, u)
           g == SubGap(m2, l2, b, u)
<1>1. \A z \in Subs : f[z] \in Int /\ g[z] \in Int
  BY GapsInt
<1>2. \A z \in Subs \ {y} : f[z] = g[z]
  <2>1. \A z \in Subs \ {y} : SubWeight(m, l, b, z) = SubWeight(m2, l2, b, z)
    BY DEF SubWeight, Chosen
  <2> QED BY <2>1 DEF SubGap
<1>3. IsFiniteSet(Subs) /\ y \in Subs
  BY SharesAssumption
<1>4. SubWeight(m, l, b, y) \in Int /\ SubWeight(m2, l2, b, y) \in Int
  BY WeightsInt
<1>5. g[y] - f[y] = At(SubOf[y].user, u, SubWeight(m2, l2, b, y) - SubWeight(m, l, b, y))
  BY <1>4 DEF SubGap, At
<1> HIDE DEF f, g
<1>6. SumOver(g, Subs) = SumOver(f, Subs) + (g[y] - f[y])
  BY ONLY <1>1, <1>2, <1>3, SumUpdate, SMTT(30)
<1> QED BY <1>5, <1>6 DEF f, g

LEMMA IssueMoves ==
    ASSUME NEW u, NEW m, NEW l, NEW m2, NEW l2, NEW y \in Issues,
           \A i \in Issues \ {y} : /\ (i \in m <=> i \in m2)
                                   /\ (<<i, "issue">> \in l <=> <<i, "issue">> \in l2)
                                   /\ (<<i, "retire">> \in l <=> <<i, "retire">> \in l2)
    PROVE  SumOver(IssueGap(m2, l2, u), Issues)
             = SumOver(IssueGap(m, l, u), Issues) + At(IssueOf[y].user, u, IssueWeight(m2, l2, y) - IssueWeight(m, l, y))
<1> DEFINE f == IssueGap(m, l, u)
           g == IssueGap(m2, l2, u)
<1>1. \A z \in Issues : f[z] \in Int /\ g[z] \in Int
  BY GapsInt
<1>2. \A z \in Issues \ {y} : f[z] = g[z]
  <2>1. ASSUME NEW z \in Issues \ {y} PROVE IssueWeight(m, l, z) = IssueWeight(m2, l2, z)
    <3>1. (z \in m <=> z \in m2) /\ (<<z, "issue">> \in l <=> <<z, "issue">> \in l2)
          /\ (<<z, "retire">> \in l <=> <<z, "retire">> \in l2)
      OBVIOUS
    <3> QED BY <3>1 DEF IssueWeight, Chosen
  <2> QED BY <2>1 DEF IssueGap
<1>3. IsFiniteSet(Issues) /\ y \in Issues
  BY SharesAssumption
<1>4. IssueWeight(m, l, y) \in Int /\ IssueWeight(m2, l2, y) \in Int
  BY WeightsInt
<1>5. g[y] - f[y] = At(IssueOf[y].user, u, IssueWeight(m2, l2, y) - IssueWeight(m, l, y))
  BY <1>4 DEF IssueGap, At
<1> HIDE DEF f, g
<1>6. SumOver(g, Issues) = SumOver(f, Issues) + (g[y] - f[y])
  BY ONLY <1>1, <1>2, <1>3, SumUpdate, SMTT(30)
<1> QED BY <1>5, <1>6 DEF f, g

LEMMA RedMoves ==
    ASSUME NEW u, NEW x, NEW b, NEW x2, NEW b2, NEW y \in Reds,
           \A r \in Reds \ {y} : x[r] = x2[r] /\ b[r] = b2[r]
    PROVE  SumOver(RedGap(x2, b2, u), Reds)
             = SumOver(RedGap(x, b, u), Reds) + At(RedOf[y].user, u, RedWeight(x2, b2, y) - RedWeight(x, b, y))
<1> DEFINE f == RedGap(x, b, u)
           g == RedGap(x2, b2, u)
<1>1. \A z \in Reds : f[z] \in Int /\ g[z] \in Int
  BY GapsInt
<1>2. \A z \in Reds \ {y} : f[z] = g[z]
  <2>1. \A z \in Reds \ {y} : RedWeight(x, b, z) = RedWeight(x2, b2, z)
    BY DEF RedWeight, Chosen
  <2> QED BY <2>1 DEF RedGap
<1>3. IsFiniteSet(Reds) /\ y \in Reds
  BY SharesAssumption
<1>4. RedWeight(x, b, y) \in Int /\ RedWeight(x2, b2, y) \in Int
  BY WeightsInt
<1>5. g[y] - f[y] = At(RedOf[y].user, u, RedWeight(x2, b2, y) - RedWeight(x, b, y))
  BY <1>4 DEF RedGap, At
<1> HIDE DEF f, g
<1>6. SumOver(g, Reds) = SumOver(f, Reds) + (g[y] - f[y])
  BY ONLY <1>1, <1>2, <1>3, SumUpdate, SMTT(30)
<1> QED BY <1>5, <1>6 DEF f, g

LEMMA DueMoves ==
    ASSUME NEW u, NEW x, NEW l, NEW x2, NEW l2, NEW y \in Dues,
           \A k \in Dues \ {y} : (k \in x <=> k \in x2) /\ (<<k, "clawback">> \in l <=> <<k, "clawback">> \in l2)
    PROVE  SumOver(DueGap(x2, l2, u), Dues)
             = SumOver(DueGap(x, l, u), Dues) + At(DueOf[y].user, u, DueWeight(x2, l2, y) - DueWeight(x, l, y))
<1> DEFINE f == DueGap(x, l, u)
           g == DueGap(x2, l2, u)
<1>1. \A z \in Dues : f[z] \in Int /\ g[z] \in Int
  BY GapsInt
<1>2. \A z \in Dues \ {y} : f[z] = g[z]
  <2>1. \A z \in Dues \ {y} : DueWeight(x, l, z) = DueWeight(x2, l2, z)
    BY DEF DueWeight, Chosen
  <2> QED BY <2>1 DEF DueGap
<1>3. IsFiniteSet(Dues) /\ y \in Dues
  BY SharesAssumption
<1>4. DueWeight(x, l, y) \in Int /\ DueWeight(x2, l2, y) \in Int
  BY WeightsInt
<1>5. g[y] - f[y] = At(DueOf[y].user, u, DueWeight(x2, l2, y) - DueWeight(x, l, y))
  BY <1>4 DEF DueGap, At
<1> HIDE DEF f, g
<1>6. SumOver(g, Dues) = SumOver(f, Dues) + (g[y] - f[y])
  BY ONLY <1>1, <1>2, <1>3, SumUpdate, SMTT(30)
<1> QED BY <1>5, <1>6 DEF f, g

\* A projection keeps its distance when what is ahead of the ledger moves with it.
AheadBy(m, l, b, x, bn, dr, u) ==
    SumOver(SubGap(m, l, b, u), Subs) + SumOver(IssueGap(m, l, u), Issues)
    + SumOver(RedGap(x, bn, u), Reds) + SumOver(DueGap(dr, l, u), Dues)

LEMMA AheadIs ==
    \A u : /\ Ahead(u) = AheadBy(marked, legsDone, bought, red, burn, dueRow, u)
           /\ Ahead(u)' = AheadBy(marked', legsDone', bought', red', burn', dueRow', u)
BY DEF Ahead, AheadBy

LEMMA AheadInt == UnitsTypes => \A u : Ahead(u) \in Int
<1> SUFFICES ASSUME UnitsTypes, NEW u PROVE Ahead(u) \in Int
  OBVIOUS
<1>1. /\ SumOver(SubGap(marked, legsDone, bought, u), Subs) \in Int
      /\ SumOver(IssueGap(marked, legsDone, u), Issues) \in Int
      /\ SumOver(DueGap(dueRow, legsDone, u), Dues) \in Int
  BY GapsInt DEF UnitsTypes
<1>2. SumOver(RedGap(red, burn, u), Reds) \in Int
  BY GapsInt DEF UnitsTypes
<1> QED BY <1>1, <1>2 DEF Ahead

LEMMA PosIs ==
    ASSUME UnitsTypes, NEW u \in Investors
    PROVE  pos[u].units \in Nat /\ pos[u].basis \in Nat /\ pos[u] = [units |-> pos[u].units, basis |-> pos[u].basis]
<1>1. pos[u] \in [units : Nat, basis : Nat]
  BY DEF UnitsTypes
<1> QED BY <1>1

LEMMA GapStep ==
    ASSUME UnitsInv, UnitsTypes', NEW u \in Investors, NEW n \in Int, NEW k \in Int,
           Ahead(u)' = Ahead(u) + n, units'[u] = units[u] + (k - n),
           pos'[u].units >= pos[u].units + k, clamped \subseteq clamped',
           u \notin clamped' => pos'[u].units = pos[u].units + k
    PROVE  GapFits(u)'
<1>1. GapFits(u) /\ Ahead(u) \in Int /\ pos[u].units \in Nat /\ units[u] \in Nat /\ pos'[u].units \in Nat
  <2>1. UnitsTypes /\ GapFits(u)
    BY DEF UnitsInv
  <2>2. pos[u] \in [units : Nat, basis : Nat] /\ units[u] \in Nat
    BY <2>1 DEF UnitsTypes
  <2>3. pos'[u] \in [units : Nat, basis : Nat]
    BY DEF UnitsTypes
  <2> QED BY <2>1, <2>2, <2>3, AheadInt
<1>2. PICK a, b, p, q : a = Ahead(u) /\ b = Ahead(u)' /\ p = pos[u].units /\ q = pos'[u].units
  OBVIOUS
<1>3. b = a + n /\ a \in Int /\ p \in Nat /\ q \in Nat /\ units[u] \in Nat /\ units'[u] = units[u] + (k - n) /\ q >= p + k
  BY <1>1, <1>2
<1>4. q >= units'[u] + b
  <2>1. p >= units[u] + a
    BY <1>1, <1>2 DEF GapFits
  <2> QED BY <1>3, <2>1
<1>5. u \notin clamped' => q = units'[u] + b
  <2>1. SUFFICES ASSUME u \notin clamped' PROVE q = units'[u] + b
    OBVIOUS
  <2>2. p = units[u] + a /\ q = p + k
    BY <1>1, <1>2, <2>1 DEF GapFits
  <2> QED BY <1>3, <2>2
<1> QED BY <1>2, <1>4, <1>5 DEF GapFits

LEMMA GapMoves ==
    ASSUME UnitsInv, UnitsTypes', NEW u \in Investors, NEW n \in Int, NEW k \in Int,
           Ahead(u)' = Ahead(u) + n, units'[u] = units[u] + (k - n),
           pos'[u].units = pos[u].units + k, clamped' = clamped
    PROVE  GapFits(u)'
<1>1. pos[u].units \in Nat
  BY PosIs DEF UnitsInv
<1>2. pos'[u].units >= pos[u].units + k
  BY <1>1
<1> QED BY <1>2, GapStep

LEMMA GapSame ==
    ASSUME UnitsInv, UnitsTypes', NEW u \in Investors,
           Ahead(u)' = Ahead(u), pos'[u].units = pos[u].units, units'[u] = units[u], clamped' = clamped
    PROVE  GapFits(u)'
<1>1. GapFits(u)
  BY DEF UnitsInv
<1> QED BY <1>1 DEF GapFits

-----------------------------------------------------------------------------
(***************************************************************************)
(* Shares: requests that are recorded.                                     *)
(***************************************************************************)
LEMMA InvFrom ==
    ASSUME UnitsTypes', DesksFit', RowsTold', EventsFit', LegsFit', KeyIssuesOnce',
           \A u \in Investors : UnitsCover(u)' /\ BasisFits(u)' /\ GapFits(u)'
    PROVE  UnitsInv'
BY DEF UnitsInv, DesksFit, EventsFit

LEMMA DeskIs ==
    ASSUME UnitsInv, NEW d \in Desks PROVE desk[d] \in Desked /\ DeskFits(desk[d])
BY DEF UnitsInv, UnitsTypes

\* A request that finds its row taken leaves only its register.
LEMMA NothingRecorded ==
    ASSUME UnitsInv, NEW d \in Desks, desk' = [desk EXCEPT ![d] = Desk],
           UNCHANGED <<registryVars, markVars, bookVars, rowVars, pos, clamped, marked, outbox>>
    PROVE  UnitsInv'
BY IdleDesk, DeskOnly DEF registryVars

LEMMA OpenSubscriptionKeeps ==
    ASSUME UnitsInv, NEW d \in Desks, OpenSubscription(d)
    PROVE  UnitsInv'
<1>a. PICK s, n : s = desk[d].op /\ n = FromCash(SubOf[desk[d].op].cash, desk[d].price)
  OBVIOUS
<1>0. s \in Subs /\ n \in Nat /\ n > 0 /\ desk' = [desk EXCEPT ![d] = Desk]
  <2>1. s \in Subs /\ n > 0 /\ desk[d].price > 0 /\ desk[d].price \in Nat
    BY <1>a, DeskIs DEF OpenSubscription, DeskFits, Desked
  <2>2. n \in Nat
    BY <1>a, <2>1, DivNat, SharesAssumption DEF FromCash
  <2> QED BY <2>1, <2>2 DEF OpenSubscription
<1>1. CASE UNCHANGED <<bought, outbox>>
  <2>1. UNCHANGED <<registryVars, markVars, bookVars, rowVars, pos, clamped, marked, outbox>>
    BY <1>1 DEF OpenSubscription, rowVars
  <2> QED BY <1>0, <2>1, NothingRecorded
<1>2. CASE ~ UNCHANGED <<bought, outbox>>
  <2> DEFINE e == [kind |-> "subscribed", id |-> s, st |-> "queued"]
  <2>1. /\ bought[s] = 0 /\ bought' = [bought EXCEPT ![s] = n] /\ outbox' = Append(outbox, e)
        /\ UNCHANGED <<registryVars, markVars, bookVars, red, redCash, issued, dueRow, paidFees, pos, clamped, marked>>
    BY <1>2, <1>a DEF OpenSubscription, Append1
  <2>0. UnitsTypes
    BY DEF UnitsInv
  <2>2. bought' \in [Subs -> Nat] /\ bought'[s] = n /\ \A x \in Subs : x # s => bought'[x] = bought[x]
    BY <1>0, <2>0, <2>1 DEF UnitsTypes
  <2>3. Grows
    BY <1>0, <2>1, <2>2 DEF Grows, bookVars
  <2>4. e \in Events /\ EventFits(e)'
    BY <1>0, <2>2 DEF Events, Stamps, EventFits
  <2>5. /\ outbox' \in Seq(Events) /\ EventsFit' /\ \A kind, id : Told(kind, id) => Told(kind, id)'
        /\ Told("subscribed", s)'
    <3>1. e.kind = "subscribed" /\ e.id = s
      OBVIOUS
    <3> HIDE DEF e
    <3>2. /\ outbox' \in Seq(Events) /\ EventsFit' /\ \A kind, id : Told(kind, id) => Told(kind, id)'
          /\ Told(e.kind, e.id)'
      BY <2>1, <2>3, <2>4, Appended
    <3> QED BY <3>1, <3>2
  <2>6. desk' \in [Desks -> Desked] /\ DesksFit'
    BY <1>0, IdleDesk, DesksStep
  <2>7. UnitsTypes'
    BY <2>0, <2>1, <2>2, <2>5, <2>6 DEF UnitsTypes, registryVars, markVars, bookVars
  <2>8. RowsTold'
    BY <2>1, <2>2, <2>5 DEF UnitsInv, RowsTold
  <2>9. LegsFit' /\ KeyIssuesOnce'
    <3>1. LegsFit'
      BY <2>1, <2>3, LegsFrame DEF bookVars
    <3> QED BY <2>1, <3>1 DEF UnitsInv, KeyIssuesOnce
  <2>10. \A u \in Investors : UnitsCover(u)' /\ BasisFits(u)'
    BY <2>1, CoverFrame, BasisFrame DEF bookVars
  <2>11. ASSUME NEW u \in Investors PROVE GapFits(u)'
    <3>1. s \notin marked /\ <<s, "mint">> \notin legsDone
      <4>1. SubLegs(s) /\ (s \in marked => <<s, "mint">> \in legsDone)
        BY <1>0 DEF UnitsInv, LegsFit
      <4>2. ~ (bought[s] > 0)
        BY <2>1
      <4> QED BY <4>1, <4>2 DEF SubLegs
    <3>2. SubGap(marked, legsDone, bought', u) = SubGap(marked, legsDone, bought, u)
      BY <2>2, <3>1 DEF SubGap, SubWeight, Chosen
    <3>3. Ahead(u)' = Ahead(u)
      BY <2>1, <3>2, AheadIs DEF AheadBy, bookVars
    <3> QED BY <2>1, <2>7, <3>3, GapSame DEF bookVars
  <2> QED BY <2>5, <2>6, <2>7, <2>8, <2>9, <2>10, <2>11, InvFrom
<1> QED BY <1>1, <1>2

LEMMA IssueKeeps ==
    ASSUME UnitsInv, NEW d \in Desks, Issue(d)
    PROVE  UnitsInv'
<1>a. PICK i : i = desk[d].op
  OBVIOUS
<1>0. i \in Issues /\ desk' = [desk EXCEPT ![d] = Desk]
  BY <1>a, DeskIs DEF Issue, DeskFits
<1>1. CASE ~ InsertUnderKey(i)
  <2>1. UNCHANGED <<registryVars, markVars, bookVars, rowVars, pos, clamped, marked, outbox>>
    BY <1>1, <1>a DEF Issue, rowVars
  <2> QED BY <1>0, <2>1, NothingRecorded
<1>2. CASE InsertUnderKey(i)
  <2> DEFINE e == [kind |-> "issued", id |-> i, st |-> "queued"]
  <2>1. /\ issued' = [issued EXCEPT ![i] = "queued"] /\ outbox' = Append(outbox, e)
        /\ UNCHANGED <<registryVars, markVars, bookVars, bought, red, redCash, dueRow, paidFees, pos, clamped, marked>>
    BY <1>2, <1>a DEF Issue, Append1
  <2>0. UnitsTypes
    BY DEF UnitsInv
  <2>2. /\ issued' \in [Issues -> {"none", "queued", "applied"}] /\ issued'[i] = "queued"
        /\ \A x \in Issues : x # i => issued'[x] = issued[x]
    BY <1>0, <2>0, <2>1 DEF UnitsTypes
  <2>3. Grows
    BY <1>0, <2>1, <2>2 DEF Grows, bookVars
  <2>4. e \in Events /\ EventFits(e)'
    BY <1>0, <2>2 DEF Events, Stamps, EventFits
  <2>5. /\ outbox' \in Seq(Events) /\ EventsFit' /\ \A kind, id : Told(kind, id) => Told(kind, id)'
        /\ Told("issued", i)'
    <3>1. e.kind = "issued" /\ e.id = i
      OBVIOUS
    <3> HIDE DEF e
    <3>2. /\ outbox' \in Seq(Events) /\ EventsFit' /\ \A kind, id : Told(kind, id) => Told(kind, id)'
          /\ Told(e.kind, e.id)'
      BY <2>1, <2>3, <2>4, Appended
    <3> QED BY <3>1, <3>2
  <2>6. desk' \in [Desks -> Desked] /\ DesksFit'
    BY <1>0, IdleDesk, DesksStep
  <2>7. UnitsTypes'
    BY <2>0, <2>1, <2>2, <2>5, <2>6 DEF UnitsTypes, registryVars, markVars, bookVars
  <2>8. RowsTold'
    BY <2>1, <2>2, <2>5 DEF UnitsInv, RowsTold
  <2>9. LegsFit'
    BY <2>1, <2>3, LegsFrame DEF bookVars
  <2>10. KeyIssuesOnce'
    <3>1. \A j \in Issues : IssueOf[j].key = IssueOf[i].key => issued[j] = "none"
      BY <1>2 DEF InsertUnderKey, FindByKey
    <3> QED BY <2>2, <3>1 DEF UnitsInv, KeyIssuesOnce
  <2>11. \A u \in Investors : UnitsCover(u)' /\ BasisFits(u)' /\ GapFits(u)'
    BY <2>1, HoldersFrame DEF bookVars
  <2> QED BY <2>5, <2>6, <2>7, <2>8, <2>9, <2>10, <2>11, InvFrom
<1> QED BY <1>1, <1>2

\* A redemption's row moves, and its event is recorded; neither units nor positions move.
LEMMA RedemptionMoves ==
    ASSUME UnitsInv, UnitsTypes', DesksFit', NEW r \in Reds, NEW e \in Events,
           e.id = r, e.st = "queued",
           \/ red[r] = "none" /\ red'[r] = "queued" /\ e.kind = "requested"
           \/ red[r] = "queued" /\ red'[r] \in {"failed", "cancelled"} /\ e.kind = red'[r],
           \A x \in Reds : x # r => red'[x] = red[x],
           outbox' = Append(outbox, e),
           UNCHANGED <<bookVars, bought, issued, dueRow, pos, clamped, marked>>
    PROVE  UnitsInv'
<1>0. UnitsTypes
  BY DEF UnitsInv
<1>1. Grows
  BY DEF Grows, bookVars
<1>2. EventFits(e)'
  BY DEF EventFits
<1>3. /\ EventsFit' /\ \A kind, id : Told(kind, id) => Told(kind, id)'
      /\ Told(e.kind, e.id)'
  BY <1>1, <1>2, Appended
<1>4. RowsTold'
  BY <1>3 DEF UnitsInv, RowsTold
<1>5. LegsFit' /\ KeyIssuesOnce'
  <2>1. LegsFit'
    BY <1>1, LegsFrame DEF bookVars
  <2> QED BY <2>1 DEF UnitsInv, KeyIssuesOnce
<1>6. \A u \in Investors : UnitsCover(u)' /\ BasisFits(u)'
  BY CoverFrame, BasisFrame DEF bookVars
<1>7. ASSUME NEW u \in Investors PROVE GapFits(u)'
  <2>1. RedGap(red', burn, u) = RedGap(red, burn, u)
    <3>1. \A x \in Reds : red'[x] = "completed" <=> red[x] = "completed"
      OBVIOUS
    <3> QED BY <3>1 DEF RedGap, RedWeight, Chosen
  <2>2. Ahead(u)' = Ahead(u)
    BY <2>1, AheadIs DEF AheadBy, bookVars
  <2> QED BY <2>2, GapSame DEF bookVars
<1> QED BY <1>3, <1>4, <1>5, <1>6, <1>7, InvFrom

LEMMA OpenRedemptionKeeps ==
    ASSUME UnitsInv, NEW d \in Desks, OpenRedemption(d)
    PROVE  UnitsInv'
<1>a. PICK r : r = desk[d].op
  OBVIOUS
<1>b. PICK t : t = IF desk[d].covered THEN [desk[d] EXCEPT !.at = "tosettle", !.price = 0] ELSE Desk
  OBVIOUS
<1>0. UnitsTypes /\ desk[d] \in Desked /\ DeskFits(desk[d]) /\ r \in Reds
  BY <1>a, DeskIs DEF UnitsInv, OpenRedemption, DeskFits
<1> DEFINE e == [kind |-> "requested", id |-> r, st |-> "queued"]
<1>1. /\ red[r] = "none" /\ red' = [red EXCEPT ![r] = "queued"] /\ outbox' = Append(outbox, e)
      /\ desk' = [desk EXCEPT ![d] = t]
      /\ UNCHANGED <<registryVars, markVars, bookVars, bought, redCash, issued, dueRow, paidFees, pos, clamped, marked>>
  BY <1>a, <1>b DEF OpenRedemption, Append1
<1>2. /\ red' \in [Reds -> RedemptionStates] /\ red'[r] = "queued"
      /\ \A x \in Reds : x # r => red'[x] = red[x]
  BY <1>0, <1>1 DEF UnitsTypes, RedemptionStates
<1>3. t \in Desked /\ DeskFits(t)
  <2>1. CASE desk[d].covered
    <3>1. t = [desk[d] EXCEPT !.at = "tosettle", !.price = 0]
      BY <1>b, <2>1
    <3> QED BY <1>0, <1>a, <3>1 DEF Desked, DeskFits
  <2>2. CASE ~ desk[d].covered
    BY <1>b, <2>2, IdleDesk
  <2> QED BY <2>1, <2>2
<1>4. desk' \in [Desks -> Desked] /\ DesksFit'
  BY <1>1, <1>3, DesksStep
<1>5. e \in Events /\ e.id = r /\ e.st = "queued" /\ e.kind = "requested"
  BY <1>0 DEF Events, Stamps, OfRed
<1> HIDE DEF e
<1>6. outbox' \in Seq(Events)
  <2>1. outbox \in Seq(Events)
    BY <1>0 DEF UnitsTypes
  <2> HIDE DEF Events
  <2> QED BY <1>1, <1>5, <2>1
<1>7. UnitsTypes'
  BY <1>0, <1>1, <1>2, <1>4, <1>6 DEF UnitsTypes, registryVars, markVars, bookVars
<1> QED BY <1>0, <1>1, <1>2, <1>4, <1>5, <1>7, RedemptionMoves

LEMMA EndRedemptionKeeps ==
    ASSUME UnitsInv, NEW r \in Reds, CancelRedemption(r) \/ FailRedemption(r)
    PROVE  UnitsInv'
<1>1. PICK to \in {"failed", "cancelled"} : EndRedemption(r, to)
  BY DEF CancelRedemption, FailRedemption
<1>0. UnitsTypes
  BY DEF UnitsInv
<1> DEFINE e == [kind |-> to, id |-> r, st |-> "queued"]
<1>2. /\ red[r] = "queued" /\ red' = [red EXCEPT ![r] = to] /\ outbox' = Append(outbox, e)
      /\ UNCHANGED <<registryVars, markVars, bookVars, bought, redCash, issued, dueRow, paidFees, pos, clamped, marked, desk>>
  BY <1>1 DEF EndRedemption, Append1
<1>3. /\ red' \in [Reds -> RedemptionStates] /\ red'[r] = to
      /\ \A x \in Reds : x # r => red'[x] = red[x]
  BY <1>0, <1>2 DEF UnitsTypes, RedemptionStates
<1>4. e \in Events /\ e.id = r /\ e.st = "queued" /\ e.kind = to
  BY DEF Events, Stamps, OfRed
<1> HIDE DEF e
<1>5. outbox' \in Seq(Events)
  <2>1. outbox \in Seq(Events)
    BY <1>0 DEF UnitsTypes
  <2> HIDE DEF Events
  <2> QED BY <1>2, <1>4, <2>1
<1>6. UnitsTypes'
  BY <1>0, <1>2, <1>3, <1>5 DEF UnitsTypes, registryVars, markVars, bookVars
<1>7. DesksFit'
  BY <1>2 DEF UnitsInv, DesksFit
<1> QED BY <1>2, <1>3, <1>4, <1>6, <1>7, RedemptionMoves

LEMMA SettleFeesKeeps ==
    ASSUME UnitsInv, NEW d \in Desks, SettleFees(d)
    PROVE  UnitsInv'
<1>a. PICK p, c : p = desk[d].op /\ c = PayoutUnits[p] * desk[d].price
  OBVIOUS
<1>0. UnitsTypes /\ p \in Payouts /\ c \in Nat
  <2>1. p \in Payouts /\ desk[d].price \in Nat
    BY <1>a, DeskIs DEF SettleFees, DeskFits, Desked
  <2>2. PayoutUnits[p] \in Nat
    BY <2>1, SharesAssumption
  <2> QED BY <1>a, <2>1, <2>2 DEF UnitsInv
<1> DEFINE e == [kind |-> "fees_settled", id |-> p, st |-> "queued"]
<1>1. /\ desk' = [desk EXCEPT ![d] = Desk] /\ paidFees' = [paidFees EXCEPT ![p] = c] /\ outbox' = Append(outbox, e)
      /\ UNCHANGED <<registryVars, markVars, bookVars, bought, red, redCash, issued, dueRow, pos, clamped, marked>>
  BY <1>a DEF SettleFees, Append1
<1>2. paidFees' \in [Payouts -> Nat]
  BY <1>0, <1>1 DEF UnitsTypes
<1>3. Grows
  BY <1>1 DEF Grows, bookVars
<1>4. e \in Events /\ EventFits(e)'
  BY <1>0 DEF Events, Stamps, EventFits
<1> HIDE DEF e
<1>5. outbox' \in Seq(Events) /\ EventsFit' /\ \A kind, id : Told(kind, id) => Told(kind, id)'
  BY <1>1, <1>3, <1>4, Appended
<1>6. desk' \in [Desks -> Desked] /\ DesksFit'
  BY <1>1, IdleDesk, DesksStep
<1>7. UnitsTypes'
  BY <1>0, <1>1, <1>2, <1>5, <1>6 DEF UnitsTypes, registryVars, markVars, bookVars
<1>8. RowsTold' /\ KeyIssuesOnce'
  BY <1>1, <1>5 DEF UnitsInv, RowsTold, KeyIssuesOnce
<1>9. LegsFit'
  BY <1>1, <1>3, LegsFrame DEF bookVars
<1>10. \A u \in Investors : UnitsCover(u)' /\ BasisFits(u)' /\ GapFits(u)'
  BY <1>1, HoldersFrame DEF bookVars
<1> QED BY <1>5, <1>6, <1>7, <1>8, <1>9, <1>10, InvFrom

-----------------------------------------------------------------------------
(***************************************************************************)
(* Shares: positions that are reduced with their row.                      *)
(***************************************************************************)
LEMMA BasisSums ==
    \A m, u : SumOver(CashPaid, SubsOf(m, u)) \in Nat /\ SumOver(BasisSet, IssuesOf(m, u)) \in Nat
<1> SUFFICES ASSUME NEW m, NEW u
             PROVE  SumOver(CashPaid, SubsOf(m, u)) \in Nat /\ SumOver(BasisSet, IssuesOf(m, u)) \in Nat
  OBVIOUS
<1>1. IsFiniteSet(SubsOf(m, u)) /\ \A s \in SubsOf(m, u) : CashPaid[s] \in Nat
  <2>1. SubsOf(m, u) \subseteq Subs
    BY DEF SubsOf
  <2> QED BY <2>1, SharesAssumption, FS_Subset DEF CashPaid
<1>2. IsFiniteSet(IssuesOf(m, u)) /\ \A i \in IssuesOf(m, u) : BasisSet[i] \in Nat
  <2>1. IssuesOf(m, u) \subseteq Issues
    BY DEF IssuesOf
  <2> QED BY <2>1, SharesAssumption, FS_Subset DEF BasisSet
<1> QED BY <1>1, <1>2, SumNat

\* A position that loses units never gains basis.
LEMMA BasisShrinks ==
    ASSUME UnitsInv, UnitsTypes', NEW u \in Investors,
           marked' = marked, dueRow \subseteq dueRow',
           pos'[u].basis <= pos[u].basis,
           pos'[u].units = 0 /\ dueRow' = {} => pos'[u].basis = 0
    PROVE  BasisFits(u)'
<1>1. UnitsTypes /\ BasisFits(u)
  BY DEF UnitsInv
<1>2. PICK a : a = StartUnits[u] + SumOver(CashPaid, SubsOf(marked, u)) + SumOver(BasisSet, IssuesOf(marked, u))
  OBVIOUS
<1>3. a \in Nat
  BY <1>2, BasisSums, SharesAssumption
<1>4. pos[u].basis \in Nat /\ pos[u].basis <= a
  BY <1>1, <1>2, PosIs DEF BasisFits
<1>5. pos'[u].basis \in Nat
  <2>1. pos'[u] \in [units : Nat, basis : Nat]
    BY DEF UnitsTypes
  <2> QED BY <2>1
<1>6. pos'[u].basis <= a
  BY <1>3, <1>4, <1>5
<1> QED BY <1>2, <1>6 DEF BasisFits

LEMMA SettleRedemptionKeeps ==
    ASSUME UnitsInv, NEW d \in Desks, SettleRedemption(d)
    PROVE  UnitsInv'
<1>a. PICK r : r = desk[d].op
  OBVIOUS
<1>b. PICK u, n : u = RedOf[r].user /\ n = RedOf[r].units
  OBVIOUS
<1>0. UnitsTypes /\ r \in Reds /\ u \in Investors /\ n \in Nat \ {0} /\ desk[d].price \in Nat
      /\ desk' = [desk EXCEPT ![d] = Desk]
  <2>1. r \in Reds /\ desk[d].price \in Nat /\ desk' = [desk EXCEPT ![d] = Desk]
    BY <1>a, DeskIs DEF SettleRedemption, DeskFits, Desked
  <2> QED BY <1>b, <2>1, SharesAssumption DEF UnitsInv
<1>1. CASE UNCHANGED <<red, redCash, pos, outbox>>
  <2>1. UNCHANGED <<registryVars, markVars, bookVars, rowVars, pos, clamped, marked, outbox>>
    BY <1>1 DEF SettleRedemption, rowVars
  <2> QED BY <1>0, <2>1, NothingRecorded
<1>2. CASE ~ UNCHANGED <<red, redCash, pos, outbox>>
  <2> DEFINE e == [kind |-> "settled", id |-> r, st |-> "queued"]
  <2>1. /\ red[r] = "queued" /\ pos[u].units >= n
        /\ red' = [red EXCEPT ![r] = "completed"] /\ redCash' = [redCash EXCEPT ![r] = n * desk[d].price]
        /\ pos' = [pos EXCEPT ![u] = ReduceCostBasis(@, n)] /\ outbox' = Append(outbox, e)
        /\ UNCHANGED <<registryVars, markVars, bookVars, bought, issued, dueRow, paidFees, clamped, marked>>
    BY <1>2, <1>a, <1>b DEF SettleRedemption, Settles, Append1
  <2>2. /\ red' \in [Reds -> RedemptionStates] /\ red'[r] = "completed"
        /\ \A x \in Reds : x # r => red'[x] = red[x]
    BY <1>0, <2>1 DEF UnitsTypes, RedemptionStates
  <2>3. Grows
    BY <1>0, <2>1, <2>2 DEF Grows, bookVars
  <2>4. e \in Events /\ EventFits(e)'
    BY <1>0, <2>2 DEF Events, Stamps, OfRed, EventFits
  <2>5. /\ outbox' \in Seq(Events) /\ EventsFit' /\ \A kind, id : Told(kind, id) => Told(kind, id)'
        /\ Told("settled", r)'
    <3>1. e.kind = "settled" /\ e.id = r
      OBVIOUS
    <3> HIDE DEF e
    <3>2. /\ outbox' \in Seq(Events) /\ EventsFit' /\ \A kind, id : Told(kind, id) => Told(kind, id)'
          /\ Told(e.kind, e.id)'
      BY <2>1, <2>3, <2>4, Appended
    <3> QED BY <3>1, <3>2
  <2>6. desk' \in [Desks -> Desked] /\ DesksFit'
    BY <1>0, IdleDesk, DesksStep
  <2>7. PICK m, b, c : m = pos[u].units /\ b = pos[u].basis /\ c = (b * (m - n)) \div m
    OBVIOUS
  <2>8. m \in Nat /\ b \in Nat /\ c \in Nat /\ m >= n /\ c <= b /\ (m = n => c = 0) /\ m - n \in Nat
    <3>0. m \in Nat /\ b \in Nat /\ m >= n
      BY <1>0, <2>1, <2>7, PosIs
    <3>1. m \in Nat \ {0} /\ b \in Nat /\ m >= n /\ m - n \in 0..m
      BY <1>0, <3>0
    <3>2. c \in Nat /\ c <= b
      BY <2>7, <3>1, ShrinkBasis
    <3>3. m = n => c = 0
      <4>1. SUFFICES ASSUME m = n PROVE c = 0
        OBVIOUS
      <4>2. m - n = 0 /\ b * 0 = 0
        BY <3>1, <4>1
      <4>3. 0 \div m = 0
        BY <3>1
      <4> QED BY <2>7, <4>2, <4>3
    <3> QED BY <1>0, <3>1, <3>2, <3>3
  <2>9. pos'[u] = [units |-> m - n, basis |-> c] /\ \A x \in Investors : x # u => pos'[x] = pos[x]
    <3>1. pos \in [Investors -> [units : Nat, basis : Nat]]
      BY <1>0 DEF UnitsTypes
    <3>2. pos'[u] = ReduceCostBasis(pos[u], n)
      BY <1>0, <2>1, <3>1
    <3>3. ReduceCostBasis(pos[u], n) = [units |-> m - n, basis |-> c]
      BY <2>7 DEF ReduceCostBasis
    <3> QED BY <1>0, <2>1, <3>1, <3>2, <3>3
  <2>10. pos' \in [Investors -> [units : Nat, basis : Nat]]
    <3>1. pos \in [Investors -> [units : Nat, basis : Nat]]
      BY <1>0 DEF UnitsTypes
    <3>2. [units |-> m - n, basis |-> c] \in [units : Nat, basis : Nat]
      BY <2>8
    <3>3. DOMAIN pos' = Investors
      BY <2>1, <3>1
    <3>4. \A x \in Investors : pos'[x] \in [units : Nat, basis : Nat]
      BY <2>9, <3>1, <3>2
    <3>5. pos' = [x \in Investors |-> pos'[x]]
      BY <2>1, <3>1, <3>3
    <3> QED BY <3>4, <3>5
  <2>11. redCash' \in [Reds -> Nat]
    <3>1. n * desk[d].price \in Nat
      BY <1>0
    <3> QED BY <1>0, <2>1, <3>1 DEF UnitsTypes
  <2>12. UnitsTypes'
    BY <1>0, <2>1, <2>2, <2>5, <2>6, <2>10, <2>11 DEF UnitsTypes, registryVars, markVars, bookVars
  <2>13. RowsTold'
    BY <2>1, <2>2, <2>5 DEF UnitsInv, RowsTold
  <2>14. LegsFit' /\ KeyIssuesOnce'
    <3>1. LegsFit'
      BY <2>1, <2>3, LegsFrame DEF bookVars
    <3> QED BY <2>1, <3>1 DEF UnitsInv, KeyIssuesOnce
  <2>15. \A x \in Investors : UnitsCover(x)'
    BY <2>1, CoverFrame DEF bookVars
  <2>16. ASSUME NEW x \in Investors PROVE BasisFits(x)'
    <3>1. pos'[x].basis <= pos[x].basis /\ (pos'[x].units = 0 /\ dueRow' = {} => pos'[x].basis = 0)
      <4>1. CASE x = u
        <5>1. pos'[x].units = m - n /\ pos'[x].basis = c /\ pos[x].basis = b
          BY <2>7, <2>9, <4>1
        <5>2. m - n = 0 => c = 0
          BY <1>0, <2>8
        <5> QED BY <2>8, <5>1, <5>2
      <4>2. CASE x # u
        <5>1. pos'[x] = pos[x]
          BY <2>9, <4>2
        <5>2. BasisFits(x) /\ pos[x].basis \in Nat
          BY <1>0, PosIs DEF UnitsInv
        <5> QED BY <2>1, <5>1, <5>2 DEF BasisFits
      <4> QED BY <4>1, <4>2
    <3> QED BY <2>1, <2>12, <3>1, BasisShrinks
  <2>17. ASSUME NEW x \in Investors PROVE GapFits(x)'
    <3>1. PICK k, l, q : k = At(u, x, 0 - n) /\ l = Ahead(x) /\ q = Ahead(x)'
      OBVIOUS
    <3>2. k \in Int /\ l \in Int /\ (k - k) \in Int
      BY <1>0, <3>1, AheadInt DEF At
    <3>3. SumOver(RedGap(red', burn, x), Reds) = SumOver(RedGap(red, burn, x), Reds) + k
      <4>1. 0 - n \in Int
        BY <1>0
      <4>2. burn[r] # "posted"
        <5>1. RedLegs(r)
          BY <1>0 DEF UnitsInv, LegsFit
        <5> QED BY <2>1, <5>1 DEF RedLegs
      <4>3. RedWeight(red', burn, r) - RedWeight(red, burn, r) = 0 - n
        BY <1>0, <1>b, <2>1, <2>2, <4>2 DEF Chosen, RedWeight
      <4>4. \A z \in Reds \ {r} : red[z] = red'[z] /\ burn[z] = burn[z]
        BY <2>2
      <4>5. SumOver(RedGap(red', burn, x), Reds)
              = SumOver(RedGap(red, burn, x), Reds) + At(RedOf[r].user, x, RedWeight(red', burn, r) - RedWeight(red, burn, r))
        BY <1>0, <4>4, RedMoves
      <4> QED BY <1>b, <3>1, <4>3, <4>5
    <3>4. q = l + k
      <4>1. /\ SumOver(SubGap(marked, legsDone, bought, x), Subs) \in Int
            /\ SumOver(IssueGap(marked, legsDone, x), Issues) \in Int
            /\ SumOver(DueGap(dueRow, legsDone, x), Dues) \in Int
        BY <1>0, GapsInt DEF UnitsTypes
      <4>2. SumOver(RedGap(red, burn, x), Reds) \in Int
        BY <1>0, GapsInt DEF UnitsTypes
      <4>3. q = AheadBy(marked, legsDone, bought, red', burn, dueRow, x)
        BY <2>1, <3>1, AheadIs DEF bookVars
      <4>4. l = AheadBy(marked, legsDone, bought, red, burn, dueRow, x)
        BY <3>1, AheadIs
      <4> QED BY <3>2, <3>3, <4>1, <4>2, <4>3, <4>4 DEF AheadBy
    <3>5. pos'[x].units = pos[x].units + k /\ units'[x] = units[x] + (k - k)
      <4>1. units'[x] = units[x] /\ units[x] \in Nat /\ pos[x].units \in Nat
        BY <1>0, <2>1, PosIs DEF bookVars, UnitsTypes
      <4>2. pos'[x].units = pos[x].units + k
        <5>1. CASE x = u
          BY <1>0, <2>7, <2>8, <2>9, <3>1, <5>1 DEF At
        <5>2. CASE x # u
          <6>1. k = 0 /\ pos'[x] = pos[x]
            BY <2>9, <3>1, <5>2 DEF At
          <6> QED BY <4>1, <6>1
        <5> QED BY <5>1, <5>2
      <4> QED BY <3>2, <4>1, <4>2
    <3> QED BY <2>1, <2>12, <3>1, <3>2, <3>4, <3>5, GapMoves
  <2> QED BY <2>5, <2>6, <2>12, <2>13, <2>14, <2>15, <2>16, <2>17, InvFrom
<1> QED BY <1>1, <1>2

\* A charge that is recorded.
LEMMA ChargeKeeps ==
    ASSUME UnitsInv, NEW d0 \in Desks, NEW y \in Dues, desk' = [desk EXCEPT ![d0] = Desk],
           y \notin dueRow, dueRow' = dueRow \union {y},
           pos' = [pos EXCEPT ![DueOf[y].user].units = ClampedLess(@, DueOf[y].units)],
           clamped' = clamped \union {v \in {DueOf[y].user} : pos[v].units < DueOf[y].units},
           Append1("charged", y),
           UNCHANGED <<registryVars, markVars, bookVars, bought, red, redCash, issued, paidFees, marked>>
    PROVE  UnitsInv'
<1>b. PICK u, n : u = DueOf[y].user /\ n = DueOf[y].units
  OBVIOUS
<1>0. UnitsTypes /\ u \in Investors /\ n \in Nat
  BY <1>b, SharesAssumption DEF UnitsInv
<1> DEFINE e == [kind |-> "charged", id |-> y, st |-> "queued"]
<1>c. /\ pos' = [pos EXCEPT ![u].units = ClampedLess(@, n)]
      /\ clamped' = clamped \union {v \in {u} : pos[v].units < n}
  BY <1>b
<1>1. /\ y \notin dueRow /\ dueRow' = dueRow \union {y} /\ outbox' = Append(outbox, e)
      /\ UNCHANGED <<registryVars, markVars, bookVars, bought, red, redCash, issued, paidFees, marked>>
  BY DEF Append1
<1>2. Grows
  BY <1>0, <1>1 DEF Grows, bookVars
<1>3. e \in Events /\ EventFits(e)'
  BY <1>1 DEF Events, Stamps, EventFits
<1>4. /\ outbox' \in Seq(Events) /\ EventsFit' /\ \A kind, id : Told(kind, id) => Told(kind, id)'
      /\ Told("charged", y)'
  <2>1. e.kind = "charged" /\ e.id = y
    OBVIOUS
  <2> HIDE DEF e
  <2>2. /\ outbox' \in Seq(Events) /\ EventsFit' /\ \A kind, id : Told(kind, id) => Told(kind, id)'
        /\ Told(e.kind, e.id)'
    BY <1>1, <1>2, <1>3, Appended
  <2> QED BY <2>1, <2>2
<1>5. PICK m, b, o : m = pos[u].units /\ b = pos[u].basis /\ o = ClampedLess(m, n)
  OBVIOUS
<1>6. /\ m \in Nat /\ b \in Nat /\ o \in Nat /\ o >= m - n /\ (~ (m < n) => o = m - n)
      /\ clamped \subseteq clamped' /\ (m < n => u \in clamped') /\ clamped' \subseteq Investors
  <2>1. m \in Nat /\ b \in Nat
    BY <1>0, <1>5, PosIs
  <2>2. o \in Nat /\ o >= m - n /\ (~ (m < n) => o = m - n)
    BY <1>0, <1>5, <2>1 DEF ClampedLess
  <2>3. clamped \subseteq Investors
    BY <1>0 DEF UnitsTypes
  <2> QED BY <1>0, <1>5, <1>c, <2>1, <2>2, <2>3
<1>7. pos'[u] = [units |-> o, basis |-> b] /\ \A x \in Investors : x # u => pos'[x] = pos[x]
  <2>1. pos \in [Investors -> [units : Nat, basis : Nat]]
    BY <1>0 DEF UnitsTypes
  <2>2. pos'[u] = [pos[u] EXCEPT !.units = ClampedLess(@, n)] /\ \A x \in Investors : x # u => pos'[x] = pos[x]
    BY <1>0, <1>c, <2>1
  <2>3. pos[u] = [units |-> m, basis |-> b]
    BY <1>0, <1>5, PosIs
  <2> QED BY <1>5, <2>2, <2>3
<1>8. pos' \in [Investors -> [units : Nat, basis : Nat]]
  <2>1. pos \in [Investors -> [units : Nat, basis : Nat]]
    BY <1>0 DEF UnitsTypes
  <2>2. [units |-> o, basis |-> b] \in [units : Nat, basis : Nat]
    BY <1>6
  <2>3. \A x \in Investors : pos'[x] \in [units : Nat, basis : Nat]
    BY <1>7, <2>1, <2>2
  <2>4. pos' = [x \in Investors |-> pos'[x]]
    BY <1>c, <2>1
  <2> QED BY <2>3, <2>4
<1>10. desk' \in [Desks -> Desked] /\ DesksFit'
  BY IdleDesk, DesksStep
<1>9. UnitsTypes'
  BY <1>0, <1>1, <1>4, <1>6, <1>8, <1>10 DEF UnitsTypes, registryVars, markVars, bookVars
<1>11. RowsTold'
  BY <1>1, <1>4 DEF UnitsInv, RowsTold
<1>12. LegsFit' /\ KeyIssuesOnce'
  <2>1. LegsFit'
    BY <1>1, <1>2, LegsFrame DEF bookVars
  <2> QED BY <1>1, <2>1 DEF UnitsInv, KeyIssuesOnce
<1>13. \A x \in Investors : UnitsCover(x)'
  BY <1>1, CoverFrame DEF bookVars
<1>14. ASSUME NEW x \in Investors PROVE BasisFits(x)'
  <2>1. pos'[x].basis = pos[x].basis /\ pos[x].basis \in Nat
    <3>1. CASE x = u
      BY <1>0, <1>5, <1>6, <1>7, <3>1
    <3>2. CASE x # u
      BY <1>0, <1>7, <3>2, PosIs
    <3> QED BY <3>1, <3>2
  <2>2. pos'[x].basis <= pos[x].basis /\ y \in dueRow'
    BY <1>1, <2>1
  <2> QED BY <1>1, <1>9, <2>2, BasisShrinks
<1>15. ASSUME NEW x \in Investors PROVE GapFits(x)'
  <2>1. PICK k, l, q : k = At(u, x, 0 - n) /\ l = Ahead(x) /\ q = Ahead(x)'
    OBVIOUS
  <2>2. k \in Int /\ l \in Int /\ (k - k) \in Int
    BY <1>0, <2>1, AheadInt DEF At
  <2>3. SumOver(DueGap(dueRow', legsDone, x), Dues) = SumOver(DueGap(dueRow, legsDone, x), Dues) + k
    <3>1. 0 - n \in Int
      BY <1>0
    <3>2. <<y, "clawback">> \notin legsDone
      <4>1. DueLegs(y)
        BY DEF UnitsInv, LegsFit
      <4> QED BY <1>1, <4>1 DEF DueLegs
    <3>3. DueWeight(dueRow', legsDone, y) - DueWeight(dueRow, legsDone, y) = 0 - n
      BY <1>0, <1>b, <1>1, <3>2 DEF Chosen, DueWeight
    <3>4. \A z \in Dues \ {y} : (z \in dueRow <=> z \in dueRow') /\ (<<z, "clawback">> \in legsDone <=> <<z, "clawback">> \in legsDone)
      BY <1>1
    <3>5. SumOver(DueGap(dueRow', legsDone, x), Dues)
            = SumOver(DueGap(dueRow, legsDone, x), Dues)
              + At(DueOf[y].user, x, DueWeight(dueRow', legsDone, y) - DueWeight(dueRow, legsDone, y))
      BY <3>4, DueMoves
    <3> QED BY <1>b, <2>1, <3>3, <3>5
  <2>4. q = l + k
    <3>1. /\ SumOver(SubGap(marked, legsDone, bought, x), Subs) \in Int
          /\ SumOver(IssueGap(marked, legsDone, x), Issues) \in Int
          /\ SumOver(DueGap(dueRow, legsDone, x), Dues) \in Int
      BY <1>0, GapsInt DEF UnitsTypes
    <3>2. SumOver(RedGap(red, burn, x), Reds) \in Int
      BY <1>0, GapsInt DEF UnitsTypes
    <3>3. q = AheadBy(marked, legsDone, bought, red, burn, dueRow', x)
      BY <1>1, <2>1, AheadIs DEF bookVars
    <3>4. l = AheadBy(marked, legsDone, bought, red, burn, dueRow, x)
      BY <2>1, AheadIs
    <3> QED BY <2>2, <2>3, <3>1, <3>2, <3>3, <3>4 DEF AheadBy
  <2>5. units'[x] = units[x] + (k - k)
    <3>1. units'[x] = units[x] /\ units[x] \in Nat
      BY <1>0, <1>1 DEF bookVars, UnitsTypes
    <3> QED BY <2>2, <3>1
  <2>6. pos'[x].units >= pos[x].units + k /\ (x \notin clamped' => pos'[x].units = pos[x].units + k)
    <3>1. CASE x = u
      <4>1. k = 0 - n /\ pos'[x].units = o /\ pos[x].units = m
        BY <1>5, <1>7, <2>1, <3>1 DEF At
      <4>2. o >= m + k /\ (~ (m < n) => o = m + k)
        BY <1>0, <1>6, <4>1
      <4>3. x \notin clamped' => ~ (m < n)
        BY <1>6, <3>1
      <4> QED BY <4>1, <4>2, <4>3
    <3>2. CASE x # u
      <4>1. k = 0 /\ pos'[x].units = pos[x].units
        BY <1>0, <1>7, <2>1, <3>2 DEF At
      <4>2. pos[x].units \in Nat
        BY <1>0, PosIs
      <4>3. \A a \in Nat : a >= a + 0 /\ a = a + 0
        OBVIOUS
      <4> QED BY <4>1, <4>2, <4>3, Zenon
    <3> QED BY <3>1, <3>2
  <2> QED BY <1>6, <1>9, <2>1, <2>2, <2>4, <2>5, <2>6, GapStep
<1> QED BY <1>4, <1>9, <1>10, <1>11, <1>12, <1>13, <1>14, <1>15, InvFrom

LEMMA ChargeUnitsKeeps ==
    ASSUME UnitsInv, NEW d \in Desks, ChargeUnits(d)
    PROVE  UnitsInv'
<1>a. PICK y : y = desk[d].op
  OBVIOUS
<1>0. y \in Dues /\ desk' = [desk EXCEPT ![d] = Desk]
  BY <1>a, DeskIs DEF ChargeUnits, DeskFits
<1>1. CASE UNCHANGED <<dueRow, pos, clamped, outbox>>
  <2>1. UNCHANGED <<registryVars, markVars, bookVars, rowVars, pos, clamped, marked, outbox>>
    BY <1>1 DEF ChargeUnits, rowVars
  <2> QED BY <1>0, <2>1, NothingRecorded
<1>2. CASE ~ UNCHANGED <<dueRow, pos, clamped, outbox>>
  <2>1. /\ y \notin dueRow /\ dueRow' = dueRow \union {y}
        /\ pos' = [pos EXCEPT ![DueOf[y].user].units = ClampedLess(@, DueOf[y].units)]
        /\ clamped' = clamped \union {v \in {DueOf[y].user} : pos[v].units < DueOf[y].units}
        /\ Append1("charged", y)
        /\ UNCHANGED <<registryVars, markVars, bookVars, bought, red, redCash, issued, paidFees, marked>>
    BY <1>2, <1>a DEF ChargeUnits
  <2> QED BY <1>0, <2>1, ChargeKeeps
<1> QED BY <1>1, <1>2

-----------------------------------------------------------------------------
(***************************************************************************)
(* Shares: the relay's plan of an event, and the leg that is next.         *)
(***************************************************************************)
LEMMA PlanIs ==
    ASSUME NEW e \in Events
    PROVE  /\ e.kind = "subscribed" => PlanShares(e) = <<"cash", "mint">>
           /\ e.kind = "issued" => /\ IssueOf[e.id].source = "mint" => PlanShares(e) = <<"issue">>
                                   /\ IssueOf[e.id].source = "retire" => PlanShares(e) = <<"retire">>
           /\ e.kind = "requested" => PlanShares(e) = <<"reserve">>
           /\ e.kind = "settled" => PlanShares(e) = <<"burn", "payout">>
           /\ e.kind \in {"failed", "cancelled"} => PlanShares(e) = <<"void">>
           /\ e.kind = "charged" => PlanShares(e) = <<"clawback">>
           /\ e.kind = "fees_settled" => PlanShares(e) = <<"fee_burn", "fee_payout">>
           /\ DOMAIN PlanShares(e) \subseteq {1, 2}
<1>1. /\ e.kind = "subscribed" => PlanShares(e) = <<"cash", "mint">>
      /\ e.kind = "issued" => /\ IssueOf[e.id].source = "mint" => PlanShares(e) = <<"issue">>
                              /\ IssueOf[e.id].source = "retire" => PlanShares(e) = <<"retire">>
      /\ e.kind = "requested" => PlanShares(e) = <<"reserve">>
      /\ e.kind = "settled" => PlanShares(e) = <<"burn", "payout">>
      /\ e.kind \in {"failed", "cancelled"} => PlanShares(e) = <<"void">>
      /\ e.kind = "charged" => PlanShares(e) = <<"clawback">>
      /\ e.kind = "fees_settled" => PlanShares(e) = <<"fee_burn", "fee_payout">>
  BY DEF PlanShares
<1>2. e.kind = "issued" => IssueOf[e.id].source \in {"mint", "retire"}
  BY EventIs, SharesAssumption
<1>3. DOMAIN PlanShares(e) \subseteq {1, 2}
  <2>1. e.kind \in {"subscribed", "issued", "charged", "fees_settled"} \cup OfRed
    BY EventIs
  <2>2. e.kind \in {"subscribed", "settled", "fees_settled"} => DOMAIN PlanShares(e) = {1, 2}
    BY <1>1
  <2>3. e.kind \in {"issued", "requested", "failed", "cancelled", "charged"} => DOMAIN PlanShares(e) = {1}
    BY <1>1, <1>2
  <2> QED BY <2>1, <2>2, <2>3 DEF OfRed
<1> QED BY <1>1, <1>3

LEMMA LegIs ==
    ASSUME UnitsTypes, NEW i \in DOMAIN outbox, NEW e, e = outbox[i]
    PROVE  /\ e \in Events
           /\ LegOf(i) = 0 => \A k \in DOMAIN PlanShares(e) : <<e.id, PlanShares(e)[k]>> \in legsDone
           /\ LegOf(i) # 0 => /\ LegOf(i) \in DOMAIN PlanShares(e)
                              /\ <<e.id, PlanShares(e)[LegOf(i)]>> \notin legsDone
                              /\ \A k \in DOMAIN PlanShares(e) :
                                     k < LegOf(i) => <<e.id, PlanShares(e)[k]>> \in legsDone
<1>0. e \in Events
  BY OutboxIs
<1> DEFINE undone == {k \in DOMAIN PlanShares(e) : <<e.id, PlanShares(e)[k]>> \notin legsDone}
<1>1. LegOf(i) = IF undone = {} THEN 0 ELSE Min(undone)
  BY DEF LegOf
<1>2. undone \subseteq {1, 2}
  BY <1>0, PlanIs
<1>3. \A k : k \in undone <=> k \in DOMAIN PlanShares(e) /\ <<e.id, PlanShares(e)[k]>> \notin legsDone
  OBVIOUS
<1> HIDE DEF undone
<1>4. undone # {} => Min(undone) \in undone /\ \A k \in undone : Min(undone) <= k
  <2>1. SUFFICES ASSUME undone # {} PROVE Min(undone) \in undone /\ \A k \in undone : Min(undone) <= k
    OBVIOUS
  <2>2. \E x \in undone : \A y \in undone : x =< y
    <3>1. PICK x \in undone : x = 1 \/ 1 \notin undone
      BY <2>1
    <3>2. ASSUME NEW y \in undone PROVE x =< y
      BY <1>2, <3>1
    <3> QED BY <3>2
  <2> DEFINE m == CHOOSE x \in undone : \A y \in undone : x =< y
  <2>3. m \in undone /\ \A y \in undone : m =< y
    BY <2>2, Zenon
  <2>4. Min(undone) = m
    BY Zenon DEF Min
  <2> QED BY <2>3, <2>4
<1>5. CASE undone = {}
  BY <1>0, <1>1, <1>3, <1>5
<1>6. CASE undone # {}
  <2>1. PICK k \in undone : k = Min(undone) /\ \A j \in undone : k <= j
    BY <1>4, <1>6
  <2>2. LegOf(i) = k /\ k # 0 /\ k \in {1, 2}
    BY <1>1, <1>2, <1>6, <2>1
  <2>3. \A j \in DOMAIN PlanShares(e) : j < k => <<e.id, PlanShares(e)[j]>> \in legsDone
    <3>1. ASSUME NEW j \in DOMAIN PlanShares(e), j < k, <<e.id, PlanShares(e)[j]>> \notin legsDone PROVE FALSE
      <4>1. j \in undone /\ j \in {1, 2} /\ k <= j
        BY <1>2, <1>3, <2>1, <3>1
      <4> QED BY <2>2, <3>1, <4>1
    <3> QED BY <3>1
  <2> QED BY <1>0, <1>3, <2>1, <2>2, <2>3
<1> QED BY <1>5, <1>6

\* What is moved next, and what was moved before it.
LEMMA NextLeg ==
    ASSUME UnitsInv, NEW i \in DOMAIN outbox, NEW e, e = outbox[i], LegOf(i) # 0,
           NEW leg, leg = PlanShares(e)[LegOf(i)]
    PROVE  /\ <<e.id, leg>> \notin legsDone
           /\ \/ leg = "cash" /\ e.id \in Subs /\ bought[e.id] > 0
              \/ leg = "mint" /\ e.id \in Subs /\ <<e.id, "cash">> \in legsDone
              \/ leg = "issue" /\ e.id \in Issues /\ issued[e.id] # "none" /\ IssueOf[e.id].source = "mint"
              \/ leg = "retire" /\ e.id \in Issues /\ issued[e.id] # "none" /\ IssueOf[e.id].source = "retire"
              \/ leg = "reserve" /\ e.id \in Reds
              \/ leg = "burn" /\ e.id \in Reds /\ red[e.id] = "completed"
              \/ leg = "payout" /\ e.id \in Reds /\ <<e.id, "burn">> \in legsDone
              \/ leg = "void" /\ e.id \in Reds /\ red[e.id] \in {"failed", "cancelled"}
              \/ leg = "clawback" /\ e.id \in Dues /\ e.id \in dueRow
              \/ leg \in {"fee_burn", "fee_payout"} /\ e.id \in Payouts
<1>0. UnitsTypes /\ EventFits(e)
  BY DEF UnitsInv
<1>1. PICK k : k = LegOf(i)
  OBVIOUS
<1>2. /\ e \in Events /\ k \in DOMAIN PlanShares(e) /\ <<e.id, PlanShares(e)[k]>> \notin legsDone /\ k \in {1, 2}
      /\ \A j \in DOMAIN PlanShares(e) : j < k => <<e.id, PlanShares(e)[j]>> \in legsDone
  BY <1>0, <1>1, LegIs, PlanIs
<1>3. leg = PlanShares(e)[k]
  BY <1>1
<1>4. e.kind \in {"subscribed", "issued", "charged", "fees_settled", "requested", "settled", "failed", "cancelled"}
  BY <1>2, EventIs DEF OfRed
<1>a. CASE e.kind = "subscribed"
  <2>1. PlanShares(e) = <<"cash", "mint">> /\ e.id \in Subs /\ bought[e.id] > 0
    BY <1>0, <1>2, <1>a, PlanIs, EventIs DEF EventFits
  <2>2. k = 1 => leg = "cash"
    BY <1>3, <2>1
  <2>3. k = 2 => leg = "mint" /\ <<e.id, "cash">> \in legsDone
    BY <1>2, <1>3, <2>1
  <2> QED BY <1>2, <1>3, <2>1, <2>2, <2>3
<1>b. CASE e.kind = "issued"
  <2>1. e.id \in Issues /\ issued[e.id] # "none" /\ IssueOf[e.id].source \in {"mint", "retire"}
    BY <1>0, <1>2, <1>b, EventIs, SharesAssumption DEF EventFits
  <2>2. CASE IssueOf[e.id].source = "mint"
    <3>1. PlanShares(e) = <<"issue">>
      BY <1>2, <1>b, <2>2, PlanIs
    <3> QED BY <1>2, <1>3, <2>1, <2>2, <3>1
  <2>3. CASE IssueOf[e.id].source = "retire"
    <3>1. PlanShares(e) = <<"retire">>
      BY <1>2, <1>b, <2>3, PlanIs
    <3> QED BY <1>2, <1>3, <2>1, <2>3, <3>1
  <2> QED BY <2>1, <2>2, <2>3
<1>c. CASE e.kind = "requested"
  <2>1. PlanShares(e) = <<"reserve">> /\ e.id \in Reds
    BY <1>2, <1>c, PlanIs, EventIs DEF OfRed
  <2> QED BY <1>2, <1>3, <2>1
<1>d. CASE e.kind = "settled"
  <2>1. PlanShares(e) = <<"burn", "payout">> /\ e.id \in Reds /\ red[e.id] = "completed"
    BY <1>0, <1>2, <1>d, PlanIs, EventIs DEF EventFits, OfRed
  <2>2. k = 1 => leg = "burn"
    BY <1>3, <2>1
  <2>3. k = 2 => leg = "payout" /\ <<e.id, "burn">> \in legsDone
    BY <1>2, <1>3, <2>1
  <2> QED BY <1>2, <1>3, <2>1, <2>2, <2>3
<1>e. CASE e.kind \in {"failed", "cancelled"}
  <2>1. PlanShares(e) = <<"void">> /\ e.id \in Reds /\ red[e.id] = e.kind
    BY <1>0, <1>2, <1>e, PlanIs, EventIs DEF EventFits, OfRed
  <2> QED BY <1>2, <1>3, <1>e, <2>1
<1>f. CASE e.kind = "charged"
  <2>1. PlanShares(e) = <<"clawback">> /\ e.id \in Dues /\ e.id \in dueRow
    BY <1>0, <1>2, <1>f, PlanIs, EventIs DEF EventFits
  <2> QED BY <1>2, <1>3, <2>1
<1>g. CASE e.kind = "fees_settled"
  <2>1. PlanShares(e) = <<"fee_burn", "fee_payout">> /\ e.id \in Payouts
    BY <1>2, <1>g, PlanIs, EventIs
  <2> QED BY <1>2, <1>3, <2>1
<1> QED BY <1>4, <1>a, <1>b, <1>c, <1>d, <1>e, <1>f, <1>g

-----------------------------------------------------------------------------
(***************************************************************************)
(* Shares: the relay projects an event it has delivered.                   *)
(***************************************************************************)
UserOf(y) == IF y \in Subs THEN SubOf[y].user ELSE IssueOf[y].user
Paid(y)   == IF y \in Subs THEN SubOf[y].cash ELSE IssueOf[y].basis
PaidIn(m, u) == SumOver(CashPaid, SubsOf(m, u)) + SumOver(BasisSet, IssuesOf(m, u))

LEMMA PaidAdds ==
    ASSUME NEW m, NEW u, NEW y \in (Subs \cup Issues) \ m
    PROVE  /\ PaidIn(m \cup {y}, u) = PaidIn(m, u) + At(UserOf(y), u, Paid(y))
           /\ PaidIn(m, u) \in Nat /\ Paid(y) \in Nat /\ UserOf(y) \in Investors
<1>0. SumOver(CashPaid, SubsOf(m, u)) \in Nat /\ SumOver(BasisSet, IssuesOf(m, u)) \in Nat
  BY BasisSums
<1>1. PaidIn(m, u) \in Nat /\ Paid(y) \in Nat /\ UserOf(y) \in Investors
  BY <1>0, SharesAssumption DEF PaidIn, Paid, UserOf
<1>2. CASE y \in Subs
  <2>1. y \notin Issues
    BY <1>2, SharesAssumption
  <2>2. IssuesOf(m \cup {y}, u) = IssuesOf(m, u)
    BY <2>1 DEF IssuesOf
  <2>3. CASE SubOf[y].user = u
    <3>1. SubsOf(m \cup {y}, u) = SubsOf(m, u) \cup {y} /\ y \notin SubsOf(m, u)
      BY <1>2, <2>3 DEF SubsOf
    <3>2. IsFiniteSet(SubsOf(m, u)) /\ \A x \in SubsOf(m, u) \cup {y} : CashPaid[x] \in Int
      <4>1. SubsOf(m, u) \subseteq Subs
        BY DEF SubsOf
      <4> QED BY <1>2, <4>1, SharesAssumption, FS_Subset DEF CashPaid
    <3>3. SumOver(CashPaid, SubsOf(m \cup {y}, u)) = SumOver(CashPaid, SubsOf(m, u)) + CashPaid[y]
      <4>1. PICK D : D = SubsOf(m, u)
        OBVIOUS
      <4>2. /\ SubsOf(m \cup {y}, u) = D \cup {y} /\ y \notin D /\ IsFiniteSet(D)
            /\ \A x \in D \cup {y} : CashPaid[x] \in Int
        BY <3>1, <3>2, <4>1
      <4>3. SumOver(CashPaid, D \cup {y}) = SumOver(CashPaid, D) + CashPaid[y]
        BY ONLY <4>2, SumAdd
      <4> QED BY <4>1, <4>2, <4>3
    <3>4. CashPaid[y] = Paid(y) /\ At(UserOf(y), u, Paid(y)) = Paid(y)
      BY <1>2, <2>3 DEF CashPaid, Paid, UserOf, At
    <3> QED BY <1>0, <1>1, <2>2, <3>3, <3>4 DEF PaidIn
  <2>4. CASE SubOf[y].user # u
    <3>1. SubsOf(m \cup {y}, u) = SubsOf(m, u)
      BY <2>4 DEF SubsOf
    <3>2. At(UserOf(y), u, Paid(y)) = 0
      BY <1>2, <2>4 DEF UserOf, At
    <3> QED BY <1>0, <1>1, <2>2, <3>1, <3>2 DEF PaidIn
  <2> QED BY <2>3, <2>4
<1>3. CASE y \notin Subs
  <2>1. y \in Issues
    BY <1>3
  <2>2. SubsOf(m \cup {y}, u) = SubsOf(m, u)
    BY <1>3 DEF SubsOf
  <2>3. CASE IssueOf[y].user = u
    <3>1. IssuesOf(m \cup {y}, u) = IssuesOf(m, u) \cup {y} /\ y \notin IssuesOf(m, u)
      BY <2>1, <2>3 DEF IssuesOf
    <3>2. IsFiniteSet(IssuesOf(m, u)) /\ \A x \in IssuesOf(m, u) \cup {y} : BasisSet[x] \in Int
      <4>1. IssuesOf(m, u) \subseteq Issues
        BY DEF IssuesOf
      <4> QED BY <2>1, <4>1, SharesAssumption, FS_Subset DEF BasisSet
    <3>3. SumOver(BasisSet, IssuesOf(m \cup {y}, u)) = SumOver(BasisSet, IssuesOf(m, u)) + BasisSet[y]
      <4>1. PICK D : D = IssuesOf(m, u)
        OBVIOUS
      <4>2. /\ IssuesOf(m \cup {y}, u) = D \cup {y} /\ y \notin D /\ IsFiniteSet(D)
            /\ \A x \in D \cup {y} : BasisSet[x] \in Int
        BY <3>1, <3>2, <4>1
      <4>3. SumOver(BasisSet, D \cup {y}) = SumOver(BasisSet, D) + BasisSet[y]
        BY ONLY <4>2, SumAdd
      <4> QED BY <4>1, <4>2, <4>3
    <3>4. BasisSet[y] = Paid(y) /\ At(UserOf(y), u, Paid(y)) = Paid(y)
      BY <1>3, <2>1, <2>3 DEF BasisSet, Paid, UserOf, At
    <3> QED BY <1>0, <1>1, <2>2, <3>3, <3>4 DEF PaidIn
  <2>4. CASE IssueOf[y].user # u
    <3>1. IssuesOf(m \cup {y}, u) = IssuesOf(m, u)
      BY <2>4 DEF IssuesOf
    <3>2. At(UserOf(y), u, Paid(y)) = 0
      BY <1>3, <2>4 DEF UserOf, At
    <3> QED BY <1>0, <1>1, <2>2, <3>1, <3>2 DEF PaidIn
  <2> QED BY <2>3, <2>4
<1> QED BY <1>1, <1>2, <1>3

LEMMA FinishStamps ==
    ASSUME UnitsInv, Grows, NEW i \in DOMAIN outbox, LegOf(i) = 0, legsDone' = legsDone,
           outbox[i].kind \in {"subscribed", "issued"} => outbox[i].id \in marked',
           StampEvent(i, "done") \/ UNCHANGED outbox
    PROVE  /\ outbox' \in Seq(Events) /\ EventsFit'
           /\ \A kind, id : Told(kind, id) <=> Told(kind, id)'
<1>0. UnitsTypes /\ \A j \in DOMAIN outbox : EventFits(outbox[j])
  BY DEF UnitsInv
<1>1. CASE StampEvent(i, "done")
  <2>1. \A k \in DOMAIN PlanShares(outbox[i]) : <<outbox[i].id, PlanShares(outbox[i])[k]>> \in legsDone'
    BY <1>0, LegIs
  <2>2. "done" \in Stamps
    BY DEF Stamps
  <2> QED BY <1>1, <2>1, <2>2, Stamped
<1>2. CASE UNCHANGED outbox
  <2>1. ASSUME NEW j \in DOMAIN outbox' PROVE EventFits(outbox[j])'
    <3>1. PICK g : g = outbox[j]
      OBVIOUS
    <3>2. EventFits(g)'
      BY <1>0, <1>2, <3>1, OutboxIs, EventKept
    <3> QED BY <1>2, <3>1, <3>2
  <2>2. EventsFit'
    BY <2>1 DEF EventsFit
  <2> QED BY <1>0, <1>2, <2>2 DEF Told, UnitsTypes
<1> QED BY <1>1, <1>2

\* What one projection adds to what is projected ahead of the ledger.
UnitsIn(y) ==
    IF y \in Subs THEN bought[y]
    ELSE IF IssueOf[y].source = "mint" THEN IssueOf[y].units ELSE 0 - IssueOf[y].units

LEMMA ProjectionMoves ==
    ASSUME UnitsInv, NEW y \in (Subs \cup Issues) \ marked, marked' = marked \cup {y},
           y \in Subs => <<y, "mint">> \in legsDone,
           y \notin Subs => <<y, IF IssueOf[y].source = "mint" THEN "issue" ELSE "retire">> \in legsDone,
           UNCHANGED <<bookVars, bought, red, dueRow>>, NEW u
    PROVE  Ahead(u)' = Ahead(u) + At(UserOf(y), u, UnitsIn(y))
<1>0. UnitsTypes
  BY DEF UnitsInv
<1>k. PICK k, w : k = At(UserOf(y), u, UnitsIn(y)) /\ w = UnitsIn(y)
  OBVIOUS
<1>w. w \in Int /\ k \in Int
  BY <1>0, <1>k, SharesAssumption DEF UnitsIn, UnitsTypes, At
<1>1. /\ SumOver(SubGap(marked, legsDone, bought, u), Subs) \in Int
      /\ SumOver(IssueGap(marked, legsDone, u), Issues) \in Int
      /\ SumOver(DueGap(dueRow, legsDone, u), Dues) \in Int
  BY <1>0, GapsInt DEF UnitsTypes
<1>2. SumOver(RedGap(red, burn, u), Reds) \in Int
  BY <1>0, GapsInt DEF UnitsTypes
<1>3. Ahead(u)' = AheadBy(marked', legsDone, bought, red, burn, dueRow, u)
  BY AheadIs DEF bookVars
<1>4. Ahead(u) = AheadBy(marked, legsDone, bought, red, burn, dueRow, u)
  BY AheadIs
<1>5. CASE y \in Subs
  <2>1. y \notin Issues
    BY <1>5, SharesAssumption
  <2>2. IssueGap(marked', legsDone, u) = IssueGap(marked, legsDone, u)
    <3>1. \A i \in Issues : i \in marked' <=> i \in marked
      BY <2>1
    <3> QED BY <3>1 DEF IssueGap, IssueWeight, Chosen
  <2>3. SumOver(SubGap(marked', legsDone, bought, u), Subs)
          = SumOver(SubGap(marked, legsDone, bought, u), Subs)
            + At(SubOf[y].user, u, SubWeight(marked', legsDone, bought, y) - SubWeight(marked, legsDone, bought, y))
    <3>1. bought \in [Subs -> Nat]
      BY <1>0 DEF UnitsTypes
    <3>2. \A s \in Subs \ {y} : (s \in marked <=> s \in marked') /\ (<<s, "mint">> \in legsDone <=> <<s, "mint">> \in legsDone)
      OBVIOUS
    <3> QED BY <1>5, <3>1, <3>2, SubMoves
  <2>4. SubWeight(marked', legsDone, bought, y) - SubWeight(marked, legsDone, bought, y) = w
    BY <1>5, <1>k, <1>w DEF SubWeight, Chosen, UnitsIn
  <2>5. At(SubOf[y].user, u, w) = k
    BY <1>5, <1>k DEF UserOf
  <2>6. SumOver(SubGap(marked', legsDone, bought, u), Subs) = SumOver(SubGap(marked, legsDone, bought, u), Subs) + k
    BY <2>3, <2>4, <2>5
  <2> QED BY <1>1, <1>2, <1>3, <1>4, <1>k, <1>w, <2>2, <2>6 DEF AheadBy
<1>6. CASE y \notin Subs
  <2>1. y \in Issues
    BY <1>6
  <2>2. SubGap(marked', legsDone, bought, u) = SubGap(marked, legsDone, bought, u)
    <3>1. \A s \in Subs : s \in marked' <=> s \in marked
      BY <1>6
    <3> QED BY <3>1 DEF SubGap, SubWeight, Chosen
  <2>3. SumOver(IssueGap(marked', legsDone, u), Issues)
          = SumOver(IssueGap(marked, legsDone, u), Issues)
            + At(IssueOf[y].user, u, IssueWeight(marked', legsDone, y) - IssueWeight(marked, legsDone, y))
    <3>2. \A s \in Issues \ {y} : /\ (s \in marked <=> s \in marked')
                                  /\ (<<s, "issue">> \in legsDone <=> <<s, "issue">> \in legsDone)
                                  /\ (<<s, "retire">> \in legsDone <=> <<s, "retire">> \in legsDone)
      OBVIOUS
    <3> QED BY <2>1, <3>2, IssueMoves
  <2>4. IssueWeight(marked', legsDone, y) - IssueWeight(marked, legsDone, y) = w
    <3>1. IssueOf[y].units \in Nat
      BY <2>1, SharesAssumption
    <3>2. CASE IssueOf[y].source = "mint"
      <4>1. w = IssueOf[y].units /\ <<y, "issue">> \in legsDone /\ y \in marked' /\ y \notin marked
        BY <1>6, <1>k, <3>2 DEF UnitsIn
      <4> QED BY <3>1, <3>2, <4>1 DEF IssueWeight, Chosen
    <3>3. CASE IssueOf[y].source # "mint"
      <4>1. w = 0 - IssueOf[y].units /\ <<y, "retire">> \in legsDone /\ y \in marked' /\ y \notin marked
        BY <1>6, <1>k, <3>3 DEF UnitsIn
      <4> QED BY <3>1, <3>3, <4>1 DEF IssueWeight, Chosen
    <3> QED BY <3>2, <3>3
  <2>5. At(IssueOf[y].user, u, w) = k
    BY <1>6, <1>k DEF UserOf
  <2>6. SumOver(IssueGap(marked', legsDone, u), Issues) = SumOver(IssueGap(marked, legsDone, u), Issues) + k
    BY <2>3, <2>4, <2>5
  <2> QED BY <1>1, <1>2, <1>3, <1>4, <1>k, <1>w, <2>2, <2>6 DEF AheadBy
<1> QED BY <1>5, <1>6

LEMMA ProjectedKeeps ==
    ASSUME UnitsInv, NEW i \in DOMAIN outbox, NEW e, e = outbox[i], LegOf(i) = 0,
           NEW y, y = e.id, (e.kind = "subscribed" /\ y \in Subs) \/ (e.kind = "issued" /\ y \in Issues),
           y \notin marked, marked' = marked \cup {y},
           NEW v \in Investors, v = UserOf(y), NEW p \in [units : Nat, basis : Nat], pos' = [pos EXCEPT ![v] = p],
           p.basis <= pos[v].basis + Paid(y), p.units = 0 => p.basis = 0,
           p.units >= pos[v].units + UnitsIn(y), v \notin clamped' => p.units = pos[v].units + UnitsIn(y),
           clamped \subseteq clamped', clamped' \subseteq Investors,
           issued' \in [Issues -> {"none", "queued", "applied"}],
           \A x \in Issues : issued'[x] # "none" <=> issued[x] # "none",
           UNCHANGED <<registryVars, markVars, bookVars, bought, red, redCash, dueRow, paidFees, desk>>,
           StampEvent(i, "done") \/ UNCHANGED outbox
    PROVE  UnitsInv'
<1>0. UnitsTypes /\ e \in Events /\ y \in (Subs \cup Issues) \ marked
  BY LegIs DEF UnitsInv
<1>1. Grows
  BY DEF Grows, bookVars
<1>2. outbox' \in Seq(Events) /\ EventsFit' /\ \A kind, id : Told(kind, id) <=> Told(kind, id)'
  <2>1. legsDone' = legsDone /\ (outbox[i].kind \in {"subscribed", "issued"} => outbox[i].id \in marked')
    BY DEF bookVars
  <2> QED BY <1>1, <2>1, FinishStamps
<1>3. \A k \in DOMAIN PlanShares(e) : <<y, PlanShares(e)[k]>> \in legsDone
  BY <1>0, LegIs
<1>4. y \in Subs => <<y, "mint">> \in legsDone
  <2>1. SUFFICES ASSUME y \in Subs PROVE <<y, "mint">> \in legsDone
    OBVIOUS
  <2>2. PlanShares(e) = <<"cash", "mint">>
    <3>1. e.kind = "subscribed"
      BY <2>1, SharesAssumption
    <3> QED BY <1>0, <3>1, PlanIs
  <2>3. 2 \in DOMAIN PlanShares(e) /\ PlanShares(e)[2] = "mint"
    BY <2>2
  <2> QED BY <1>3, <2>3
<1>5. y \notin Subs => /\ e.kind = "issued" /\ y \in Issues
                       /\ \/ IssueOf[y].source = "mint" /\ <<y, "issue">> \in legsDone
                          \/ IssueOf[y].source = "retire" /\ <<y, "retire">> \in legsDone
  <2>1. SUFFICES ASSUME y \notin Subs
                 PROVE  /\ e.kind = "issued" /\ y \in Issues
                        /\ \/ IssueOf[y].source = "mint" /\ <<y, "issue">> \in legsDone
                           \/ IssueOf[y].source = "retire" /\ <<y, "retire">> \in legsDone
    OBVIOUS
  <2>2. e.kind = "issued" /\ y \in Issues /\ IssueOf[y].source \in {"mint", "retire"}
    BY <2>1, SharesAssumption
  <2>3. CASE IssueOf[y].source = "mint"
    <3>1. PlanShares(e) = <<"issue">>
      BY <1>0, <2>2, <2>3, PlanIs
    <3>2. 1 \in DOMAIN PlanShares(e) /\ PlanShares(e)[1] = "issue"
      BY <3>1
    <3> QED BY <1>3, <2>2, <2>3, <3>2
  <2>4. CASE IssueOf[y].source = "retire"
    <3>1. PlanShares(e) = <<"retire">>
      BY <1>0, <2>2, <2>4, PlanIs
    <3>2. 1 \in DOMAIN PlanShares(e) /\ PlanShares(e)[1] = "retire"
      BY <3>1
    <3> QED BY <1>3, <2>2, <2>4, <3>2
  <2> QED BY <2>2, <2>3, <2>4
<1>6. /\ pos' \in [Investors -> [units : Nat, basis : Nat]] /\ pos'[v] = p
      /\ \A x \in Investors : x # v => pos'[x] = pos[x]
  <2>1. pos \in [Investors -> [units : Nat, basis : Nat]]
    BY <1>0 DEF UnitsTypes
  <2>2. pos'[v] = p /\ \A x \in Investors : x # v => pos'[x] = pos[x]
    BY <2>1
  <2>3. \A x \in Investors : pos'[x] \in [units : Nat, basis : Nat]
    BY <2>1, <2>2
  <2>4. pos' = [x \in Investors |-> pos'[x]]
    BY <2>1
  <2> QED BY <2>2, <2>3, <2>4
<1>7. UnitsTypes'
  BY <1>0, <1>2, <1>6 DEF UnitsTypes, registryVars, markVars, bookVars
<1>8. DesksFit' /\ KeyIssuesOnce'
  BY DEF UnitsInv, DesksFit, KeyIssuesOnce
<1>9. RowsTold'
  BY <1>2 DEF UnitsInv, RowsTold
<1>10. LegsFit'
  <2>1. LegsFit
    BY DEF UnitsInv
  <2>2. ASSUME NEW s \in Subs PROVE SubLegs(s)' /\ (s \in marked' => <<s, "mint">> \in legsDone')
    <3>1. SubLegs(s)'
      BY <2>1 DEF LegsFit, SubLegs, bookVars
    <3> QED BY <1>4, <2>1, <3>1 DEF LegsFit, bookVars
  <2>3. ASSUME NEW x \in Issues
        PROVE  IssueLegs(x)' /\ (x \in marked' => <<x, "issue">> \in legsDone' \/ <<x, "retire">> \in legsDone')
    <3>1. IssueLegs(x)'
      BY <2>1 DEF LegsFit, IssueLegs, bookVars
    <3>2. x = y => y \notin Subs
      BY SharesAssumption
    <3> QED BY <1>5, <2>1, <3>1, <3>2 DEF LegsFit, bookVars
  <2>4. ASSUME NEW r \in Reds PROVE RedLegs(r)'
    BY <2>1 DEF LegsFit, RedLegs, bookVars
  <2>5. ASSUME NEW k \in Dues PROVE DueLegs(k)'
    BY <2>1 DEF LegsFit, DueLegs, bookVars
  <2> QED BY <2>2, <2>3, <2>4, <2>5 DEF LegsFit
<1>11. \A x \in Investors : UnitsCover(x)'
  BY CoverFrame DEF bookVars
<1>12. ASSUME NEW u \in Investors PROVE BasisFits(u)'
  <2>0. BasisFits(u) /\ pos[u].basis \in Nat /\ StartUnits[u] \in Nat
    BY <1>0, PosIs, SharesAssumption DEF UnitsInv
  <2>1. PICK a, b, c : /\ a = PaidIn(marked, u) /\ b = At(UserOf(y), u, Paid(y)) /\ c = PaidIn(marked', u)
    OBVIOUS
  <2>2. c = a + b /\ a \in Nat /\ b \in Nat
    <3>1. PaidIn(marked \cup {y}, u) = PaidIn(marked, u) + At(UserOf(y), u, Paid(y))
          /\ PaidIn(marked, u) \in Nat /\ Paid(y) \in Nat
      BY <1>0, PaidAdds
    <3> QED BY <2>1, <3>1 DEF At
  <2>3. pos[u].basis <= StartUnits[u] + a
    <3>1. PICK k, l : k = SumOver(CashPaid, SubsOf(marked, u)) /\ l = SumOver(BasisSet, IssuesOf(marked, u))
      OBVIOUS
    <3>2. k \in Nat /\ l \in Nat
      BY <3>1, BasisSums
    <3>3. pos[u].basis <= StartUnits[u] + k + l
      BY <2>0, <3>1 DEF BasisFits
    <3> QED BY <2>0, <2>1, <3>1, <3>2, <3>3 DEF PaidIn
  <2>4. pos'[u].basis \in Nat /\ pos'[u].basis <= pos[u].basis + b
    <3>1. CASE u = v
      BY <1>6, <2>1, <3>1 DEF At
    <3>2. CASE u # v
      BY <1>6, <2>0, <2>2, <3>2
    <3> QED BY <3>1, <3>2
  <2>5. pos'[u].basis <= StartUnits[u] + c
    BY <2>0, <2>2, <2>3, <2>4
  <2>6. pos'[u].units = 0 /\ dueRow' = {} => pos'[u].basis = 0
    <3>1. CASE u = v
      BY <1>6, <3>1
    <3>2. CASE u # v
      BY <1>6, <2>0, <3>2 DEF BasisFits
    <3> QED BY <3>1, <3>2
  <2>7. pos'[u].basis <= StartUnits[u] + SumOver(CashPaid, SubsOf(marked', u)) + SumOver(BasisSet, IssuesOf(marked', u))
    <3>1. PICK k, l : k = SumOver(CashPaid, SubsOf(marked', u)) /\ l = SumOver(BasisSet, IssuesOf(marked', u))
      OBVIOUS
    <3>2. k \in Nat /\ l \in Nat
      BY <3>1, BasisSums
    <3>3. pos'[u].basis <= StartUnits[u] + (k + l)
      BY <2>1, <2>5, <3>1 DEF PaidIn
    <3>4. pos'[u].basis <= StartUnits[u] + k + l
      BY <2>0, <2>4, <3>2, <3>3
    <3> QED BY <3>1, <3>4
  <2> QED BY <2>6, <2>7 DEF BasisFits
<1>13. ASSUME NEW u \in Investors PROVE GapFits(u)'
  <2>1. PICK k : k = At(UserOf(y), u, UnitsIn(y))
    OBVIOUS
  <2>2. k \in Int /\ (k - k) = 0 /\ UnitsIn(y) \in Int
    <3>1. UnitsIn(y) \in Int
      <4>1. CASE y \in Subs
        BY <1>0, <4>1 DEF UnitsIn, UnitsTypes
      <4>2. CASE y \notin Subs
        <5>1. IssueOf[y].units \in Nat
          BY <1>0, <4>2, SharesAssumption
        <5> QED BY <4>2, <5>1 DEF UnitsIn
      <4> QED BY <4>1, <4>2
    <3> QED BY <2>1, <3>1 DEF At
  <2>3. units'[u] = units[u] /\ units[u] \in Nat /\ pos[u].units \in Nat
    BY <1>0, PosIs DEF UnitsTypes, bookVars
  <2>4. Ahead(u)' = Ahead(u) + k
    <3>1. y \notin Subs => <<y, IF IssueOf[y].source = "mint" THEN "issue" ELSE "retire">> \in legsDone
      BY <1>5
    <3> QED BY <1>0, <1>4, <2>1, <3>1, ProjectionMoves
  <2>5. units'[u] = units[u] + (k - k)
    BY <2>2, <2>3
  <2>6. pos'[u].units >= pos[u].units + k /\ (u \notin clamped' => pos'[u].units = pos[u].units + k)
    <3>1. CASE u = v
      BY <1>6, <2>1, <3>1 DEF At
    <3>2. CASE u # v
      BY <1>6, <2>1, <2>3, <3>2 DEF At
    <3> QED BY <3>1, <3>2
  <2> QED BY <1>7, <2>2, <2>4, <2>5, <2>6, GapStep
<1> QED BY <1>2, <1>7, <1>8, <1>9, <1>10, <1>11, <1>12, <1>13, InvFrom

LEMMA RelayFinishesKeeps ==
    ASSUME UnitsInv, NEW i \in DOMAIN outbox, RelayFinishes(i)
    PROVE  UnitsInv'
<1>a. PICK e : e = outbox[i]
  OBVIOUS
<1>0. /\ UnitsTypes /\ e \in Events /\ EventFits(e) /\ LegOf(i) = 0 /\ Project(e)
      /\ StampEvent(i, "done") \/ UNCHANGED outbox
      /\ UNCHANGED <<registryVars, markVars, bookVars, bought, red, redCash, dueRow, paidFees, desk>>
  BY <1>a, LegIs DEF RelayFinishes, UnitsInv
<1>1. CASE e.kind \notin {"subscribed", "issued"} \/ e.id \in marked
  <2>1. UNCHANGED <<pos, clamped, marked, issued>>
    BY <1>0, <1>1 DEF Project
  <2>2. Grows
    BY <1>0, <2>1 DEF Grows, bookVars
  <2>3. outbox' \in Seq(Events) /\ EventsFit' /\ \A kind, id : Told(kind, id) <=> Told(kind, id)'
    <3>1. legsDone' = legsDone /\ (outbox[i].kind \in {"subscribed", "issued"} => outbox[i].id \in marked')
      BY <1>0, <1>1, <1>a, <2>1 DEF bookVars
    <3> QED BY <1>0, <2>2, <3>1, FinishStamps
  <2>4. UnitsTypes' /\ DesksFit'
    BY <1>0, <2>1, <2>3 DEF UnitsInv, UnitsTypes, registryVars, markVars, bookVars, DesksFit
  <2>5. RowsTold' /\ KeyIssuesOnce'
    BY <1>0, <2>1, <2>3 DEF UnitsInv, RowsTold, KeyIssuesOnce
  <2>6. LegsFit'
    BY <1>0, <2>1, <2>2, LegsFrame DEF bookVars
  <2>7. \A u \in Investors : UnitsCover(u)' /\ BasisFits(u)' /\ GapFits(u)'
    BY <1>0, <2>1, HoldersFrame DEF bookVars
  <2> QED BY <2>3, <2>4, <2>5, <2>6, <2>7, InvFrom
<1>2. CASE e.kind \in {"subscribed", "issued"} /\ e.id \notin marked
  <2>a. PICK y, v, p : /\ y = e.id /\ v = UserOf(y)
                       /\ p = ProjectHolderPosition(pos[v], e)
    OBVIOUS
  <2>0. (e.kind = "subscribed" /\ y \in Subs) \/ (e.kind = "issued" /\ y \in Issues)
    <3>1. e.kind = "subscribed" => e.id \in Subs
      BY <1>0, EventIs
    <3>2. e.kind = "issued" => e.id \in Issues
      BY <1>0, EventIs
    <3> QED BY <1>2, <2>a, <3>1, <3>2
  <2>1. v \in Investors /\ v = IF e.kind = "subscribed" THEN SubOf[y].user ELSE IssueOf[y].user
    BY <2>0, <2>a, SharesAssumption DEF UserOf
  <2>2. marked' = marked \cup {y} /\ pos' = [pos EXCEPT ![v] = ProjectHolderPosition(@, e)]
        /\ issued' = IF e.kind = "issued" THEN [issued EXCEPT ![y] = "applied"] ELSE issued
    BY <1>0, <1>2, <2>1, <2>a DEF Project
  <2>c. /\ clamped' = clamped \union {u \in Investors : /\ e.kind = "issued" /\ IssueOf[e.id].source = "retire"
                                                       /\ u = IssueOf[e.id].user /\ pos[u].units < IssueOf[e.id].units}
        /\ clamped \subseteq clamped' /\ clamped' \subseteq Investors
    BY <1>0, <1>2 DEF Project, UnitsTypes
  <2>3. pos' = [pos EXCEPT ![v] = p]
    BY <2>2, <2>a
  <2>4. issued' \in [Issues -> {"none", "queued", "applied"}] /\ \A x \in Issues : issued'[x] # "none" <=> issued[x] # "none"
    <3>1. e.kind = "issued" => issued[y] # "none"
      BY <1>0, <2>a DEF EventFits
    <3>2. issued \in [Issues -> {"none", "queued", "applied"}]
      BY <1>0 DEF UnitsTypes
    <3> QED BY <2>0, <2>2, <3>1, <3>2
  <2>5. PICK m, b, n, c : m = pos[v].units /\ b = pos[v].basis /\ n = Added(e) /\ c = Basis(e)
    OBVIOUS
  <2>d. PICK w : w = UnitsIn(y)
    OBVIOUS
  <2>6. /\ m \in Nat /\ b \in Nat /\ n \in Nat /\ n > 0 /\ c \in Nat /\ c = Paid(y)
        /\ w = IF e.kind = "issued" /\ IssueOf[y].source = "retire" THEN 0 - n ELSE n
    <3>1. m \in Nat /\ b \in Nat
      BY <1>0, <2>1, <2>5, PosIs
    <3>2. e.kind = "subscribed" => bought[y] > 0 /\ bought[y] \in Nat
      BY <1>0, <2>0, <2>a DEF EventFits, UnitsTypes
    <3>3. c = Paid(y)
      BY <2>0, <2>5, <2>a, SharesAssumption DEF Basis, Paid
    <3>4. n \in Nat /\ n > 0 /\ c \in Nat
      <4>1. CASE e.kind = "subscribed"
        BY <2>0, <2>5, <2>a, <3>2, <4>1, SharesAssumption DEF Added, Basis
      <4>2. CASE e.kind # "subscribed"
        BY <2>0, <2>5, <2>a, <4>2, SharesAssumption DEF Added, Basis
      <4> QED BY <4>1, <4>2
    <3>5. w = IF e.kind = "issued" /\ IssueOf[y].source = "retire" THEN 0 - n ELSE n
      <4>1. CASE e.kind = "subscribed"
        <5>1. y \in Subs
          BY <2>0, <4>1
        <5> QED BY <2>5, <2>a, <2>d, <4>1, <5>1 DEF Added, UnitsIn
      <4>2. CASE e.kind # "subscribed"
        <5>1. y \in Issues /\ y \notin Subs /\ e.kind = "issued" /\ IssueOf[y].source \in {"mint", "retire"}
          BY <2>0, <4>2, SharesAssumption
        <5> QED BY <2>5, <2>a, <2>d, <5>1 DEF Added, UnitsIn
      <4> QED BY <4>1, <4>2
    <3> QED BY <3>1, <3>3, <3>4, <3>5
  <2>7. /\ p \in [units : Nat, basis : Nat] /\ p.basis <= b + c /\ (p.units = 0 => p.basis = 0)
        /\ p.units >= m + w /\ (v \notin clamped' => p.units = m + w)
    <3>1. CASE e.kind = "issued" /\ IssueOf[e.id].source = "retire"
      <4>1. p = Retired(pos[v], n)
        BY <2>5, <2>a, <3>1 DEF ProjectHolderPosition
      <4>2. p = [units |-> IF m > n THEN m - n ELSE 0, basis |-> IF m > n THEN (b * (m - n)) \div m ELSE 0]
        BY <2>5, <4>1 DEF Retired
      <4>3. w = 0 - n /\ (m < n => v \in clamped')
        <5>1. y \in Issues /\ v = IssueOf[y].user /\ n = IssueOf[y].units
          BY <2>0, <2>1, <2>5, <2>a, <3>1 DEF Added
        <5> QED BY <2>1, <2>5, <2>6, <2>a, <2>c, <3>1, <5>1
      <4>4. CASE m > n
        <5>1. PICK q : q = (b * (m - n)) \div m
          OBVIOUS
        <5>2. m \in Nat \ {0} /\ m - n \in 0..m /\ m - n \in Nat /\ m - n # 0
          BY <2>6, <4>4
        <5>3. q \in Nat /\ q <= b
          BY <2>6, <5>1, <5>2, ShrinkBasis
        <5>4. p = [units |-> m - n, basis |-> q]
          BY <4>2, <4>4, <5>1
        <5> QED BY <2>6, <4>3, <5>2, <5>3, <5>4
      <4>5. CASE ~ (m > n)
        <5>1. p = [units |-> 0, basis |-> 0]
          BY <4>2, <4>5
        <5>2. 0 >= m + w /\ (m = n => 0 = m + w)
          BY <2>6, <4>3, <4>5
        <5>3. v \notin clamped' => m = n
          BY <2>6, <4>3, <4>5
        <5> QED BY <2>6, <4>3, <5>1, <5>2, <5>3
      <4> QED BY <4>4, <4>5
    <3>2. CASE ~ (e.kind = "issued" /\ IssueOf[e.id].source = "retire")
      <4>1. p = [units |-> m + n, basis |-> b + c] /\ w = n
        BY <2>5, <2>6, <2>a, <3>2 DEF ProjectHolderPosition
      <4> QED BY <2>6, <4>1
    <3> QED BY <3>1, <3>2
  <2>8. /\ p.basis <= pos[v].basis + Paid(y)
        /\ p.units >= pos[v].units + UnitsIn(y) /\ (v \notin clamped' => p.units = pos[v].units + UnitsIn(y))
    BY <2>5, <2>6, <2>7, <2>d
  <2>9. e = outbox[i] /\ LegOf(i) = 0 /\ y = e.id /\ y \notin marked /\ marked' = marked \cup {y} /\ v = UserOf(y)
        /\ (StampEvent(i, "done") \/ UNCHANGED outbox)
    BY <1>0, <1>2, <1>a, <2>2, <2>a
  <2>10. UNCHANGED <<registryVars, markVars, bookVars, bought, red, redCash, dueRow, paidFees, desk>> /\ v \in Investors
    BY <1>0, <2>1
  <2> QED BY <2>0, <2>3, <2>4, <2>7, <2>8, <2>9, <2>10, <2>c, ProjectedKeeps
<1> QED BY <1>1, <1>2

-----------------------------------------------------------------------------
(***************************************************************************)
(* Shares: the relay moves one leg.                                        *)
(***************************************************************************)
Leg(leg, id) ==
    /\ <<id, leg>> \notin legsDone /\ legsDone' = legsDone \cup {<<id, leg>>}
    /\ Covered(leg, id) /\ FoundPending(leg, id) /\ Move(leg, id)
    /\ UNCHANGED <<registryVars, markVars, rowVars, pos, clamped, marked, outbox, desk>>

LEMMA LegStep ==
    ASSUME UnitsInv, NEW id, NEW leg, Leg(leg, id),
           cash' \in [Investors -> Nat], fund' \in Nat, units' \in [Investors -> Nat], fee' \in Nat,
           burn' \in [Reds -> {"none", "pending", "posted", "void"}],
           LegsFit', \A u \in Investors : UnitsCover(u)',
           \A u \in Investors : \E k \in Int : Ahead(u)' = Ahead(u) + k /\ units'[u] = units[u] - k
    PROVE  UnitsInv'
<1>0. UnitsTypes
  BY DEF UnitsInv
<1>1. legsDone' = legsDone \cup {<<id, leg>>} /\ UNCHANGED <<registryVars, markVars, rowVars, pos, clamped, marked, outbox, desk>>
  BY DEF Leg
<1>2. Grows
  BY <1>1 DEF Grows, rowVars
<1>3. UnitsTypes'
  BY <1>0, <1>1 DEF UnitsTypes, registryVars, markVars, rowVars
<1>4. DesksFit' /\ RowsTold' /\ KeyIssuesOnce'
  BY <1>1 DEF UnitsInv, DesksFit, RowsTold, Told, KeyIssuesOnce, rowVars
<1>5. EventsFit'
  <2>1. ASSUME NEW j \in DOMAIN outbox' PROVE EventFits(outbox[j])'
    <3>1. PICK g : g = outbox[j]
      OBVIOUS
    <3>2. EventFits(g)'
      BY <1>0, <1>1, <1>2, <2>1, <3>1, OutboxIs, EventKept DEF UnitsInv
    <3> QED BY <1>1, <3>1, <3>2
  <2> QED BY <2>1 DEF EventsFit
<1>6. \A u \in Investors : BasisFits(u)'
  BY <1>1, BasisFrame DEF rowVars
<1>7. ASSUME NEW u \in Investors PROVE GapFits(u)'
  <2>0. pos'[u].units = pos[u].units /\ pos[u].units \in Nat
    BY <1>0, <1>1, PosIs
  <2>1. PICK k \in Int : Ahead(u)' = Ahead(u) + k /\ units'[u] = units[u] - k
    OBVIOUS
  <2>2. units[u] \in Nat /\ 0 \in Int
    BY <1>0 DEF UnitsTypes
  <2>3. Ahead(u)' = Ahead(u) + k /\ pos'[u].units = pos[u].units + 0 /\ units'[u] = units[u] + (0 - k)
    BY <2>0, <2>1, <2>2
  <2> QED BY <1>1, <1>3, <2>2, <2>3, GapMoves
<1> QED BY <1>3, <1>4, <1>5, <1>6, <1>7, InvFrom

\* What the ledger has for each row, one leg later.
LEMMA LegsKept ==
    ASSUME UnitsInv, NEW id, NEW leg, Leg(leg, id),
           leg = "mint" => <<id, "cash">> \in legsDone,
           leg = "cash" /\ id \in Subs => bought[id] > 0,
           leg \in {"issue", "retire"} /\ id \in Issues => issued[id] # "none",
           leg = "clawback" /\ id \in Dues => id \in dueRow,
           \A r \in Reds : RedLegs(r)'
    PROVE  LegsFit'
<1>1. LegsFit /\ legsDone' = legsDone \cup {<<id, leg>>} /\ UNCHANGED <<bought, red, issued, dueRow, marked>>
  BY DEF UnitsInv, Leg, rowVars
<1>2. ASSUME NEW s \in Subs PROVE SubLegs(s)' /\ (s \in marked' => <<s, "mint">> \in legsDone')
  <2>1. SubLegs(s) /\ (s \in marked => <<s, "mint">> \in legsDone)
    BY <1>1 DEF LegsFit
  <2>2. <<s, "mint">> \in legsDone' => <<s, "cash">> \in legsDone'
    BY <1>1, <2>1 DEF SubLegs
  <2>3. <<s, "cash">> \in legsDone' => bought'[s] > 0
    BY <1>1, <2>1 DEF SubLegs
  <2> QED BY <1>1, <2>1, <2>2, <2>3 DEF SubLegs
<1>3. ASSUME NEW x \in Issues
      PROVE  IssueLegs(x)' /\ (x \in marked' => <<x, "issue">> \in legsDone' \/ <<x, "retire">> \in legsDone')
  <2>1. IssueLegs(x) /\ (x \in marked => <<x, "issue">> \in legsDone \/ <<x, "retire">> \in legsDone)
    BY <1>1 DEF LegsFit
  <2> QED BY <1>1, <2>1 DEF IssueLegs
<1>4. ASSUME NEW k \in Dues PROVE DueLegs(k)'
  <2>1. DueLegs(k)
    BY <1>1 DEF LegsFit
  <2> QED BY <1>1, <2>1 DEF DueLegs
<1> QED BY <1>2, <1>3, <1>4 DEF LegsFit

LEMMA RedLegsFrame ==
    ASSUME UnitsInv, NEW id, NEW leg, Leg(leg, id), NEW r \in Reds,
           leg \notin {"reserve", "burn", "void", "payout"} \/ id # r, burn'[r] = burn[r]
    PROVE  RedLegs(r)'
<1>1. RedLegs(r) /\ legsDone' = legsDone \cup {<<id, leg>>} /\ red'[r] = red[r]
  BY DEF UnitsInv, LegsFit, Leg, rowVars
<1>2. \A l \in {"reserve", "burn", "void", "payout"} : <<r, l>> \in legsDone' <=> <<r, l>> \in legsDone
  BY <1>1
<1> QED BY <1>1, <1>2 DEF RedLegs

\* Only a mint, an issue, a retirement, a charge and a burn change what is ahead of the ledger.
LEMMA GapsOfLeg ==
    ASSUME NEW id, NEW leg, Leg(leg, id), NEW u
    PROVE  /\ leg # "mint" => SubGap(marked, legsDone', bought, u) = SubGap(marked, legsDone, bought, u)
           /\ leg \notin {"issue", "retire"} => IssueGap(marked, legsDone', u) = IssueGap(marked, legsDone, u)
           /\ leg # "clawback" => DueGap(dueRow, legsDone', u) = DueGap(dueRow, legsDone, u)
<1>0. legsDone' = legsDone \cup {<<id, leg>>}
  BY DEF Leg
<1>1. ASSUME leg # "mint" PROVE SubGap(marked, legsDone', bought, u) = SubGap(marked, legsDone, bought, u)
  <2>1. \A s : <<s, "mint">> \in legsDone' <=> <<s, "mint">> \in legsDone
    BY <1>0, <1>1
  <2> QED BY <2>1 DEF SubGap, SubWeight
<1>2. ASSUME leg \notin {"issue", "retire"} PROVE IssueGap(marked, legsDone', u) = IssueGap(marked, legsDone, u)
  <2>1. \A s : /\ (<<s, "issue">> \in legsDone' <=> <<s, "issue">> \in legsDone)
               /\ (<<s, "retire">> \in legsDone' <=> <<s, "retire">> \in legsDone)
    BY <1>0, <1>2
  <2> QED BY <2>1 DEF IssueGap, IssueWeight
<1>3. ASSUME leg # "clawback" PROVE DueGap(dueRow, legsDone', u) = DueGap(dueRow, legsDone, u)
  <2>1. \A s : <<s, "clawback">> \in legsDone' <=> <<s, "clawback">> \in legsDone
    BY <1>0, <1>3
  <2> QED BY <2>1 DEF DueGap, DueWeight
<1> QED BY <1>1, <1>2, <1>3

LEMMA AheadStays ==
    ASSUME UnitsInv, NEW id, NEW leg, Leg(leg, id), leg \notin {"mint", "issue", "retire", "clawback"},
           \A r \in Reds : burn'[r] = "posted" <=> burn[r] = "posted"
    PROVE  \A u : Ahead(u)' = Ahead(u)
<1>1. legsDone' = legsDone \cup {<<id, leg>>} /\ UNCHANGED <<bought, red, dueRow, marked>>
  BY DEF Leg, rowVars
<1>2. ASSUME NEW u PROVE Ahead(u)' = Ahead(u)
  <2>1. RedGap(red, burn', u) = RedGap(red, burn, u)
    BY DEF RedGap, RedWeight, Chosen
  <2>2. /\ SubGap(marked, legsDone', bought, u) = SubGap(marked, legsDone, bought, u)
        /\ IssueGap(marked, legsDone', u) = IssueGap(marked, legsDone, u)
        /\ DueGap(dueRow, legsDone', u) = DueGap(dueRow, legsDone, u)
    BY GapsOfLeg
  <2> QED BY <1>1, <2>1, <2>2, AheadIs DEF AheadBy
<1> QED BY <1>2

\* Units that arrive, units that leave.
LEMMA UnitsArrive ==
    ASSUME UnitsInv, NEW v \in Investors, NEW n \in Nat, units' = [units EXCEPT ![v] = @ + n], burn' = burn
    PROVE  /\ units' \in [Investors -> Nat]
           /\ \A u \in Investors : UnitsCover(u)' /\ units'[u] = units[u] + At(v, u, n)
<1>0. units \in [Investors -> Nat]
  BY DEF UnitsInv, UnitsTypes
<1>1. units' \in [Investors -> Nat]
  BY <1>0
<1>2. ASSUME NEW u \in Investors PROVE units'[u] = units[u] + At(v, u, n)
  BY <1>0 DEF At
<1>3. ASSUME NEW u \in Investors PROVE UnitsCover(u)'
  <2>1. PICK k : k = SumOver(RedUnits, Pending(burn, u))
    OBVIOUS
  <2>2. k \in Nat /\ k <= units[u]
    BY <2>1, BurnsNat DEF UnitsInv, UnitsCover
  <2>3. units'[u] \in Nat /\ units[u] \in Nat /\ units'[u] >= units[u]
    BY <1>0, <1>1, <1>2 DEF At
  <2>4. k <= units'[u]
    BY <2>2, <2>3
  <2> QED BY <2>1, <2>4 DEF UnitsCover
<1> QED BY <1>1, <1>2, <1>3

LEMMA UnitsLeave ==
    ASSUME UnitsInv, NEW v \in Investors, NEW n \in Nat, FreeUnits(v) >= n,
           units' = [units EXCEPT ![v] = @ - n], burn' = burn
    PROVE  /\ units' \in [Investors -> Nat]
           /\ \A u \in Investors : UnitsCover(u)' /\ units'[u] = units[u] - At(v, u, n)
<1>0. units \in [Investors -> Nat]
  BY DEF UnitsInv, UnitsTypes
<1>a. PICK f : f = SumOver(RedUnits, Pending(burn, v))
  OBVIOUS
<1>b. f \in Nat /\ units[v] - f >= n /\ units[v] \in Nat
  BY <1>0, <1>a, BurnsNat, BurnsPendingIs DEF FreeUnits
<1>c. units[v] - n \in Nat /\ f <= units[v] - n
  BY <1>b
<1>1. units' \in [Investors -> Nat]
  BY <1>0, <1>c
<1>2. ASSUME NEW u \in Investors PROVE units'[u] = units[u] - At(v, u, n)
  BY <1>0 DEF At
<1>3. ASSUME NEW u \in Investors PROVE UnitsCover(u)'
  <2>1. CASE u = v
    <3>1. units'[u] = units[v] - n
      BY <1>0, <2>1
    <3> QED BY <1>a, <1>c, <2>1, <3>1 DEF UnitsCover
  <2>2. CASE u # v
    <3>1. units'[u] = units[u]
      BY <1>0, <2>2
    <3>2. UnitsCover(u)
      BY DEF UnitsInv
    <3> QED BY <3>1, <3>2 DEF UnitsCover
  <2> QED BY <2>1, <2>2
<1> QED BY <1>1, <1>2, <1>3

\* Legs that leave the units, and what is ahead of them, as they are.
LEMMA StandsStill ==
    ASSUME UnitsInv, NEW id, NEW leg, Leg(leg, id), leg \notin {"mint", "issue", "retire", "clawback"}, units' = units,
           \A r \in Reds : burn'[r] = "posted" <=> burn[r] = "posted"
    PROVE  \A u \in Investors : \E k \in Int : Ahead(u)' = Ahead(u) + k /\ units'[u] = units[u] - k
<1>1. ASSUME NEW u \in Investors PROVE \E k \in Int : Ahead(u)' = Ahead(u) + k /\ units'[u] = units[u] - k
  <2>1. PICK a, b : a = Ahead(u) /\ b = Ahead(u)'
    OBVIOUS
  <2>2. a = b /\ a \in Int /\ units[u] \in Nat
    BY <2>1, AheadStays, AheadInt DEF UnitsInv, UnitsTypes
  <2>3. 0 \in Int /\ b = a + 0 /\ units'[u] = units[u] - 0
    BY <2>2
  <2> QED BY <2>1, <2>3
<1> QED BY <1>1

LEMMA CashLegKeeps ==
    ASSUME UnitsInv, NEW id \in Subs, bought[id] > 0, Leg("cash", id)
    PROVE  UnitsInv'
<1>a. PICK v, n : v = SubOf[id].user /\ n = SubOf[id].cash
  OBVIOUS
<1>0. UnitsTypes /\ v \in Investors /\ n \in Nat
  BY <1>a, SharesAssumption DEF UnitsInv
<1>1. /\ cash[v] >= n /\ cash' = [cash EXCEPT ![v] = @ - n] /\ fund' = fund + n
      /\ units' = units /\ fee' = fee /\ burn' = burn
  BY <1>a DEF Leg, Covered, Move
<1>2. cash' \in [Investors -> Nat] /\ fund' \in Nat
  <2>1. cash \in [Investors -> Nat] /\ fund \in Nat
    BY <1>0 DEF UnitsTypes
  <2>2. cash[v] - n \in Nat
    BY <1>0, <1>1, <2>1
  <2> QED BY <1>0, <1>1, <2>1, <2>2
<1>3. LegsFit'
  <2>1. \A r \in Reds : RedLegs(r)'
    BY <1>1, RedLegsFrame
  <2> QED BY <2>1, LegsKept
<1>4. \A u \in Investors : UnitsCover(u)'
  BY <1>1, CoverFrame
<1>5. \A u \in Investors : \E k \in Int : Ahead(u)' = Ahead(u) + k /\ units'[u] = units[u] - k
  BY <1>1, StandsStill
<1> QED BY <1>0, <1>1, <1>2, <1>3, <1>4, <1>5, LegStep DEF UnitsTypes

LEMMA PayoutLegKeeps ==
    ASSUME UnitsInv, NEW id \in Reds, <<id, "burn">> \in legsDone, Leg("payout", id)
    PROVE  UnitsInv'
<1>a. PICK v, n : v = RedOf[id].user /\ n = redCash[id]
  OBVIOUS
<1>0. UnitsTypes /\ v \in Investors /\ n \in Nat
  BY <1>a, SharesAssumption DEF UnitsInv, UnitsTypes
<1>1. /\ fund >= n /\ cash' = [cash EXCEPT ![v] = @ + n] /\ fund' = fund - n
      /\ units' = units /\ fee' = fee /\ burn' = burn
  BY <1>a DEF Leg, Covered, Move
<1>2. cash' \in [Investors -> Nat] /\ fund' \in Nat
  BY <1>0, <1>1 DEF UnitsTypes
<1>3. LegsFit'
  <2>1. ASSUME NEW r \in Reds PROVE RedLegs(r)'
    <3>1. CASE r # id
      BY <1>1, <3>1, RedLegsFrame
    <3>2. CASE r = id
      <4>1. RedLegs(id) /\ legsDone' = legsDone \cup {<<id, "payout">>} /\ red' = red
        BY DEF UnitsInv, LegsFit, Leg, rowVars
      <4>2. \A l \in {"reserve", "burn", "void"} : <<id, l>> \in legsDone' <=> <<id, l>> \in legsDone
        BY <4>1
      <4> QED BY <1>1, <3>2, <4>1, <4>2 DEF RedLegs
    <3> QED BY <3>1, <3>2
  <2> QED BY <2>1, LegsKept
<1>4. \A u \in Investors : UnitsCover(u)'
  BY <1>1, CoverFrame
<1>5. \A u \in Investors : \E k \in Int : Ahead(u)' = Ahead(u) + k /\ units'[u] = units[u] - k
  BY <1>1, StandsStill
<1> QED BY <1>0, <1>1, <1>2, <1>3, <1>4, <1>5, LegStep DEF UnitsTypes

LEMMA FeeLegsKeep ==
    ASSUME UnitsInv, NEW id \in Payouts, NEW leg \in {"fee_burn", "fee_payout"}, Leg(leg, id)
    PROVE  UnitsInv'
<1>0. UnitsTypes /\ PayoutUnits[id] \in Nat /\ paidFees[id] \in Nat
  BY SharesAssumption DEF UnitsInv, UnitsTypes
<1>1. /\ cash' = cash /\ units' = units /\ burn' = burn
      /\ (fee' = fee - PayoutUnits[id] /\ fee >= PayoutUnits[id]) \/ fee' = fee
      /\ (fund' = fund - paidFees[id] /\ fund >= paidFees[id]) \/ fund' = fund
  BY DEF Leg, Covered, Move
<1>2. fee' \in Nat /\ fund' \in Nat
  BY <1>0, <1>1 DEF UnitsTypes
<1>3. LegsFit'
  <2>1. \A r \in Reds : RedLegs(r)'
    BY <1>1, RedLegsFrame
  <2> QED BY <2>1, LegsKept
<1>4. \A u \in Investors : UnitsCover(u)'
  BY <1>1, CoverFrame
<1>5. \A u \in Investors : \E k \in Int : Ahead(u)' = Ahead(u) + k /\ units'[u] = units[u] - k
  BY <1>1, StandsStill
<1> QED BY <1>0, <1>1, <1>2, <1>3, <1>4, <1>5, LegStep DEF UnitsTypes

LEMMA MintLegKeeps ==
    ASSUME UnitsInv, NEW id \in Subs, <<id, "cash">> \in legsDone, Leg("mint", id)
    PROVE  UnitsInv'
<1>a. PICK v, n : v = SubOf[id].user /\ n = bought[id]
  OBVIOUS
<1>0. UnitsTypes /\ v \in Investors /\ n \in Nat
  BY <1>a, SharesAssumption DEF UnitsInv, UnitsTypes
<1>1. /\ cash' = cash /\ fund' = fund /\ fee' = fee /\ burn' = burn
      /\ units' = [units EXCEPT ![v] = @ + n]
  BY <1>a DEF Leg, Move
<1>2. units' \in [Investors -> Nat] /\ \A u \in Investors : UnitsCover(u)' /\ units'[u] = units[u] + At(v, u, n)
  BY <1>0, <1>1, UnitsArrive
<1>3. LegsFit'
  <2>1. \A r \in Reds : RedLegs(r)'
    BY <1>1, RedLegsFrame
  <2> QED BY <2>1, LegsKept
<1>4. ASSUME NEW u \in Investors PROVE \E k \in Int : Ahead(u)' = Ahead(u) + k /\ units'[u] = units[u] - k
  <2>0. PICK k : k = At(v, u, 0 - n)
    OBVIOUS
  <2>1. k \in Int /\ At(v, u, n) = 0 - k /\ At(v, u, n) \in Nat
    BY <1>0, <2>0 DEF At
  <2>2. units'[u] = units[u] - k
    <3>1. units[u] \in Nat /\ units'[u] = units[u] + At(v, u, n)
      BY <1>0, <1>2 DEF UnitsTypes
    <3> QED BY <2>1, <3>1
  <2>3. legsDone' = legsDone \cup {<<id, "mint">>} /\ <<id, "mint">> \notin legsDone
        /\ UNCHANGED <<bought, red, dueRow, marked>> /\ bought \in [Subs -> Nat]
    BY <1>0 DEF Leg, rowVars, UnitsTypes
  <2>4. SumOver(SubGap(marked, legsDone', bought, u), Subs) = SumOver(SubGap(marked, legsDone, bought, u), Subs) + k
    <3>1. SubWeight(marked, legsDone', bought, id) - SubWeight(marked, legsDone, bought, id) = 0 - n
      BY <1>0, <1>a, <2>3 DEF SubWeight, Chosen
    <3>2. \A s \in Subs \ {id} : (s \in marked <=> s \in marked) /\ (<<s, "mint">> \in legsDone <=> <<s, "mint">> \in legsDone')
      BY <2>3
    <3>3. SumOver(SubGap(marked, legsDone', bought, u), Subs)
            = SumOver(SubGap(marked, legsDone, bought, u), Subs)
              + At(SubOf[id].user, u, SubWeight(marked, legsDone', bought, id) - SubWeight(marked, legsDone, bought, id))
      BY <2>3, <3>2, SubMoves
    <3> QED BY <1>a, <2>0, <3>1, <3>3
  <2>5. /\ SumOver(SubGap(marked, legsDone, bought, u), Subs) \in Int
        /\ SumOver(IssueGap(marked, legsDone, u), Issues) \in Int
        /\ SumOver(RedGap(red, burn, u), Reds) \in Int
        /\ SumOver(DueGap(dueRow, legsDone, u), Dues) \in Int
    BY <2>3, GapsInt
  <2>6. /\ IssueGap(marked, legsDone', u) = IssueGap(marked, legsDone, u)
        /\ DueGap(dueRow, legsDone', u) = DueGap(dueRow, legsDone, u)
    BY GapsOfLeg
  <2>7. Ahead(u)' = Ahead(u) + k
    <3>1. PICK a, b, c, d : /\ a = SumOver(SubGap(marked, legsDone, bought, u), Subs)
                            /\ b = SumOver(IssueGap(marked, legsDone, u), Issues)
                            /\ c = SumOver(RedGap(red, burn, u), Reds)
                            /\ d = SumOver(DueGap(dueRow, legsDone, u), Dues)
      OBVIOUS
    <3>2. a \in Int /\ b \in Int /\ c \in Int /\ d \in Int
      BY <2>5, <3>1
    <3>3. Ahead(u) = a + b + c + d
      BY <3>1, AheadIs DEF AheadBy
    <3>4. Ahead(u)' = (a + k) + b + c + d
      <4>1. Ahead(u)' = AheadBy(marked, legsDone', bought, red, burn, dueRow, u)
        BY <1>1, <2>3, AheadIs
      <4> QED BY <2>4, <2>6, <3>1, <4>1 DEF AheadBy
    <3> QED BY <2>1, <3>2, <3>3, <3>4
  <2> QED BY <2>1, <2>2, <2>7
<1> QED BY <1>0, <1>1, <1>2, <1>3, <1>4, LegStep DEF UnitsTypes

LEMMA IssueLegKeeps ==
    ASSUME UnitsInv, NEW id \in Issues, issued[id] # "none", IssueOf[id].source = "mint", Leg("issue", id)
    PROVE  UnitsInv'
<1>a. PICK v, n : v = IssueOf[id].user /\ n = IssueOf[id].units
  OBVIOUS
<1>0. UnitsTypes /\ v \in Investors /\ n \in Nat
  BY <1>a, SharesAssumption DEF UnitsInv, UnitsTypes
<1>1. /\ cash' = cash /\ fund' = fund /\ fee' = fee /\ burn' = burn
      /\ units' = [units EXCEPT ![v] = @ + n]
  BY <1>a DEF Leg, Move
<1>2. units' \in [Investors -> Nat] /\ \A u \in Investors : UnitsCover(u)' /\ units'[u] = units[u] + At(v, u, n)
  BY <1>0, <1>1, UnitsArrive
<1>3. LegsFit'
  <2>1. \A r \in Reds : RedLegs(r)'
    BY <1>1, RedLegsFrame
  <2> QED BY <2>1, LegsKept
<1>4. ASSUME NEW u \in Investors PROVE \E k \in Int : Ahead(u)' = Ahead(u) + k /\ units'[u] = units[u] - k
  <2>0. PICK k : k = At(v, u, 0 - n)
    OBVIOUS
  <2>1. k \in Int /\ At(v, u, n) = 0 - k /\ At(v, u, n) \in Nat
    BY <1>0, <2>0 DEF At
  <2>2. units'[u] = units[u] - k
    <3>1. units[u] \in Nat /\ units'[u] = units[u] + At(v, u, n)
      BY <1>0, <1>2 DEF UnitsTypes
    <3> QED BY <2>1, <3>1
  <2>3. legsDone' = legsDone \cup {<<id, "issue">>} /\ <<id, "issue">> \notin legsDone
        /\ UNCHANGED <<bought, red, dueRow, marked>> /\ bought \in [Subs -> Nat]
    BY <1>0 DEF Leg, rowVars, UnitsTypes
  <2>4. SumOver(IssueGap(marked, legsDone', u), Issues) = SumOver(IssueGap(marked, legsDone, u), Issues) + k
    <3>1. IssueWeight(marked, legsDone', id) - IssueWeight(marked, legsDone, id) = 0 - n
      BY <1>0, <1>a, <2>3 DEF IssueWeight, Chosen
    <3>2. \A s \in Issues \ {id} : /\ (s \in marked <=> s \in marked)
                                   /\ (<<s, "issue">> \in legsDone <=> <<s, "issue">> \in legsDone')
                                   /\ (<<s, "retire">> \in legsDone <=> <<s, "retire">> \in legsDone')
      BY <2>3
    <3>3. SumOver(IssueGap(marked, legsDone', u), Issues)
            = SumOver(IssueGap(marked, legsDone, u), Issues)
              + At(IssueOf[id].user, u, IssueWeight(marked, legsDone', id) - IssueWeight(marked, legsDone, id))
      BY <3>2, IssueMoves
    <3> QED BY <1>a, <2>0, <3>1, <3>3
  <2>5. /\ SumOver(SubGap(marked, legsDone, bought, u), Subs) \in Int
        /\ SumOver(IssueGap(marked, legsDone, u), Issues) \in Int
        /\ SumOver(RedGap(red, burn, u), Reds) \in Int
        /\ SumOver(DueGap(dueRow, legsDone, u), Dues) \in Int
    BY <2>3, GapsInt
  <2>6. /\ SubGap(marked, legsDone', bought, u) = SubGap(marked, legsDone, bought, u)
        /\ DueGap(dueRow, legsDone', u) = DueGap(dueRow, legsDone, u)
    BY GapsOfLeg
  <2>7. Ahead(u)' = Ahead(u) + k
    <3>1. PICK a, b, c, d : /\ a = SumOver(SubGap(marked, legsDone, bought, u), Subs)
                            /\ b = SumOver(IssueGap(marked, legsDone, u), Issues)
                            /\ c = SumOver(RedGap(red, burn, u), Reds)
                            /\ d = SumOver(DueGap(dueRow, legsDone, u), Dues)
      OBVIOUS
    <3>2. a \in Int /\ b \in Int /\ c \in Int /\ d \in Int
      BY <2>5, <3>1
    <3>3. Ahead(u) = a + b + c + d
      BY <3>1, AheadIs DEF AheadBy
    <3>4. Ahead(u)' = a + (b + k) + c + d
      <4>1. Ahead(u)' = AheadBy(marked, legsDone', bought, red, burn, dueRow, u)
        BY <1>1, <2>3, AheadIs
      <4> QED BY <2>4, <2>6, <3>1, <4>1 DEF AheadBy
    <3> QED BY <2>1, <3>2, <3>3, <3>4
  <2> QED BY <2>1, <2>2, <2>7
<1> QED BY <1>0, <1>1, <1>2, <1>3, <1>4, LegStep DEF UnitsTypes

LEMMA RetireLegKeeps ==
    ASSUME UnitsInv, NEW id \in Issues, issued[id] # "none", IssueOf[id].source = "retire", Leg("retire", id)
    PROVE  UnitsInv'
<1>a. PICK v, n : v = IssueOf[id].user /\ n = IssueOf[id].units
  OBVIOUS
<1>0. UnitsTypes /\ v \in Investors /\ n \in Nat
  BY <1>a, SharesAssumption DEF UnitsInv, UnitsTypes
<1>1. /\ cash' = cash /\ fund' = fund /\ fee' = fee /\ burn' = burn
      /\ FreeUnits(v) >= n /\ units' = [units EXCEPT ![v] = @ - n]
  BY <1>a DEF Leg, Covered, Move
<1>2. units' \in [Investors -> Nat] /\ \A u \in Investors : UnitsCover(u)' /\ units'[u] = units[u] - At(v, u, n)
  BY <1>0, <1>1, UnitsLeave
<1>3. LegsFit'
  <2>1. \A r \in Reds : RedLegs(r)'
    BY <1>1, RedLegsFrame
  <2> QED BY <2>1, LegsKept
<1>4. ASSUME NEW u \in Investors PROVE \E k \in Int : Ahead(u)' = Ahead(u) + k /\ units'[u] = units[u] - k
  <2>0. PICK k : k = At(v, u, n)
    OBVIOUS
  <2>1. k \in Int
    BY <1>0, <2>0 DEF At
  <2>2. units'[u] = units[u] - k
    BY <1>2, <2>0
  <2>3. legsDone' = legsDone \cup {<<id, "retire">>} /\ <<id, "retire">> \notin legsDone
        /\ UNCHANGED <<bought, red, dueRow, marked>> /\ bought \in [Subs -> Nat]
    BY <1>0 DEF Leg, rowVars, UnitsTypes
  <2>4. SumOver(IssueGap(marked, legsDone', u), Issues) = SumOver(IssueGap(marked, legsDone, u), Issues) + k
    <3>1. IssueWeight(marked, legsDone', id) - IssueWeight(marked, legsDone, id) = n
      BY <1>0, <1>a, <2>3 DEF IssueWeight, Chosen
    <3>2. \A s \in Issues \ {id} : /\ (s \in marked <=> s \in marked)
                                   /\ (<<s, "issue">> \in legsDone <=> <<s, "issue">> \in legsDone')
                                   /\ (<<s, "retire">> \in legsDone <=> <<s, "retire">> \in legsDone')
      BY <2>3
    <3>3. SumOver(IssueGap(marked, legsDone', u), Issues)
            = SumOver(IssueGap(marked, legsDone, u), Issues)
              + At(IssueOf[id].user, u, IssueWeight(marked, legsDone', id) - IssueWeight(marked, legsDone, id))
      BY <3>2, IssueMoves
    <3> QED BY <1>a, <2>0, <3>1, <3>3
  <2>5. /\ SumOver(SubGap(marked, legsDone, bought, u), Subs) \in Int
        /\ SumOver(IssueGap(marked, legsDone, u), Issues) \in Int
        /\ SumOver(RedGap(red, burn, u), Reds) \in Int
        /\ SumOver(DueGap(dueRow, legsDone, u), Dues) \in Int
    BY <2>3, GapsInt
  <2>6. /\ SubGap(marked, legsDone', bought, u) = SubGap(marked, legsDone, bought, u)
        /\ DueGap(dueRow, legsDone', u) = DueGap(dueRow, legsDone, u)
    BY GapsOfLeg
  <2>7. Ahead(u)' = Ahead(u) + k
    <3>1. PICK a, b, c, d : /\ a = SumOver(SubGap(marked, legsDone, bought, u), Subs)
                            /\ b = SumOver(IssueGap(marked, legsDone, u), Issues)
                            /\ c = SumOver(RedGap(red, burn, u), Reds)
                            /\ d = SumOver(DueGap(dueRow, legsDone, u), Dues)
      OBVIOUS
    <3>2. a \in Int /\ b \in Int /\ c \in Int /\ d \in Int
      BY <2>5, <3>1
    <3>3. Ahead(u) = a + b + c + d
      BY <3>1, AheadIs DEF AheadBy
    <3>4. Ahead(u)' = a + (b + k) + c + d
      <4>1. Ahead(u)' = AheadBy(marked, legsDone', bought, red, burn, dueRow, u)
        BY <1>1, <2>3, AheadIs
      <4> QED BY <2>4, <2>6, <3>1, <4>1 DEF AheadBy
    <3> QED BY <2>1, <3>2, <3>3, <3>4
  <2> QED BY <2>1, <2>2, <2>7
<1> QED BY <1>0, <1>1, <1>2, <1>3, <1>4, LegStep DEF UnitsTypes

LEMMA ClawbackLegKeeps ==
    ASSUME UnitsInv, NEW id \in Dues, id \in dueRow, Leg("clawback", id)
    PROVE  UnitsInv'
<1>a. PICK v, n : v = DueOf[id].user /\ n = DueOf[id].units
  OBVIOUS
<1>0. UnitsTypes /\ v \in Investors /\ n \in Nat
  BY <1>a, SharesAssumption DEF UnitsInv, UnitsTypes
<1>1. /\ cash' = cash /\ fund' = fund /\ fee' = fee + n /\ burn' = burn
      /\ FreeUnits(v) >= n /\ units' = [units EXCEPT ![v] = @ - n]
  BY <1>a DEF Leg, Covered, Move
<1>2. units' \in [Investors -> Nat] /\ \A u \in Investors : UnitsCover(u)' /\ units'[u] = units[u] - At(v, u, n)
  BY <1>0, <1>1, UnitsLeave
<1>b. fee' \in Nat
  BY <1>0, <1>1 DEF UnitsTypes
<1>3. LegsFit'
  <2>1. \A r \in Reds : RedLegs(r)'
    BY <1>1, RedLegsFrame
  <2> QED BY <2>1, LegsKept
<1>4. ASSUME NEW u \in Investors PROVE \E k \in Int : Ahead(u)' = Ahead(u) + k /\ units'[u] = units[u] - k
  <2>0. PICK k : k = At(v, u, n)
    OBVIOUS
  <2>1. k \in Int
    BY <1>0, <2>0 DEF At
  <2>2. units'[u] = units[u] - k
    BY <1>2, <2>0
  <2>3. legsDone' = legsDone \cup {<<id, "clawback">>} /\ <<id, "clawback">> \notin legsDone
        /\ UNCHANGED <<bought, red, dueRow, marked>> /\ bought \in [Subs -> Nat]
    BY <1>0 DEF Leg, rowVars, UnitsTypes
  <2>4. SumOver(DueGap(dueRow, legsDone', u), Dues) = SumOver(DueGap(dueRow, legsDone, u), Dues) + k
    <3>1. DueWeight(dueRow, legsDone', id) - DueWeight(dueRow, legsDone, id) = n
      BY <1>0, <1>a, <2>3 DEF DueWeight, Chosen
    <3>2. \A s \in Dues \ {id} : (s \in dueRow <=> s \in dueRow) /\ (<<s, "clawback">> \in legsDone <=> <<s, "clawback">> \in legsDone')
      BY <2>3
    <3>3. SumOver(DueGap(dueRow, legsDone', u), Dues)
            = SumOver(DueGap(dueRow, legsDone, u), Dues)
              + At(DueOf[id].user, u, DueWeight(dueRow, legsDone', id) - DueWeight(dueRow, legsDone, id))
      BY <3>2, DueMoves
    <3> QED BY <1>a, <2>0, <3>1, <3>3
  <2>5. /\ SumOver(SubGap(marked, legsDone, bought, u), Subs) \in Int
        /\ SumOver(IssueGap(marked, legsDone, u), Issues) \in Int
        /\ SumOver(RedGap(red, burn, u), Reds) \in Int
        /\ SumOver(DueGap(dueRow, legsDone, u), Dues) \in Int
    BY <2>3, GapsInt
  <2>6. /\ SubGap(marked, legsDone', bought, u) = SubGap(marked, legsDone, bought, u)
        /\ IssueGap(marked, legsDone', u) = IssueGap(marked, legsDone, u)
    BY GapsOfLeg
  <2>7. Ahead(u)' = Ahead(u) + k
    <3>1. PICK a, b, c, d : /\ a = SumOver(SubGap(marked, legsDone, bought, u), Subs)
                            /\ b = SumOver(IssueGap(marked, legsDone, u), Issues)
                            /\ c = SumOver(RedGap(red, burn, u), Reds)
                            /\ d = SumOver(DueGap(dueRow, legsDone, u), Dues)
      OBVIOUS
    <3>2. a \in Int /\ b \in Int /\ c \in Int /\ d \in Int
      BY <2>5, <3>1
    <3>3. Ahead(u) = a + b + c + d
      BY <3>1, AheadIs DEF AheadBy
    <3>4. Ahead(u)' = a + b + c + (d + k)
      <4>1. Ahead(u)' = AheadBy(marked, legsDone', bought, red, burn, dueRow, u)
        BY <1>1, <2>3, AheadIs
      <4> QED BY <2>4, <2>6, <3>1, <4>1 DEF AheadBy
    <3> QED BY <2>1, <3>2, <3>3, <3>4
  <2> QED BY <2>1, <2>2, <2>7
<1> QED BY <1>0, <1>1, <1>2, <1>3, <1>4, <1>b, LegStep DEF UnitsTypes

\* A pending burn is made, posted or voided.
LEMMA PendingWith ==
    ASSUME NEW b \in [Reds -> {"none", "pending", "posted", "void"}], NEW r \in Reds, b[r] # "pending", NEW u
    PROVE  SumOver(RedUnits, Pending([b EXCEPT ![r] = "pending"], u))
             = SumOver(RedUnits, Pending(b, u)) + At(RedOf[r].user, u, RedOf[r].units)
<1> DEFINE c == [b EXCEPT ![r] = "pending"]
<1>0. c[r] = "pending" /\ \A x \in Reds : x # r => c[x] = b[x]
  OBVIOUS
<1>n. SumOver(RedUnits, Pending(b, u)) \in Nat
  BY BurnsNat
<1> HIDE DEF c
<1>1. CASE RedOf[r].user = u
  <2>1. PICK D : D = Pending(b, u)
    OBVIOUS
  <2>2. Pending(c, u) = D \cup {r} /\ r \notin D
    BY <1>0, <1>1, <2>1 DEF Pending
  <2>3. IsFiniteSet(D) /\ \A x \in D \cup {r} : RedUnits[x] \in Int
    <3>1. \A x \in D : RedUnits[x] \in Nat
      BY <2>1, RedUnitsNat, PendingIn
    <3>2. RedUnits[r] \in Nat
      BY SharesAssumption DEF RedUnits
    <3>3. IsFiniteSet(D)
      BY <2>1, RedUnitsNat, PendingIn
    <3> QED BY <3>1, <3>2, <3>3
  <2>4. SumOver(RedUnits, D \cup {r}) = SumOver(RedUnits, D) + RedUnits[r]
    BY ONLY <2>2, <2>3, SumAdd
  <2>5. At(RedOf[r].user, u, RedOf[r].units) = RedUnits[r]
    BY <1>1 DEF At, RedUnits
  <2> QED BY <2>1, <2>2, <2>4, <2>5 DEF c
<1>2. CASE RedOf[r].user # u
  <2>1. Pending(c, u) = Pending(b, u)
    BY <1>0, <1>2 DEF Pending
  <2>2. At(RedOf[r].user, u, RedOf[r].units) = 0
    BY <1>2 DEF At
  <2> QED BY <1>n, <2>1, <2>2 DEF c
<1> QED BY <1>1, <1>2

LEMMA PendingWithout ==
    ASSUME NEW b \in [Reds -> {"none", "pending", "posted", "void"}], NEW r \in Reds, b[r] = "pending",
           NEW s \in {"posted", "void"}, NEW u
    PROVE  SumOver(RedUnits, Pending(b, u))
             = SumOver(RedUnits, Pending([b EXCEPT ![r] = s], u)) + At(RedOf[r].user, u, RedOf[r].units)
<1> DEFINE c == [b EXCEPT ![r] = s]
<1>1. c \in [Reds -> {"none", "pending", "posted", "void"}] /\ c[r] # "pending"
  OBVIOUS
<1>2. [c EXCEPT ![r] = "pending"] = b
  OBVIOUS
<1> HIDE DEF c
<1>3. SumOver(RedUnits, Pending([c EXCEPT ![r] = "pending"], u))
        = SumOver(RedUnits, Pending(c, u)) + At(RedOf[r].user, u, RedOf[r].units)
  BY <1>1, PendingWith
<1> QED BY <1>2, <1>3 DEF c

\* A leg on a redemption whose burn changes.
LEMMA RedLegsOthers ==
    ASSUME UnitsInv, NEW id \in Reds, NEW leg, Leg(leg, id), NEW s, burn' = [burn EXCEPT ![id] = s],
           RedLegs(id)', leg \in {"reserve", "burn", "void"}
    PROVE  LegsFit'
<1>0. burn \in [Reds -> {"none", "pending", "posted", "void"}]
  BY DEF UnitsInv, UnitsTypes
<1>1. ASSUME NEW r \in Reds PROVE RedLegs(r)'
  <2>1. CASE r # id
    <3>1. burn'[r] = burn[r]
      BY <1>0, <2>1
    <3> QED BY <2>1, <3>1, RedLegsFrame
  <2>2. CASE r = id
    BY <2>2
  <2> QED BY <2>1, <2>2
<1> QED BY <1>1, LegsKept

LEMMA ReserveLegKeeps ==
    ASSUME UnitsInv, NEW id \in Reds, Leg("reserve", id)
    PROVE  UnitsInv'
<1>a. PICK v, n : v = RedOf[id].user /\ n = RedOf[id].units
  OBVIOUS
<1>0. UnitsTypes /\ v \in Investors /\ n \in Nat
  BY <1>a, SharesAssumption DEF UnitsInv
<1>b. burn \in [Reds -> {"none", "pending", "posted", "void"}]
  BY <1>0 DEF UnitsTypes
<1>1. /\ cash' = cash /\ fund' = fund /\ fee' = fee /\ units' = units
      /\ FreeUnits(v) >= n /\ burn' = [burn EXCEPT ![id] = "pending"]
  BY <1>a DEF Leg, Covered, Move
<1>2. RedLegs(id) /\ legsDone' = legsDone \cup {<<id, "reserve">>} /\ <<id, "reserve">> \notin legsDone /\ red' = red
  BY DEF UnitsInv, LegsFit, Leg, rowVars
<1>3. burn[id] = "none"
  BY <1>2 DEF RedLegs
<1>4. burn' \in [Reds -> {"none", "pending", "posted", "void"}] /\ burn'[id] = "pending"
  BY <1>1, <1>b
<1>5. RedLegs(id)'
  <2>1. \A l \in {"burn", "void", "payout"} : <<id, l>> \in legsDone' <=> <<id, l>> \in legsDone
    BY <1>2
  <2>2. <<id, "reserve">> \in legsDone'
    BY <1>2
  <2> QED BY <1>2, <1>3, <1>4, <2>1, <2>2 DEF RedLegs
<1>6. LegsFit'
  BY <1>1, <1>5, RedLegsOthers
<1>7. ASSUME NEW u \in Investors PROVE UnitsCover(u)'
  <2>1. PICK f, g, k : /\ f = SumOver(RedUnits, Pending(burn, u)) /\ g = SumOver(RedUnits, Pending(burn', u))
                       /\ k = At(v, u, n)
    OBVIOUS
  <2>2. g = f + k
    <3>1. burn[id] # "pending"
      BY <1>3
    <3>2. SumOver(RedUnits, Pending([burn EXCEPT ![id] = "pending"], u))
            = SumOver(RedUnits, Pending(burn, u)) + At(RedOf[id].user, u, RedOf[id].units)
      BY <1>b, <3>1, PendingWith
    <3> QED BY <1>1, <1>a, <2>1, <3>2
  <2>3. f \in Nat /\ f <= units[u] /\ units[u] \in Nat
    BY <1>0, <2>1, BurnsNat DEF UnitsInv, UnitsCover, UnitsTypes
  <2>4. g <= units[u]
    <3>1. CASE u = v
      <4>1. units[v] - f >= n
        BY <1>1, <2>1, <3>1, BurnsPendingIs DEF FreeUnits
      <4> QED BY <1>0, <2>1, <2>2, <2>3, <3>1, <4>1 DEF At
    <3>2. CASE u # v
      BY <2>1, <2>2, <2>3, <3>2 DEF At
    <3> QED BY <3>1, <3>2
  <2> QED BY <1>1, <2>1, <2>4 DEF UnitsCover
<1>8. \A u \in Investors : \E k \in Int : Ahead(u)' = Ahead(u) + k /\ units'[u] = units[u] - k
  <2>1. \A r \in Reds : burn'[r] = "posted" <=> burn[r] = "posted"
    BY <1>1, <1>3, <1>b
  <2> QED BY <1>1, <2>1, StandsStill
<1> QED BY <1>0, <1>1, <1>4, <1>6, <1>7, <1>8, LegStep DEF UnitsTypes

LEMMA VoidLegKeeps ==
    ASSUME UnitsInv, NEW id \in Reds, red[id] \in {"failed", "cancelled"}, Leg("void", id)
    PROVE  UnitsInv'
<1>a. PICK v, n : v = RedOf[id].user /\ n = RedOf[id].units
  OBVIOUS
<1>0. UnitsTypes /\ v \in Investors /\ n \in Nat
  BY <1>a, SharesAssumption DEF UnitsInv
<1>b. burn \in [Reds -> {"none", "pending", "posted", "void"}]
  BY <1>0 DEF UnitsTypes
<1>2. RedLegs(id) /\ legsDone' = legsDone \cup {<<id, "void">>} /\ <<id, "void">> \notin legsDone /\ red' = red
  BY DEF UnitsInv, LegsFit, Leg, rowVars
<1>3. burn[id] = "pending" /\ <<id, "burn">> \notin legsDone
  <2>1. burn[id] # "none"
    BY DEF Leg, FoundPending
  <2>2. <<id, "burn">> \notin legsDone
    BY <1>2 DEF RedLegs
  <2> QED BY <1>2, <1>b, <2>1, <2>2 DEF RedLegs
<1>1. /\ cash' = cash /\ fund' = fund /\ fee' = fee /\ units' = units
      /\ burn' = [burn EXCEPT ![id] = "void"]
  BY <1>3 DEF Leg, Move
<1>4. burn' \in [Reds -> {"none", "pending", "posted", "void"}] /\ burn'[id] = "void"
  BY <1>1, <1>b
<1>5. RedLegs(id)'
  <2>1. \A l \in {"burn", "reserve", "payout"} : <<id, l>> \in legsDone' <=> <<id, l>> \in legsDone
    BY <1>2
  <2>2. <<id, "void">> \in legsDone'
    BY <1>2
  <2> QED BY <1>2, <1>3, <1>4, <2>1, <2>2 DEF RedLegs
<1>6. LegsFit'
  BY <1>1, <1>5, RedLegsOthers
<1>7. ASSUME NEW u \in Investors PROVE UnitsCover(u)'
  <2>1. PICK f, g, k : /\ f = SumOver(RedUnits, Pending(burn, u)) /\ g = SumOver(RedUnits, Pending(burn', u))
                       /\ k = At(v, u, n)
    OBVIOUS
  <2>2. f = g + k
    <3>1. SumOver(RedUnits, Pending(burn, u))
            = SumOver(RedUnits, Pending([burn EXCEPT ![id] = "void"], u)) + At(RedOf[id].user, u, RedOf[id].units)
      BY <1>3, <1>b, PendingWithout
    <3> QED BY <1>1, <1>a, <2>1, <3>1
  <2>3. f <= units[u] /\ units[u] \in Nat /\ f \in Nat /\ g \in Nat /\ k \in Nat
    BY <1>0, <2>1, BurnsNat DEF UnitsInv, UnitsCover, UnitsTypes, At
  <2>4. g <= units[u]
    BY <2>2, <2>3
  <2> QED BY <1>1, <2>1, <2>4 DEF UnitsCover
<1>8. \A u \in Investors : \E k \in Int : Ahead(u)' = Ahead(u) + k /\ units'[u] = units[u] - k
  <2>1. \A r \in Reds : burn'[r] = "posted" <=> burn[r] = "posted"
    BY <1>1, <1>3, <1>b
  <2> QED BY <1>1, <2>1, StandsStill
<1> QED BY <1>0, <1>1, <1>4, <1>6, <1>7, <1>8, LegStep DEF UnitsTypes

LEMMA BurnLegKeeps ==
    ASSUME UnitsInv, NEW id \in Reds, red[id] = "completed", Leg("burn", id)
    PROVE  UnitsInv'
<1>a. PICK v, n : v = RedOf[id].user /\ n = RedOf[id].units
  OBVIOUS
<1>0. UnitsTypes /\ v \in Investors /\ n \in Nat
  BY <1>a, SharesAssumption DEF UnitsInv
<1>b. burn \in [Reds -> {"none", "pending", "posted", "void"}] /\ units \in [Investors -> Nat]
  BY <1>0 DEF UnitsTypes
<1>2. RedLegs(id) /\ legsDone' = legsDone \cup {<<id, "burn">>} /\ <<id, "burn">> \notin legsDone
      /\ UNCHANGED <<bought, red, dueRow, marked>>
  BY DEF UnitsInv, LegsFit, Leg, rowVars
<1>3. burn[id] = "pending" /\ <<id, "void">> \notin legsDone
  <2>1. burn[id] # "none"
    BY DEF Leg, FoundPending
  <2>2. <<id, "void">> \notin legsDone
    BY <1>2 DEF RedLegs
  <2> QED BY <1>2, <1>b, <2>1, <2>2 DEF RedLegs
<1>1. /\ cash' = cash /\ fund' = fund /\ fee' = fee /\ units' = [units EXCEPT ![v] = @ - n]
      /\ burn' = [burn EXCEPT ![id] = "posted"]
  BY <1>3, <1>a DEF Leg, Move
<1>4. burn' \in [Reds -> {"none", "pending", "posted", "void"}] /\ burn'[id] = "posted"
      /\ \A r \in Reds : r # id => burn'[r] = burn[r]
  BY <1>1, <1>b
<1>5. RedLegs(id)'
  <2>1. \A l \in {"void", "reserve", "payout"} : <<id, l>> \in legsDone' <=> <<id, l>> \in legsDone
    BY <1>2
  <2>2. <<id, "burn">> \in legsDone'
    BY <1>2
  <2> QED BY <1>2, <1>3, <1>4, <2>1, <2>2 DEF RedLegs
<1>6. LegsFit'
  BY <1>1, <1>5, RedLegsOthers
<1>c. ASSUME NEW u \in Investors
      PROVE  /\ units'[u] = units[u] - At(v, u, n) /\ units[u] - At(v, u, n) \in Nat
             /\ SumOver(RedUnits, Pending(burn', u)) <= units[u] - At(v, u, n)
  <2>1. PICK f, g, k : /\ f = SumOver(RedUnits, Pending(burn, u)) /\ g = SumOver(RedUnits, Pending(burn', u))
                       /\ k = At(v, u, n)
    OBVIOUS
  <2>2. f = g + k
    <3>1. SumOver(RedUnits, Pending(burn, u))
            = SumOver(RedUnits, Pending([burn EXCEPT ![id] = "posted"], u)) + At(RedOf[id].user, u, RedOf[id].units)
      BY <1>3, <1>b, PendingWithout
    <3> QED BY <1>1, <1>a, <2>1, <3>1
  <2>3. f <= units[u] /\ units[u] \in Nat /\ f \in Nat /\ g \in Nat /\ k \in Nat
    BY <1>0, <1>b, <2>1, BurnsNat DEF UnitsInv, UnitsCover, At
  <2>4. g <= units[u] - k /\ units[u] - k \in Nat
    BY <2>2, <2>3
  <2>5. units'[u] = units[u] - k
    <3>1. CASE u = v
      BY <1>1, <1>b, <2>1, <3>1 DEF At
    <3>2. CASE u # v
      <4>1. k = 0 /\ units'[u] = units[u]
        BY <1>1, <1>b, <2>1, <3>2 DEF At
      <4> QED BY <2>3, <4>1
    <3> QED BY <3>1, <3>2
  <2> QED BY <2>1, <2>4, <2>5
<1>d. units' \in [Investors -> Nat]
  <2>1. units' = [u \in Investors |-> units'[u]]
    BY <1>1, <1>b
  <2>2. \A u \in Investors : units'[u] \in Nat
    BY <1>c
  <2> QED BY <2>1, <2>2
<1>7. ASSUME NEW u \in Investors PROVE UnitsCover(u)'
  <2>1. SumOver(RedUnits, Pending(burn', u)) <= units'[u]
    BY <1>c
  <2> QED BY <2>1 DEF UnitsCover
<1>8. ASSUME NEW u \in Investors PROVE \E k \in Int : Ahead(u)' = Ahead(u) + k /\ units'[u] = units[u] - k
  <2>0. PICK k : k = At(v, u, n)
    OBVIOUS
  <2>1. k \in Int
    BY <1>0, <2>0 DEF At
  <2>2. units'[u] = units[u] - k
    BY <1>c, <2>0
  <2>4. SumOver(RedGap(red, burn', u), Reds) = SumOver(RedGap(red, burn, u), Reds) + k
    <3>1. RedWeight(red, burn', id) - RedWeight(red, burn, id) = n
      BY <1>0, <1>a, <1>3, <1>4 DEF RedWeight, Chosen
    <3>2. \A s \in Reds \ {id} : red[s] = red[s] /\ burn[s] = burn'[s]
      BY <1>4
    <3>3. SumOver(RedGap(red, burn', u), Reds)
            = SumOver(RedGap(red, burn, u), Reds)
              + At(RedOf[id].user, u, RedWeight(red, burn', id) - RedWeight(red, burn, id))
      BY <3>2, RedMoves
    <3> QED BY <1>a, <2>0, <3>1, <3>3
  <2>5. /\ SumOver(SubGap(marked, legsDone, bought, u), Subs) \in Int
        /\ SumOver(IssueGap(marked, legsDone, u), Issues) \in Int
        /\ SumOver(RedGap(red, burn, u), Reds) \in Int
        /\ SumOver(DueGap(dueRow, legsDone, u), Dues) \in Int
    BY <1>0, GapsInt DEF UnitsTypes
  <2>6. /\ SubGap(marked, legsDone', bought, u) = SubGap(marked, legsDone, bought, u)
        /\ IssueGap(marked, legsDone', u) = IssueGap(marked, legsDone, u)
        /\ DueGap(dueRow, legsDone', u) = DueGap(dueRow, legsDone, u)
    BY GapsOfLeg
  <2>7. Ahead(u)' = Ahead(u) + k
    <3>1. PICK a, b, c, d : /\ a = SumOver(SubGap(marked, legsDone, bought, u), Subs)
                            /\ b = SumOver(IssueGap(marked, legsDone, u), Issues)
                            /\ c = SumOver(RedGap(red, burn, u), Reds)
                            /\ d = SumOver(DueGap(dueRow, legsDone, u), Dues)
      OBVIOUS
    <3>2. a \in Int /\ b \in Int /\ c \in Int /\ d \in Int
      BY <2>5, <3>1
    <3>3. Ahead(u) = a + b + c + d
      BY <3>1, AheadIs DEF AheadBy
    <3>4. Ahead(u)' = a + b + (c + k) + d
      <4>1. Ahead(u)' = AheadBy(marked, legsDone', bought, red, burn', dueRow, u)
        BY <1>2, AheadIs
      <4> QED BY <2>4, <2>6, <3>1, <4>1 DEF AheadBy
    <3> QED BY <2>1, <3>2, <3>3, <3>4
  <2> QED BY <2>1, <2>2, <2>7
<1> QED BY <1>0, <1>1, <1>4, <1>6, <1>7, <1>8, <1>d, LegStep DEF UnitsTypes

LEMMA RelayLegMovesKeeps ==
    ASSUME UnitsInv, NEW i \in DOMAIN outbox, RelayLegMoves(i)
    PROVE  UnitsInv'
<1>a. PICK e, leg : e = outbox[i] /\ leg = PlanShares(e)[LegOf(i)]
  OBVIOUS
<1>1. LegOf(i) # 0
  BY DEF RelayLegMoves
<1>2. /\ <<e.id, leg>> \notin legsDone
      /\ \/ leg = "cash" /\ e.id \in Subs /\ bought[e.id] > 0
         \/ leg = "mint" /\ e.id \in Subs /\ <<e.id, "cash">> \in legsDone
         \/ leg = "issue" /\ e.id \in Issues /\ issued[e.id] # "none" /\ IssueOf[e.id].source = "mint"
         \/ leg = "retire" /\ e.id \in Issues /\ issued[e.id] # "none" /\ IssueOf[e.id].source = "retire"
         \/ leg = "reserve" /\ e.id \in Reds
         \/ leg = "burn" /\ e.id \in Reds /\ red[e.id] = "completed"
         \/ leg = "payout" /\ e.id \in Reds /\ <<e.id, "burn">> \in legsDone
         \/ leg = "void" /\ e.id \in Reds /\ red[e.id] \in {"failed", "cancelled"}
         \/ leg = "clawback" /\ e.id \in Dues /\ e.id \in dueRow
         \/ leg \in {"fee_burn", "fee_payout"} /\ e.id \in Payouts
  BY <1>1, <1>a, NextLeg
<1>3. Leg(leg, e.id)
  BY <1>2, <1>a DEF RelayLegMoves, Leg
<1> QED BY <1>2, <1>3, CashLegKeeps, MintLegKeeps, IssueLegKeeps, RetireLegKeeps, ReserveLegKeeps, BurnLegKeeps,
           PayoutLegKeeps, VoidLegKeeps, ClawbackLegKeeps, FeeLegsKeep

-----------------------------------------------------------------------------
(***************************************************************************)
(* Shares: the invariant holds.                                            *)
(***************************************************************************)
LEMMA SumOfNothing ==
    ASSUME NEW D, IsFiniteSet(D), NEW w, \A x \in D : w[x] = 0
    PROVE  SumOver(w, D) = 0
<1> DEFINE T == {S \in SUBSET D : SumOver(w, S) = 0}
<1>1. {} \in T
  <2>1. SumOver(w, {}) = 0
    BY SumChosen, FS_EmptySet
  <2> QED BY <2>1
<1>2. ASSUME NEW S \in SUBSET D, S # {}, \A x \in S : S \ {x} \in T PROVE S \in T
  <2>1. PICK x \in S : SumOver(w, S) = w[x] + SumOver(w, S \ {x})
    BY <1>2, FS_Subset, SumChosen
  <2>2. SumOver(w, S \ {x}) = 0 /\ w[x] = 0
    BY <1>2
  <2>3. SumOver(w, S) = 0
    BY <2>1, <2>2
  <2> QED BY <2>3
<1>3. \A S \in SUBSET D : S \in T
  <2> HIDE DEF T
  <2> QED BY <1>1, <1>2, SubsetInduction
<1> QED BY <1>3

\* Rows that are projected as far as the ledger has them put nothing ahead of it.
LEMMA NothingAhead ==
    ASSUME UnitsTypes, NEW u,
           \A s \in Subs : SubWeight(marked, legsDone, bought, s) = 0,
           \A i \in Issues : IssueWeight(marked, legsDone, i) = 0,
           \A r \in Reds : RedWeight(red, burn, r) = 0,
           \A k \in Dues : DueWeight(dueRow, legsDone, k) = 0
    PROVE  Ahead(u) = 0
<1>0. IsFiniteSet(Subs) /\ IsFiniteSet(Issues) /\ IsFiniteSet(Reds) /\ IsFiniteSet(Dues)
  BY SharesAssumption
<1>1. SumOver(SubGap(marked, legsDone, bought, u), Subs) = 0
  <2>1. \A s \in Subs : SubGap(marked, legsDone, bought, u)[s] = 0
    BY DEF SubGap, At
  <2> QED BY <1>0, <2>1, SumOfNothing
<1>2. SumOver(IssueGap(marked, legsDone, u), Issues) = 0
  <2>1. \A s \in Issues : IssueGap(marked, legsDone, u)[s] = 0
    BY DEF IssueGap, At
  <2> QED BY <1>0, <2>1, SumOfNothing
<1>3. SumOver(RedGap(red, burn, u), Reds) = 0
  <2>1. \A s \in Reds : RedGap(red, burn, u)[s] = 0
    BY DEF RedGap, At
  <2> QED BY <1>0, <2>1, SumOfNothing
<1>4. SumOver(DueGap(dueRow, legsDone, u), Dues) = 0
  <2>1. \A s \in Dues : DueGap(dueRow, legsDone, u)[s] = 0
    BY DEF DueGap, At
  <2> QED BY <1>0, <2>1, SumOfNothing
<1> QED BY <1>1, <1>2, <1>3, <1>4 DEF Ahead

LEMMA UnitsStart == SharesInit => UnitsInv
<1> SUFFICES ASSUME SharesInit PROVE UnitsInv
  OBVIOUS
<1>0. /\ product = [state |-> "open", access |-> "view", cap |-> Max(UnitCaps), backing |-> "cash"]
      /\ marks = <<>> /\ cash = StartCash /\ fund = StartFund /\ units = StartUnits /\ fee = 0
      /\ burn = [r \in Reds |-> "none"] /\ legsDone = {} /\ bought = [s \in Subs |-> 0]
      /\ red = [r \in Reds |-> "none"] /\ redCash = [r \in Reds |-> 0]
      /\ issued = [i \in Issues |-> "none"] /\ dueRow = {} /\ paidFees = [p \in Payouts |-> 0]
      /\ pos = [u \in Investors |-> [units |-> StartUnits[u], basis |-> StartUnits[u]]]
      /\ clamped = {} /\ marked = {} /\ outbox = <<>> /\ desk = [d \in Desks |-> Desk]
  BY DEF SharesInit, SharesInitWith
<1>1. UnitsTypes
  <2>1. product \in [state : AllocationStates, access : AllocationAccesses,
                     cap : UnitCaps \cup {Max(UnitCaps)}, backing : {"cash", "in_kind"}]
    BY <1>0 DEF AllocationStates, AllocationAccesses
  <2>2. marks \in Seq([nav : Nat \ {0}, by : Investors]) /\ outbox \in Seq(Events)
    BY <1>0
  <2>3. cash \in [Investors -> Nat] /\ fund \in Nat /\ units \in [Investors -> Nat] /\ fee \in Nat
    BY <1>0, SharesAssumption
  <2>4. desk \in [Desks -> Desked]
    <3> HIDE DEF Desked
    <3> QED BY <1>0, IdleDesk
  <2>5. pos \in [Investors -> [units : Nat, basis : Nat]]
    BY <1>0, SharesAssumption
  <2>6. /\ burn \in [Reds -> {"none", "pending", "posted", "void"}] /\ bought \in [Subs -> Nat]
        /\ red \in [Reds -> RedemptionStates] /\ redCash \in [Reds -> Nat]
        /\ issued \in [Issues -> {"none", "queued", "applied"}] /\ paidFees \in [Payouts -> Nat]
    BY <1>0 DEF RedemptionStates
  <2> QED BY <1>0, <2>1, <2>2, <2>3, <2>4, <2>5, <2>6 DEF UnitsTypes
<1>2. \A d \in Desks : DeskFits(desk[d])
  BY <1>0, IdleDesk
<1>3. RowsTold /\ KeyIssuesOnce
  BY <1>0 DEF RowsTold, KeyIssuesOnce
<1>4. \A j \in DOMAIN outbox : EventFits(outbox[j])
  BY <1>0
<1>5. LegsFit
  BY <1>0 DEF LegsFit, SubLegs, IssueLegs, RedLegs, DueLegs
<1>6. ASSUME NEW u \in Investors PROVE UnitsCover(u) /\ BasisFits(u) /\ GapFits(u)
  <2>0. StartUnits[u] \in Nat /\ units[u] = StartUnits[u]
        /\ pos[u].units = StartUnits[u] /\ pos[u].basis = StartUnits[u]
    BY <1>0, SharesAssumption
  <2>1. UnitsCover(u)
    <3>1. Pending(burn, u) = {}
      BY <1>0 DEF Pending
    <3>2. SumOver(RedUnits, {}) = 0
      BY SumChosen, FS_EmptySet
    <3> QED BY <2>0, <3>1, <3>2 DEF UnitsCover
  <2>2. BasisFits(u)
    <3>1. PICK k, l : k = SumOver(CashPaid, SubsOf(marked, u)) /\ l = SumOver(BasisSet, IssuesOf(marked, u))
      OBVIOUS
    <3>2. k \in Nat /\ l \in Nat
      BY <3>1, BasisSums
    <3>3. StartUnits[u] <= StartUnits[u] + k + l
      BY <2>0, <3>2
    <3> QED BY <2>0, <3>1, <3>3 DEF BasisFits
  <2>3. GapFits(u)
    <3>1. /\ \A s \in Subs : SubWeight(marked, legsDone, bought, s) = 0
          /\ \A i \in Issues : IssueWeight(marked, legsDone, i) = 0
          /\ \A r \in Reds : RedWeight(red, burn, r) = 0
          /\ \A k \in Dues : DueWeight(dueRow, legsDone, k) = 0
      BY <1>0 DEF SubWeight, IssueWeight, RedWeight, DueWeight, Chosen
    <3>2. Ahead(u) = 0
      BY <1>1, <3>1, NothingAhead
    <3> QED BY <2>0, <3>2 DEF GapFits
  <2> QED BY <2>1, <2>2, <2>3
<1> QED BY <1>1, <1>2, <1>3, <1>4, <1>5, <1>6 DEF UnitsInv

LEMMA UnitsStep == UnitsInv /\ [SharesNext]_sharesVars => UnitsInv'
<1> SUFFICES ASSUME UnitsInv, [SharesNext]_sharesVars PROVE UnitsInv'
  OBVIOUS
<1>1. CASE UNCHANGED sharesVars
  <2>1. UnitsTypes' /\ DesksFit'
    BY <1>1 DEF UnitsInv, UnitsTypes, DesksFit, sharesVars, registryVars, markVars, bookVars, rowVars
  <2> QED BY <1>1, <2>1, QuietStep DEF sharesVars, bookVars, rowVars
<1>2. CASE \/ OpenProduct \/ CloseProduct
           \/ \E a \in AllocationAccesses : SetAccess(a)
           \/ \E c \in UnitCaps : SetUnitCap(c)
           \/ \E b \in {"cash", "in_kind"} : SetBacking(b)
           \/ \E u \in Investors : GrantAccess(u) \/ RevokeAccess(u)
  BY <1>2, RegistryKeeps
<1>3. CASE MarkAges \/ FundTopUp
  BY <1>3, MarksKeep
<1>4. ASSUME NEW d \in Desks,
             \/ \E a \in Aums, u \in Investors : PostValuationReads(d, a, u)
             \/ RecordValuation(d)
             \/ \E s \in Subs : SubscribeReads(d, s)
             \/ OpenSubscription(d)
             \/ \E i \in Issues : MintReads(d, i) \/ \E f \in BOOLEAN : RetireReads(d, i, f)
             \/ Issue(d)
             \/ \E r \in Reds : RequestReads(d, r) \/ SettleReads(d, r)
             \/ OpenRedemption(d) \/ SettleRedemption(d)
             \/ \E p \in Payouts : SettleFeesReads(d, p)
             \/ \E k \in Dues : ChargeReads(d, k)
             \/ ChargeUnits(d) \/ SettleFees(d) \/ DeskGivesUp(d)
      PROVE  UnitsInv'
  <2>1. CASE RecordValuation(d)
    BY <2>1, MarksKeep
  <2>2. CASE OpenSubscription(d)
    BY <2>2, OpenSubscriptionKeeps
  <2>3. CASE Issue(d)
    BY <2>3, IssueKeeps
  <2>4. CASE OpenRedemption(d)
    BY <2>4, OpenRedemptionKeeps
  <2>5. CASE SettleRedemption(d)
    BY <2>5, SettleRedemptionKeeps
  <2>6. CASE SettleFees(d)
    BY <2>6, SettleFeesKeeps
  <2>7. CASE \/ \E a \in Aums, u \in Investors : PostValuationReads(d, a, u)
             \/ \E s \in Subs : SubscribeReads(d, s)
             \/ \E i \in Issues : MintReads(d, i) \/ \E f \in BOOLEAN : RetireReads(d, i, f)
             \/ \E r \in Reds : RequestReads(d, r) \/ SettleReads(d, r)
             \/ \E p \in Payouts : SettleFeesReads(d, p)
             \/ \E k \in Dues : ChargeReads(d, k)
             \/ DeskGivesUp(d)
    BY <2>7, ReadsKeep
  <2>8. CASE ChargeUnits(d)
    BY <2>8, ChargeUnitsKeeps
  <2> QED BY <1>4, <2>1, <2>2, <2>3, <2>4, <2>5, <2>6, <2>7, <2>8
<1>5. ASSUME NEW r \in Reds, CancelRedemption(r) \/ FailRedemption(r) PROVE UnitsInv'
  BY <1>5, EndRedemptionKeeps
<1>7. ASSUME NEW i \in DOMAIN outbox, RelayLegMoves(i) \/ RelayParks(i) \/ RelayFinishes(i) \/ UnparkEvent(i)
      PROVE  UnitsInv'
  BY <1>7, RelayLegMovesKeeps, ParksKeep, RelayFinishesKeeps
<1> QED BY <1>1, <1>2, <1>3, <1>4, <1>5, <1>7 DEF SharesNext, SharesRelay

\* Ledger, rows, events and positions of the units fit each other in every
\* reachable state, whatever the relay, the desks and the operators do.
THEOREM SharesInvariant == SharesSpec => []UnitsInv
<1>1. SharesInit => UnitsInv
  BY UnitsStart
<1>2. UnitsInv /\ [SharesNext]_sharesVars => UnitsInv'
  BY UnitsStep
<1> QED BY <1>1, <1>2, PTL DEF SharesSpec

-----------------------------------------------------------------------------
(***************************************************************************)
(* Shares: the properties.                                                 *)
(***************************************************************************)
\* An event whose stamp says so has all its legs on the ledger.
LEMMA ToldIsDone ==
    ASSUME UnitsInv, NEW kind, NEW id, Told(kind, id),
           \A j \in DOMAIN outbox : outbox[j].kind = kind /\ outbox[j].id = id => outbox[j].st = "done"
    PROVE  /\ kind = "subscribed" => id \in marked /\ <<id, "mint">> \in legsDone
           /\ kind = "issued" => /\ id \in marked
                                 /\ <<id, IF IssueOf[id].source = "mint" THEN "issue" ELSE "retire">> \in legsDone
           /\ kind = "settled" => <<id, "burn">> \in legsDone
           /\ kind \in {"failed", "cancelled"} => <<id, "void">> \in legsDone
           /\ kind = "charged" => <<id, "clawback">> \in legsDone
<1>1. PICK j \in DOMAIN outbox : outbox[j].kind = kind /\ outbox[j].id = id
  BY DEF Told
<1>2. PICK e : e = outbox[j]
  OBVIOUS
<1>3. e \in Events /\ EventFits(e) /\ e.kind = kind /\ e.id = id /\ e.st = "done"
  BY <1>1, <1>2, OutboxIs DEF UnitsInv
<1>4. /\ \A k \in DOMAIN PlanShares(e) : <<id, PlanShares(e)[k]>> \in legsDone
      /\ kind \in {"subscribed", "issued"} => id \in marked
  BY <1>3 DEF EventFits
<1>5. ASSUME kind = "subscribed" PROVE <<id, "mint">> \in legsDone
  <2>1. PlanShares(e) = <<"cash", "mint">>
    BY <1>3, <1>5, PlanIs
  <2>2. 2 \in DOMAIN PlanShares(e) /\ PlanShares(e)[2] = "mint"
    BY <2>1
  <2> QED BY <1>4, <2>2
<1>6. ASSUME kind = "issued" PROVE <<id, IF IssueOf[id].source = "mint" THEN "issue" ELSE "retire">> \in legsDone
  <2>1. id \in Issues /\ IssueOf[id].source \in {"mint", "retire"}
    BY <1>3, <1>6, EventIs, SharesAssumption
  <2>2. CASE IssueOf[id].source = "mint"
    <3>1. PlanShares(e) = <<"issue">>
      BY <1>3, <1>6, <2>2, PlanIs
    <3>2. 1 \in DOMAIN PlanShares(e) /\ PlanShares(e)[1] = "issue"
      BY <3>1
    <3> QED BY <1>4, <2>2, <3>2
  <2>3. CASE IssueOf[id].source = "retire"
    <3>1. PlanShares(e) = <<"retire">>
      BY <1>3, <1>6, <2>3, PlanIs
    <3>2. 1 \in DOMAIN PlanShares(e) /\ PlanShares(e)[1] = "retire"
      BY <3>1
    <3> QED BY <1>4, <2>3, <3>2
  <2> QED BY <2>1, <2>2, <2>3
<1>7. ASSUME kind = "settled" PROVE <<id, "burn">> \in legsDone
  <2>1. PlanShares(e) = <<"burn", "payout">>
    BY <1>3, <1>7, PlanIs
  <2>2. 1 \in DOMAIN PlanShares(e) /\ PlanShares(e)[1] = "burn"
    BY <2>1
  <2> QED BY <1>4, <2>2
<1>8. ASSUME kind \in {"failed", "cancelled"} PROVE <<id, "void">> \in legsDone
  <2>1. PlanShares(e) = <<"void">>
    BY <1>3, <1>8, PlanIs
  <2>2. 1 \in DOMAIN PlanShares(e) /\ PlanShares(e)[1] = "void"
    BY <2>1
  <2> QED BY <1>4, <2>2
<1>9. ASSUME kind = "charged" PROVE <<id, "clawback">> \in legsDone
  <2>1. PlanShares(e) = <<"clawback">>
    BY <1>3, <1>9, PlanIs
  <2>2. 1 \in DOMAIN PlanShares(e) /\ PlanShares(e)[1] = "clawback"
    BY <2>1
  <2> QED BY <1>4, <2>2
<1> QED BY <1>4, <1>5, <1>6, <1>7, <1>8, <1>9

\* With nothing left to do, nothing is ahead of the ledger.
LEMMA SettledIsLevel ==
    ASSUME UnitsInv, Unsettled = {}, NEW u
    PROVE  Ahead(u) = 0
<1>0. UnitsTypes /\ LegsFit /\ RowsTold
  BY DEF UnitsInv
<1>1. \A kind \in {"subscribed", "issued", "settled", "charged"} : \A id :
          \A j \in DOMAIN outbox : outbox[j].kind = kind /\ outbox[j].id = id => outbox[j].st = "done"
  BY DEF Unsettled
<1>2. ASSUME NEW s \in Subs PROVE SubWeight(marked, legsDone, bought, s) = 0
  <2>0. bought[s] \in Nat /\ (s \in marked => <<s, "mint">> \in legsDone)
    BY <1>0 DEF LegsFit, UnitsTypes
  <2>1. CASE bought[s] > 0
    <3>1. Told("subscribed", s)
      BY <1>0, <2>1 DEF RowsTold
    <3>2. s \in marked /\ <<s, "mint">> \in legsDone
      BY <1>1, <3>1, ToldIsDone
    <3> QED BY <2>0, <3>2 DEF SubWeight, Chosen
  <2>2. CASE ~ (bought[s] > 0)
    <3>1. bought[s] = 0
      BY <2>0, <2>2
    <3> QED BY <3>1 DEF SubWeight, Chosen
  <2> QED BY <2>1, <2>2
<1>3. ASSUME NEW i \in Issues PROVE IssueWeight(marked, legsDone, i) = 0
  <2>0. /\ IssueOf[i].units \in Nat /\ IssueLegs(i)
        /\ i \in marked => <<i, "issue">> \in legsDone \/ <<i, "retire">> \in legsDone
    BY <1>0, SharesAssumption DEF LegsFit
  <2>1. CASE issued[i] # "none"
    <3>1. Told("issued", i)
      BY <1>0, <2>1 DEF RowsTold
    <3>2. i \in marked /\ <<i, IF IssueOf[i].source = "mint" THEN "issue" ELSE "retire">> \in legsDone
      BY <1>1, <3>1, ToldIsDone
    <3> QED BY <2>0, <3>2 DEF IssueWeight, Chosen
  <2>2. CASE issued[i] = "none"
    <3>1. <<i, "issue">> \notin legsDone /\ <<i, "retire">> \notin legsDone /\ i \notin marked
      BY <2>0, <2>2 DEF IssueLegs
    <3> QED BY <3>1 DEF IssueWeight, Chosen
  <2> QED BY <2>1, <2>2
<1>4. ASSUME NEW r \in Reds PROVE RedWeight(red, burn, r) = 0
  <2>0. RedLegs(r) /\ RedOf[r].units \in Nat
    BY <1>0, SharesAssumption DEF LegsFit
  <2>1. CASE red[r] = "completed"
    <3>1. Told("settled", r)
      BY <1>0, <2>1 DEF RowsTold
    <3>2. <<r, "burn">> \in legsDone
      BY <1>1, <3>1, ToldIsDone
    <3>3. burn[r] = "posted"
      BY <2>0, <3>2 DEF RedLegs
    <3> QED BY <2>0, <2>1, <3>3 DEF RedWeight, Chosen
  <2>2. CASE red[r] # "completed"
    <3>1. burn[r] # "posted"
      BY <2>0, <2>2 DEF RedLegs
    <3> QED BY <2>2, <3>1 DEF RedWeight, Chosen
  <2> QED BY <2>1, <2>2
<1>5. ASSUME NEW k \in Dues PROVE DueWeight(dueRow, legsDone, k) = 0
  <2>0. DueLegs(k) /\ DueOf[k].units \in Nat
    BY <1>0, SharesAssumption DEF LegsFit
  <2>1. CASE k \in dueRow
    <3>1. Told("charged", k)
      BY <1>0, <2>1 DEF RowsTold
    <3>2. <<k, "clawback">> \in legsDone
      BY <1>1, <3>1, ToldIsDone
    <3> QED BY <2>0, <2>1, <3>2 DEF DueWeight, Chosen
  <2>2. CASE k \notin dueRow
    BY <2>0, <2>2 DEF DueLegs, DueWeight, Chosen
  <2> QED BY <2>1, <2>2
<1> QED BY <1>0, <1>2, <1>3, <1>4, <1>5, NothingAhead

LEMMA EndsHoldNothing == UnitsInv => EndedHoldsNothing
<1> SUFFICES ASSUME UnitsInv, NEW r \in Reds, red[r] \in {"completed", "failed", "cancelled"},
                    \A j \in DOMAIN outbox : outbox[j].id = r => outbox[j].st = "done"
             PROVE  burn[r] = IF red[r] = "completed" THEN "posted" ELSE "void"
  BY DEF EndedHoldsNothing
<1>0. RowsTold /\ RedLegs(r)
  BY DEF UnitsInv, LegsFit
<1>1. Told(IF red[r] = "completed" THEN "settled" ELSE red[r], r)
  BY <1>0 DEF RowsTold
<1>2. CASE red[r] = "completed"
  <2>1. Told("settled", r)
    BY <1>1, <1>2
  <2>2. <<r, "burn">> \in legsDone
    BY <2>1, ToldIsDone
  <2> QED BY <1>0, <1>2, <2>2 DEF RedLegs
<1>3. CASE red[r] # "completed"
  <2>1. PICK x \in {"failed", "cancelled"} : red[r] = x
    BY <1>3
  <2>2. Told(x, r)
    BY <1>1, <1>3, <2>1
  <2>3. <<r, "void">> \in legsDone
    BY <2>2, ToldIsDone
  <2> QED BY <1>0, <1>3, <2>3 DEF RedLegs
<1> QED BY <1>2, <1>3

\* The sums of the property are sums over the requests.
LEMMA CashOf ==
    \A u : MapThenSumSet(LAMBDA s : SubOf[s].cash, {s \in Subs : SubOf[s].user = u}) = SumOver(CashPaid, SubsOf(Subs, u))
<1> SUFFICES ASSUME NEW u
             PROVE  MapThenSumSet(LAMBDA s : SubOf[s].cash, {s \in Subs : SubOf[s].user = u})
                      = SumOver(CashPaid, SubsOf(Subs, u))
  OBVIOUS
<1> DEFINE D == {s \in Subs : SubOf[s].user = u}
           w == CashPaid
           Rec(f) == f = [S \in SUBSET D |-> IF S = {} THEN 0
                            ELSE SubOf[CHOOSE x \in S : TRUE].cash + f[S \ {CHOOSE x \in S : TRUE}]]
           it == CHOOSE f : Rec(f)
<1>0. D = SubsOf(Subs, u)
  BY DEF SubsOf
<1>1. IsFiniteSet(D) /\ D \subseteq Subs
  BY SharesAssumption, FS_Subset
<1>2. \A S \in SUBSET D : S # {} => w[CHOOSE x \in S : TRUE] = SubOf[CHOOSE x \in S : TRUE].cash
  BY <1>1 DEF CashPaid
<1>3. \A f : Rec(f) <=> IsSum(f, w, D)
  <2> HIDE DEF w, D
  <2> QED BY <1>2 DEF IsSum
<1>4. Rec(it)
  <2>1. \E f : IsSum(f, w, D)
    BY <1>1, SumExists
  <2> HIDE DEF Rec
  <2> QED BY <2>1, <1>3
<1>5. it[D] = SumOver(w, D)
  <2>1. IsSum(it, w, D)
    BY <1>3, <1>4
  <2> HIDE DEF it, w, D
  <2> QED BY <1>1, <2>1, SumUnique
<1>6. MapThenSumSet(LAMBDA s : SubOf[s].cash, D) = it[D]
  BY DEF MapThenSumSet, MapThenFoldSet
<1> QED BY <1>0, <1>5, <1>6

LEMMA BasisOf ==
    \A u : MapThenSumSet(LAMBDA i : IssueOf[i].basis, {i \in Issues : IssueOf[i].user = u})
             = SumOver(BasisSet, IssuesOf(Issues, u))
<1> SUFFICES ASSUME NEW u
             PROVE  MapThenSumSet(LAMBDA i : IssueOf[i].basis, {i \in Issues : IssueOf[i].user = u})
                      = SumOver(BasisSet, IssuesOf(Issues, u))
  OBVIOUS
<1> DEFINE D == {i \in Issues : IssueOf[i].user = u}
           w == BasisSet
           Rec(f) == f = [S \in SUBSET D |-> IF S = {} THEN 0
                            ELSE IssueOf[CHOOSE x \in S : TRUE].basis + f[S \ {CHOOSE x \in S : TRUE}]]
           it == CHOOSE f : Rec(f)
<1>0. D = IssuesOf(Issues, u)
  BY DEF IssuesOf
<1>1. IsFiniteSet(D) /\ D \subseteq Issues
  BY SharesAssumption, FS_Subset
<1>2. \A S \in SUBSET D : S # {} => w[CHOOSE x \in S : TRUE] = IssueOf[CHOOSE x \in S : TRUE].basis
  BY <1>1 DEF BasisSet
<1>3. \A f : Rec(f) <=> IsSum(f, w, D)
  <2> HIDE DEF w, D
  <2> QED BY <1>2 DEF IsSum
<1>4. Rec(it)
  <2>1. \E f : IsSum(f, w, D)
    BY <1>1, SumExists
  <2> HIDE DEF Rec
  <2> QED BY <2>1, <1>3
<1>5. it[D] = SumOver(w, D)
  <2>1. IsSum(it, w, D)
    BY <1>3, <1>4
  <2> HIDE DEF it, w, D
  <2> QED BY <1>1, <2>1, SumUnique
<1>6. MapThenSumSet(LAMBDA i : IssueOf[i].basis, D) = it[D]
  BY DEF MapThenSumSet, MapThenFoldSet
<1> QED BY <1>0, <1>5, <1>6

LEMMA BasisFollows == UnitsInv => BasisFollowsUnits
<1> SUFFICES ASSUME UnitsInv, NEW u \in Investors
             PROVE  /\ pos[u].basis <= StartUnits[u]
                           + MapThenSumSet(LAMBDA s : SubOf[s].cash, {s \in Subs : SubOf[s].user = u})
                           + MapThenSumSet(LAMBDA i : IssueOf[i].basis, {i \in Issues : IssueOf[i].user = u})
                    /\ pos[u].units = 0 /\ dueRow = {} => pos[u].basis = 0
  BY DEF BasisFollowsUnits
<1>0. BasisFits(u) /\ pos[u].basis \in Nat /\ StartUnits[u] \in Nat
  BY PosIs, SharesAssumption DEF UnitsInv
<1>1. PICK a, b, c, d : /\ a = SumOver(CashPaid, SubsOf(marked, u)) /\ b = SumOver(BasisSet, IssuesOf(marked, u))
                        /\ c = SumOver(CashPaid, SubsOf(Subs, u)) /\ d = SumOver(BasisSet, IssuesOf(Issues, u))
  OBVIOUS
<1>2. a \in Nat /\ b \in Nat /\ c \in Nat /\ d \in Nat
  BY <1>1, BasisSums
<1>3. a <= c
  <2>1. PICK S, D : S = SubsOf(marked, u) /\ D = SubsOf(Subs, u)
    OBVIOUS
  <2>2. IsFiniteSet(D) /\ S \in SUBSET D /\ \A x \in D : CashPaid[x] \in Nat
    <3>1. D \subseteq Subs /\ S \subseteq D
      BY <2>1 DEF SubsOf
    <3> QED BY <3>1, SharesAssumption, FS_Subset DEF CashPaid
  <2>3. SumOver(CashPaid, S) <= SumOver(CashPaid, D)
    BY ONLY <2>2, SumPart
  <2> QED BY <1>1, <2>1, <2>3
<1>4. b <= d
  <2>1. PICK S, D : S = IssuesOf(marked, u) /\ D = IssuesOf(Issues, u)
    OBVIOUS
  <2>2. IsFiniteSet(D) /\ S \in SUBSET D /\ \A x \in D : BasisSet[x] \in Nat
    <3>1. D \subseteq Issues /\ S \subseteq D
      BY <2>1 DEF IssuesOf
    <3> QED BY <3>1, SharesAssumption, FS_Subset DEF BasisSet
  <2>3. SumOver(BasisSet, S) <= SumOver(BasisSet, D)
    BY ONLY <2>2, SumPart
  <2> QED BY <1>1, <2>1, <2>3
<1>5. pos[u].basis <= StartUnits[u] + c + d
  <2>1. pos[u].basis <= StartUnits[u] + a + b
    BY <1>0, <1>1 DEF BasisFits
  <2> QED BY <1>0, <1>2, <1>3, <1>4, <2>1
<1>6. pos[u].basis <= StartUnits[u]
                           + MapThenSumSet(LAMBDA s : SubOf[s].cash, {s \in Subs : SubOf[s].user = u})
                           + MapThenSumSet(LAMBDA i : IssueOf[i].basis, {i \in Issues : IssueOf[i].user = u})
  BY <1>1, <1>5, CashOf, BasisOf
<1> QED BY <1>0, <1>6 DEF BasisFits

\* Once everything is delivered no position is short of the ledger, and one whose
\* projection was never clamped is level with it.
LEMMA PositionsFollow == UnitsInv => ProjectionFollowsLedger
<1> SUFFICES ASSUME UnitsInv, Unsettled = {}, NEW u \in Investors
             PROVE  pos[u].units >= units[u] /\ (u \notin clamped => pos[u].units = units[u])
  BY DEF ProjectionFollowsLedger
<1>1. Ahead(u) = 0
  BY SettledIsLevel
<1>2. GapFits(u) /\ units[u] \in Nat /\ pos[u].units \in Nat
  BY PosIs DEF UnitsInv, UnitsTypes
<1> QED BY <1>1, <1>2 DEF GapFits

\* Units and cash are exchanged whole: a redemption that is paid is burned, minted
\* units are paid, a key issues once, an ended redemption holds nothing, a basis
\* follows its units, and a position is never short of the ledger once its events
\* are delivered, and level with it unless a charge or a retirement was clamped.
THEOREM UnitsCash == SharesSpec => []UnitsMatchCash
<1>1. UnitsInv => PaidIsBurned /\ NoUnitsUnpaid
  <2> SUFFICES ASSUME UnitsInv PROVE PaidIsBurned /\ NoUnitsUnpaid
    OBVIOUS
  <2>1. LegsFit
    BY DEF UnitsInv
  <2>2. PaidIsBurned
    BY <2>1 DEF LegsFit, RedLegs, PaidIsBurned
  <2>3. NoUnitsUnpaid
    BY <2>1 DEF LegsFit, SubLegs, NoUnitsUnpaid
  <2> QED BY <2>2, <2>3
<1>2. UnitsInv => KeyIssuesOnce
  BY DEF UnitsInv
<1>3. UnitsInv => EndedHoldsNothing /\ BasisFollowsUnits /\ ProjectionFollowsLedger
  BY EndsHoldNothing, BasisFollows, PositionsFollow
<1>4. UnitsInv => UnitsMatchCash
  BY <1>1, <1>2, <1>3 DEF UnitsMatchCash
<1> QED BY <1>4, SharesInvariant, PTL

\* The rows, the ledger and the registers hold values of their types, and no
\* balance, position or supply is negative.
THEOREM SharesTypes == SharesSpec => []SharesTypeOK
<1>1. UnitsInv => SharesTypeOK
  <2> SUFFICES ASSUME UnitsInv PROVE SharesTypeOK
    OBVIOUS
  <2>0. UnitsTypes
    BY DEF UnitsInv
  <2>1. product.state \in AllocationStates /\ product.access \in AllocationAccesses
    BY <2>0 DEF UnitsTypes
  <2>2. ASSUME NEW u \in Investors
        PROVE  cash[u] >= 0 /\ FreeUnits(u) >= 0 /\ pos[u].units >= 0 /\ pos[u].basis >= 0
    <3>1. cash[u] \in Nat /\ units[u] \in Nat /\ pos[u].units \in Nat /\ pos[u].basis \in Nat
      BY <2>0, PosIs DEF UnitsTypes
    <3>2. PICK f : f = SumOver(RedUnits, Pending(burn, u))
      OBVIOUS
    <3>3. f \in Nat /\ f <= units[u] /\ FreeUnits(u) = units[u] - f
      BY <3>2, BurnsNat, BurnsPendingIs DEF UnitsInv, UnitsCover, FreeUnits
    <3> QED BY <3>1, <3>3
  <2>3. /\ fund >= 0 /\ fee >= 0 /\ red \in [Reds -> RedemptionStates]
        /\ burn \in [Reds -> {"none", "pending", "posted", "void"}]
        /\ issued \in [Issues -> {"none", "queued", "applied"}]
        /\ marked \subseteq Subs \union Issues
    BY <2>0 DEF UnitsTypes
  <2> QED BY <2>1, <2>2, <2>3 DEF SharesTypeOK
<1> QED BY <1>1, SharesInvariant, PTL
=============================================================================
