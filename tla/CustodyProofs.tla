--------------------------- MODULE CustodyProofs ---------------------------
(***************************************************************************)
(* TRON and TON custody pay a withdrawal once, for any number of           *)
(* withdrawals, any expiration window and every fault of the rails, while  *)
(* one session at a time drains the outbox.  The watchers drive sends of   *)
(* their own beside it.                                                    *)
(*                                                                         *)
(* TRON: only the stored transaction can still land.  A row is replaced by *)
(* a driver that found the stored transaction dead, and a transaction is   *)
(* dead for good: its expiration has passed, it is in no block, and by the *)
(* margin the node that had no receipt of it had every block that could    *)
(* have taken it.  A driver that read the row long ago holds either the    *)
(* stored transaction or a dead one, which no node takes.                  *)
(*                                                                         *)
(* TON: what the wallet took is stored at the seqno it took it at, no two  *)
(* stored messages share one, and the relay signs at the next.  A row is   *)
(* signed again only at its own seqno, and deleted only before anything of *)
(* it was sent, unless the watcher read it during its first send: such a   *)
(* withdrawal is forgotten, and what holds of it is said apart.            *)
(***************************************************************************)
EXTENDS TronCustody, TonCustody, Sums

\* One session holds the relay's lock (TronRelays: "more than one only when the lock was lost").
OneDrainer == TronWatcher \notin TronRelays /\ \A d, e \in TronRelays : d = e

----------------------------------------------------------------------------
Signed(w, k) == k \in TronSigned /\ tExp[w][k] # -1

\* No block has the transaction and none will take it.
DeadTx(w, k) == Signed(w, k) /\ tNow > tExp[w][k] /\ tChain[w][k] \notin TronMined

\* A driver that is to send k may: it is the stored transaction, or one no node takes.
Sendable(w, k) == Signed(w, k) /\ (k = tRow[w] \/ DeadTx(w, k))

\* What is on its way was signed; a block takes a transaction before it expires.
ChainFits ==
    \A w \in TronSends : \A k \in TronSigned :
        /\ tChain[w][k] # "none" => tExp[w][k] # -1
        /\ tChain[w][k] \in TronMined => tBlock[w][k] <= tExp[w][k]

\* The row names a signed transaction, and no other can land.
OnlyTheRowLands ==
    \A w \in TronSends :
        /\ tRow[w] # 0 => Signed(w, tRow[w])
        /\ \A k \in TronSigned : k # tRow[w] =>
              tChain[w][k] \notin TronMined /\ (tChain[w][k] = "sent" => tNow > tExp[w][k])

\* What a driver has read is still good for what it is about to do.
DriverFits(d) ==
    LET w == tOn[d].w
        old == tOn[d].old
        new == tOn[d].new
    IN  /\ tAt[d] # "idle" => w \in TronSends
        /\ tOn[d].solid <= tSolid
        /\ tAt[d] \in {"fund", "sign"} /\ old # 0 => DeadTx(w, old)
        /\ tAt[d] \in {"fund", "sign", "store"} /\ old = 0 => d \in TronRelays /\ tRow[w] = 0
        /\ tAt[d] = "store" => old = 0 /\ Signed(w, new)
        /\ tAt[d] = "replace" => DeadTx(w, old) /\ Signed(w, new)
        /\ tAt[d] = "submit" => Sendable(w, new)
        /\ tAt[d] \in {"resubmit", "receipt_of_dead", "check"} => Sendable(w, old)
        /\ tAt[d] = "receipt_of_dead" => tExp[w][old] + TronMargin < tOn[d].solid
        /\ tAt[d] = "check" => d = TronWatcher /\ tRow[w] # 0
DriversFit == \A d \in TronDrivers : DriverFits(d)

TronInv == TronTypeOK /\ ChainFits /\ OnlyTheRowLands /\ TronSettledIsFinal /\ DriversFit

----------------------------------------------------------------------------
\* What no step takes back: a signature keeps its expiration, a dead transaction stays dead,
\* and what a driver may send it may send later.
Stays ==
    /\ tSolid' \in Nat /\ tSolid <= tSolid'
    /\ \A w \in TronSends : tRow[w] # 0 => tRow'[w] # 0
    /\ \A w \in TronSends : \A k \in TronSigned :
          /\ Signed(w, k) => Signed(w, k)' /\ tExp'[w][k] = tExp[w][k]
          /\ DeadTx(w, k) => DeadTx(w, k)'
          /\ Sendable(w, k) => Sendable(w, k)'

\* A driver that stands still keeps what it found, when no row appears behind a first send.
LEMMA Waiting ==
    ASSUME TronTypeOK, NEW e \in TronDrivers, DriverFits(e), Stays,
           tAt'[e] = tAt[e], tOn'[e] = tOn[e],
           tAt[e] \in {"fund", "sign", "store"} /\ tOn[e].old = 0 => tRow'[tOn[e].w] = tRow[tOn[e].w]
    PROVE  DriverFits(e)'
<1>1. PICK w, old, new, solid : w = tOn[e].w /\ old = tOn[e].old /\ new = tOn[e].new /\ solid = tOn[e].solid
  OBVIOUS
<1>2. solid <= tSolid'
  BY <1>1 DEF TronTypeOK, TronTimes, Stays, DriverFits
<1>3. ASSUME tAt[e] # "idle"
      PROVE  /\ tRow[w] # 0 => tRow'[w] # 0
             /\ \A k : /\ Signed(w, k) => Signed(w, k)' /\ tExp'[w][k] = tExp[w][k]
                       /\ DeadTx(w, k) => DeadTx(w, k)'
                       /\ Sendable(w, k) => Sendable(w, k)'
  <2>1. w \in TronSends
    BY <1>1, <1>3 DEF DriverFits
  <2>2. \A k : Signed(w, k) \/ DeadTx(w, k) \/ Sendable(w, k) => k \in TronSigned
    BY DEF Signed, DeadTx, Sendable
  <2>. QED
    BY <2>1, <2>2 DEF Stays
<1>4. Sendable(w, old) => Signed(w, old)
  BY DEF Sendable
<1>. QED
  BY <1>1, <1>2, <1>3, <1>4 DEF DriverFits

\* Steps of the drivers and of operators that touch neither the rows nor the chain.
LEMMA Still ==
    ASSUME TronInv, UNCHANGED <<tRow, tExp, tChain, tBlock, tNow, tSolid>>
    PROVE  /\ ChainFits' /\ OnlyTheRowLands' /\ Stays
           /\ tState' = tState => TronSettledIsFinal'
<1>1. ChainFits'
  BY DEF TronInv, ChainFits
<1>2. OnlyTheRowLands'
  BY DEF TronInv, OnlyTheRowLands, Signed
<1>3. Stays
  BY DEF TronInv, TronTypeOK, TronTimes, Stays, Signed, DeadTx, Sendable
<1>4. tState' = tState => TronSettledIsFinal'
  BY DEF TronInv, TronSettledIsFinal
<1>. QED
  BY <1>1, <1>2, <1>3, <1>4

\* Only d moves, and its own facts hold: so do those of the others.
LEMMA Alone ==
    ASSUME TronInv, Stays, NEW d \in TronDrivers, NEW at, NEW on, TronGoto(d, at, on), DriverFits(d)',
           \A e \in TronDrivers : e # d /\ tAt[e] \in {"fund", "sign", "store"} /\ tOn[e].old = 0
                                     => tRow'[tOn[e].w] = tRow[tOn[e].w]
    PROVE  DriversFit'
<1>1. SUFFICES ASSUME NEW e \in TronDrivers, e # d
               PROVE  DriverFits(e)'
  BY DEF DriversFit
<1>2. tAt'[e] = tAt[e] /\ tOn'[e] = tOn[e]
  BY <1>1 DEF TronInv, TronTypeOK, TronGoto
<1>. QED
  BY <1>1, <1>2, Waiting DEF TronInv, DriversFit

\* A step of d that touches neither the rows nor the chain.
LEMMA Moves ==
    ASSUME TronInv, UNCHANGED <<tState, tRow, tExp, tChain, tBlock, tNow, tSolid>>,
           NEW d \in TronDrivers, NEW at, NEW on, TronGoto(d, at, on), TronTypeOK', DriverFits(d)'
    PROVE  TronInv'
<1>1. ChainFits' /\ OnlyTheRowLands' /\ Stays /\ TronSettledIsFinal'
  BY Still
<1>2. DriversFit'
  BY <1>1, Alone
<1>. QED
  BY <1>1, <1>2 DEF TronInv

\* An idle driver needs nothing.
LEMMA Resting ==
    ASSUME NEW d \in TronDrivers, TronTypeOK, TronTypeOK', TronDone(d)
    PROVE  DriverFits(d)'
<1>1. tAt'[d] = "idle" /\ tOn'[d] = TronIdle
  BY DEF TronTypeOK, TronDone, TronGoto
<1>2. tOn'[d].solid <= tSolid'
  BY <1>1 DEF TronIdle, TronTypeOK, TronTimes
<1>. QED
  BY <1>1, <1>2 DEF DriverFits, TronIdle

Labels == {"idle", "fund", "sign", "store", "submit", "resubmit", "receipt_of_dead", "replace", "check"}
Reads == [w : TronSends \cup {"none"}, old : 0..TronMaxSigned, new : 0..TronMaxSigned, solid : TronTimes]

LEMMA IdleType == TronIdle \in Reads
  BY TronAssumption DEF TronIdle, TronTimes, Reads

\* A driver's move keeps the types of what the drivers have.
LEMMA GotoType ==
    ASSUME TronTypeOK, NEW d \in TronDrivers, NEW at \in Labels, NEW on \in Reads, TronGoto(d, at, on)
    PROVE  tAt' \in [TronDrivers -> Labels] /\ tOn' \in [TronDrivers -> Reads] /\ tAt'[d] = at /\ tOn'[d] = on
<1>1. tAt \in [TronDrivers -> Labels] /\ tOn \in [TronDrivers -> Reads]
  BY DEF TronTypeOK, Labels, Reads
<1>. QED
  BY <1>1 DEF TronGoto

\* One transaction changes on the chain.
LEMMA ChainType ==
    ASSUME TronTypeOK, NEW w \in TronSends, NEW k \in TronSigned, NEW c \in {"none", "sent"} \cup TronMined
    PROVE  /\ tChain \in [TronSends -> [TronSigned -> {"none", "sent"} \cup TronMined]]
           /\ [tChain EXCEPT ![w][k] = c] \in [TronSends -> [TronSigned -> {"none", "sent"} \cup TronMined]]
<1> DEFINE C == {"none", "sent"} \cup TronMined
<1>. HIDE DEF C
<1>1. tChain \in [TronSends -> [TronSigned -> C]] /\ c \in C
  BY DEF TronTypeOK, C
<1>2. [tChain EXCEPT ![w][k] = c] \in [TronSends -> [TronSigned -> C]]
  BY <1>1
<1>. QED
  BY <1>1, <1>2 DEF C

LEMMA ReadsType ==
    ASSUME TronTypeOK, NEW d \in TronDrivers
    PROVE  /\ tOn[d] \in Reads
           /\ \A k \in TronSigned : [tOn[d] EXCEPT !.new = k] \in Reads
           /\ \A k \in 0..TronMaxSigned : [tOn[d] EXCEPT !.old = k] \in Reads
           /\ \A t \in TronTimes : [tOn[d] EXCEPT !.solid = t] \in Reads
<1>1. tOn[d] \in Reads
  BY DEF TronTypeOK, Reads
<1>2. \A k \in TronSigned : k \in 0..TronMaxSigned
  BY TronAssumption DEF TronSigned
<1>. QED
  BY <1>1, <1>2 DEF Reads

----------------------------------------------------------------------------
LEMMA StepStopped ==
    ASSUME TronInv, NEW d \in TronDrivers, TronStopped(d)
    PROVE  TronInv'
<1>1. TronTypeOK'
  BY IdleType DEF TronInv, TronTypeOK, TronStopped, TronRetry, TronDone, TronGoto, Reads
<1>2. DriverFits(d)'
  BY <1>1, Resting DEF TronInv, TronStopped, TronRetry
<1>. QED
  BY <1>1, <1>2, Moves DEF TronStopped, TronRetry, TronDone

LEMMA StepBroadcast ==
    ASSUME TronInv, NEW d \in TronDrivers, NEW w \in TronSends, TronBroadcast(d, w)
    PROVE  TronInv'
<1> DEFINE at == IF tRow[w] = 0 THEN "fund" ELSE "resubmit"
           on == [TronIdle EXCEPT !.w = w, !.old = tRow[w]]
<1>1. on \in Reads
  BY IdleType DEF TronInv, TronTypeOK, TronIdle, Reads
<1>2. TronTypeOK'
  BY <1>1 DEF TronInv, TronTypeOK, TronBroadcast, TronGoto, Reads
<1>3. tAt'[d] = at /\ tOn'[d] = on
  BY DEF TronInv, TronTypeOK, TronBroadcast, TronGoto
<1>4. on.w = w /\ on.old = tRow[w] /\ on.solid = 0
  BY DEF TronIdle
<1>5. tRow[w] # 0 => Sendable(w, tRow[w])'
  BY DEF TronInv, OnlyTheRowLands, TronBroadcast, Sendable, Signed
<1>6. 0 <= tSolid'
  BY <1>2 DEF TronTypeOK, TronTimes
<1>7. DriverFits(d)'
  BY <1>3, <1>4, <1>5, <1>6 DEF DriverFits, TronBroadcast
<1>. QED
  BY <1>2, <1>7, Moves DEF TronBroadcast

LEMMA StepFund ==
    ASSUME TronInv, NEW d \in TronDrivers, TronFund(d)
    PROVE  TronInv'
<1>1. TronTypeOK'
  <2>1. tAt' \in [TronDrivers -> Labels] /\ tOn' \in [TronDrivers -> Reads]
    BY IdleType, GotoType, ReadsType DEF TronInv, TronFund, TronEnded, TronDone, Labels
  <2>2. tQueued' \subseteq tQueued
    BY DEF TronFund, TronEnded
  <2>. QED
    BY <2>1, <2>2 DEF TronInv, TronTypeOK, TronFund, Labels, Reads
<1>2. CASE TronGoto(d, "sign", tOn[d])
  <2>1. tAt'[d] = "sign" /\ tOn'[d] = tOn[d]
    BY <1>2 DEF TronInv, TronTypeOK, TronGoto
  <2>2. tAt[d] = "fund" /\ DriverFits(d)
    BY DEF TronInv, DriversFit, TronFund
  <2>3. Stays /\ tRow' = tRow
    BY Still DEF TronFund
  <2>4. DriverFits(d)'
    BY <2>1, <2>2, <2>3 DEF DriverFits, Stays, TronInv, TronTypeOK, TronTimes, DeadTx, Signed, TronFund
  <2>. QED
    BY <1>1, <1>2, <2>4, Moves DEF TronFund
<1>3. CASE TronEnded(d)
  <2>1. DriverFits(d)'
    BY <1>1, <1>3, Resting DEF TronInv, TronEnded
  <2>. QED
    BY <1>1, <1>3, <2>1, Moves DEF TronFund, TronEnded, TronDone
<1>. QED
  BY <1>2, <1>3 DEF TronFund

LEMMA StepSign ==
    ASSUME TronInv, NEW d \in TronDrivers, TronSign(d)
    PROVE  TronInv'
<1> DEFINE at == IF tOn[d].old = 0 THEN "store" ELSE "replace"
<1>1. PICK w, old : w = tOn[d].w /\ old = tOn[d].old
  OBVIOUS
<1>2. PICK k \in TronSigned :
         /\ NextSigning(w, k)
         /\ tExp' = [tExp EXCEPT ![w][k] = tNow + TronWindow]
         /\ TronGoto(d, at, [tOn[d] EXCEPT !.new = k])
  BY <1>1 DEF TronSign
<1>3. w \in TronSends /\ tExp[w][k] = -1 /\ tAt[d] = "sign"
  BY <1>1, <1>2 DEF TronInv, DriversFit, DriverFits, TronSign, NextSigning
<1>4. tNow + TronWindow \in 0..(TronMaxTime + TronWindow)
  BY TronAssumption DEF TronInv, TronTypeOK, TronTimes
<1>5. TronTypeOK'
  <2>1. tExp' \in [TronSends -> [TronSigned -> -1..(TronMaxTime + TronWindow)]]
    BY <1>2, <1>3, <1>4, TronAssumption DEF TronInv, TronTypeOK
  <2>2. tAt' \in [TronDrivers -> Labels] /\ tOn' \in [TronDrivers -> Reads]
    BY <1>2, GotoType, ReadsType DEF TronInv, Labels
  <2>3. UNCHANGED <<tState, tQueued, tRow, tChain, tBlock, tNow, tSolid>>
    BY DEF TronSign
  <2>. QED
    BY <2>1, <2>2, <2>3 DEF TronInv, TronTypeOK, Labels, Reads
<1>6. \A v \in TronSends : \A j \in TronSigned :
         /\ tExp[v][j] # -1 => tExp'[v][j] = tExp[v][j]
         /\ tExp[v][j] = -1 => tChain[v][j] = "none"
  BY <1>2, <1>3 DEF TronInv, TronTypeOK, ChainFits
<1>7. UNCHANGED <<tState, tRow, tChain, tBlock, tNow, tSolid>>
  BY DEF TronSign
<1>8. ChainFits'
  BY <1>6, <1>7 DEF TronInv, ChainFits, TronMined
<1>9. OnlyTheRowLands'
  BY <1>6, <1>7 DEF TronInv, OnlyTheRowLands, Signed, TronMined
<1>10. TronSettledIsFinal'
  BY <1>7 DEF TronInv, TronSettledIsFinal
<1>11. Stays
  BY <1>6, <1>7, <1>5 DEF Stays, Signed, DeadTx, Sendable, TronInv, TronTypeOK, TronTimes
<1>12. DriverFits(d)'
  <2>1. tAt'[d] = at /\ tOn'[d] = [tOn[d] EXCEPT !.new = k]
    BY <1>2 DEF TronInv, TronTypeOK, TronGoto
  <2>2. tOn'[d].w = w /\ tOn'[d].old = old /\ tOn'[d].new = k /\ tOn'[d].solid = tOn[d].solid
    BY <1>1, <2>1 DEF TronInv, TronTypeOK
  <2>3. Signed(w, k)'
    BY <1>2, <1>3, <1>4, <1>5 DEF Signed, TronInv, TronTypeOK
  <2>4. old # 0 => DeadTx(w, old)'
    BY <1>1, <1>3, <1>11 DEF Stays, TronInv, DriversFit, DriverFits, DeadTx, Signed
  <2>5. old = 0 => d \in TronRelays /\ tRow'[w] = 0
    BY <1>1, <1>3, <1>7 DEF TronInv, DriversFit, DriverFits
  <2>6. tOn'[d].solid <= tSolid'
    BY <1>7, <2>2 DEF TronInv, DriversFit, DriverFits
  <2>. QED
    BY <1>1, <1>3, <2>1, <2>2, <2>3, <2>4, <2>5, <2>6 DEF DriverFits
<1>13. DriversFit'
  BY <1>2, <1>7, <1>11, <1>12, Alone
<1>. QED
  BY <1>5, <1>8, <1>9, <1>10, <1>13 DEF TronInv

\* The first send finds no row: nobody else sends for the first time, since one session drains.
LEMMA StepStore ==
    ASSUME OneDrainer, TronInv, NEW d \in TronDrivers, StoreTronTx(d)
    PROVE  TronInv'
<1>1. PICK w, new : w = tOn[d].w /\ new = tOn[d].new
  OBVIOUS
<1>2. /\ tAt[d] = "store" /\ w \in TronSends /\ tRow[w] = 0 /\ Signed(w, new)
      /\ tOn[d].old = 0 /\ d \in TronRelays
  BY <1>1 DEF StoreTronTx, TronInv, DriversFit, DriverFits
<1>3. /\ tRow' = [tRow EXCEPT ![w] = new] /\ TronGoto(d, "submit", tOn[d])
      /\ UNCHANGED <<tState, tQueued, tExp, tChain, tBlock, tNow, tSolid>>
  BY <1>1, <1>2 DEF StoreTronTx, TronInv, TronTypeOK
<1>4. /\ tAt' \in [TronDrivers -> Labels] /\ tOn' \in [TronDrivers -> Reads]
      /\ tAt'[d] = "submit" /\ tOn'[d] = tOn[d]
  BY <1>3, GotoType, ReadsType DEF TronInv, Labels
<1>5. TronTypeOK'
  <2>1. new \in 0..TronMaxSigned
    BY <1>2, TronAssumption DEF Signed, TronSigned
  <2>2. tRow' \in [TronSends -> 0..TronMaxSigned]
    BY <1>3, <2>1 DEF TronInv, TronTypeOK
  <2>. QED
    BY <1>3, <1>4, <2>2 DEF TronInv, TronTypeOK, Labels, Reads
<1>6. \A v \in TronSends : tRow'[v] = IF v = w THEN new ELSE tRow[v]
  BY <1>3 DEF TronInv, TronTypeOK
<1>7. ChainFits'
  BY <1>3 DEF TronInv, ChainFits
<1>8. OnlyTheRowLands'
  BY <1>2, <1>3, <1>6 DEF TronInv, OnlyTheRowLands, Signed, TronSigned
<1>9. TronSettledIsFinal'
  BY <1>3 DEF TronInv, TronSettledIsFinal
<1>10. Stays
  BY <1>2, <1>3, <1>6 DEF Stays, Signed, DeadTx, Sendable, TronInv, TronTypeOK, TronTimes, TronSigned
<1>11. DriverFits(d)'
  <2>1. Sendable(w, new)'
    BY <1>2, <1>3, <1>6 DEF Sendable, Signed
  <2>2. tOn'[d].solid <= tSolid'
    BY <1>3, <1>4 DEF TronInv, DriversFit, DriverFits
  <2>. QED
    BY <1>1, <1>2, <1>4, <2>1, <2>2 DEF DriverFits
<1>12. ASSUME NEW e \in TronDrivers, e # d, tAt[e] \in {"fund", "sign", "store"}, tOn[e].old = 0
       PROVE  tRow'[tOn[e].w] = tRow[tOn[e].w]
  BY <1>2, <1>12 DEF OneDrainer, TronInv, DriversFit, DriverFits
<1>13. DriversFit'
  BY <1>3, <1>10, <1>11, <1>12, Alone
<1>. QED
  BY <1>5, <1>7, <1>8, <1>9, <1>13 DEF TronInv

\* Only whoever still finds the dead transaction in the row replaces it.
LEMMA StepReplace ==
    ASSUME TronInv, NEW d \in TronDrivers, ReplaceTron(d)
    PROVE  TronInv'
<1>1. PICK w, old, new : w = tOn[d].w /\ old = tOn[d].old /\ new = tOn[d].new
  OBVIOUS
<1>2. tAt[d] = "replace" /\ w \in TronSends /\ DeadTx(w, old) /\ Signed(w, new) /\ tOn[d].solid <= tSolid
  BY <1>1 DEF ReplaceTron, TronInv, DriversFit, DriverFits
<1>3. UNCHANGED <<tState, tExp, tChain, tBlock, tNow, tSolid>>
  BY DEF ReplaceTron
<1>4. CASE tRow[w] = old
  <2>1. tRow' = [tRow EXCEPT ![w] = new] /\ TronGoto(d, "submit", tOn[d]) /\ UNCHANGED tQueued
    BY <1>1, <1>4 DEF ReplaceTron, SwapWins
  <2>2. /\ tAt' \in [TronDrivers -> Labels] /\ tOn' \in [TronDrivers -> Reads]
        /\ tAt'[d] = "submit" /\ tOn'[d] = tOn[d]
    BY <2>1, GotoType, ReadsType DEF TronInv, Labels
  <2>3. TronTypeOK'
    <3>1. new \in 0..TronMaxSigned
      BY <1>2, TronAssumption DEF Signed, TronSigned
    <3>2. tRow' \in [TronSends -> 0..TronMaxSigned]
      BY <2>1, <3>1 DEF TronInv, TronTypeOK
    <3>. QED
      BY <1>3, <2>1, <2>2, <3>2 DEF TronInv, TronTypeOK, Labels, Reads
  <2>4. \A v \in TronSends : tRow'[v] = IF v = w THEN new ELSE tRow[v]
    BY <2>1 DEF TronInv, TronTypeOK
  <2>5. ChainFits' /\ TronSettledIsFinal'
    BY <1>3 DEF TronInv, ChainFits, TronSettledIsFinal
  <2>6. OnlyTheRowLands'
    BY <1>2, <1>3, <1>4, <2>4 DEF TronInv, OnlyTheRowLands, Signed, DeadTx
  <2>7. Stays
    BY <1>2, <1>3, <1>4, <2>4 DEF Stays, Signed, DeadTx, Sendable, TronInv, TronTypeOK, TronTimes, TronSigned
  <2>8. Sendable(w, new)'
    BY <1>2, <1>3, <2>4 DEF Sendable, Signed
  <2>9. DriverFits(d)'
    BY <1>1, <1>2, <1>3, <2>2, <2>8 DEF DriverFits
  <2>10. ASSUME NEW e \in TronDrivers, e # d, tAt[e] \in {"fund", "sign", "store"}, tOn[e].old = 0
         PROVE  tRow'[tOn[e].w] = tRow[tOn[e].w]
    <3>1. tOn[e].w \in TronSends /\ tRow[tOn[e].w] = 0
      BY <2>10 DEF TronInv, DriversFit, DriverFits
    <3>2. old # 0
      BY <1>2 DEF DeadTx, Signed, TronSigned
    <3>. QED
      BY <1>4, <2>4, <3>1, <3>2
  <2>11. DriversFit'
    BY <2>1, <2>7, <2>9, <2>10, Alone
  <2>. QED
    BY <2>3, <2>5, <2>6, <2>11 DEF TronInv
<1>5. CASE tRow[w] # old
  <2>1. tRow' = tRow /\ TronEnded(d)
    BY <1>1, <1>5 DEF ReplaceTron, SwapWins
  <2>2. TronTypeOK'
    <3>1. tAt' \in [TronDrivers -> Labels] /\ tOn' \in [TronDrivers -> Reads]
      BY <2>1, IdleType, GotoType DEF TronInv, TronEnded, TronDone, Labels
    <3>. QED
      BY <1>3, <2>1, <3>1 DEF TronInv, TronTypeOK, TronEnded, Labels, Reads
  <2>3. DriverFits(d)'
    BY <2>1, <2>2, Resting DEF TronInv, TronEnded
  <2>. QED
    BY <1>3, <2>1, <2>2, <2>3, Moves DEF TronEnded, TronDone
<1>. QED
  BY <1>4, <1>5

\* A node takes what has not expired, and of that only the stored transaction is in anyone's hands.
LEMMA StepSubmit ==
    ASSUME TronInv, NEW d \in TronDrivers, SubmitTron(d)
    PROVE  TronInv'
<1>1. PICK w, k : w = tOn[d].w /\ k = tOn[d].new
  OBVIOUS
<1>2. tAt[d] = "submit" /\ w \in TronSends /\ Sendable(w, k) /\ k \in TronSigned /\ tExp[w][k] # -1
  BY <1>1 DEF SubmitTron, TronInv, DriversFit, DriverFits, Sendable, Signed
<1>3. UNCHANGED <<tState, tRow, tExp, tBlock, tNow, tSolid>>
  BY DEF SubmitTron
<1>4. TronDone(d) /\ tQueued' \subseteq tQueued
  BY DEF SubmitTron, TronEnded, TronRetry
<1>5. \/ tChain' = tChain
      \/ tNow <= tExp[w][k] /\ tChain[w][k] = "none" /\ tChain' = [tChain EXCEPT ![w][k] = "sent"]
  BY <1>1 DEF SubmitTron
<1>6. TronTypeOK'
  <2>1. tAt' \in [TronDrivers -> Labels] /\ tOn' \in [TronDrivers -> Reads]
    BY <1>4, IdleType, GotoType DEF TronInv, TronDone, Labels
  <2>2. tChain' \in [TronSends -> [TronSigned -> {"none", "sent"} \cup TronMined]]
    BY <1>2, <1>5, ChainType DEF TronInv
  <2>. QED
    BY <1>3, <1>4, <2>1, <2>2 DEF TronInv, TronTypeOK, Labels, Reads
<1>7. DriverFits(d)'
  BY <1>4, <1>6, Resting DEF TronInv
<1>8. CASE tChain' = tChain
  BY <1>3, <1>4, <1>6, <1>7, <1>8, Moves DEF TronDone
<1>9. CASE tNow <= tExp[w][k] /\ tChain[w][k] = "none" /\ tChain' = [tChain EXCEPT ![w][k] = "sent"]
  <2>1. k = tRow[w]
    <3>1. tNow \in Nat /\ tExp[w][k] \in Int
      BY <1>2, TronAssumption DEF TronInv, TronTypeOK, TronTimes
    <3>. QED
      BY <1>2, <1>9, <3>1 DEF Sendable, DeadTx
  <2>2. \A v \in TronSends : \A j \in TronSigned :
           /\ tChain'[v][j] = IF v = w /\ j = k THEN "sent" ELSE tChain[v][j]
           /\ tExp[v][j] \in Int /\ tNow \in Int
    BY <1>2, <1>9, TronAssumption DEF TronInv, TronTypeOK, TronTimes
  <2>3. ChainFits'
    BY <1>2, <1>3, <2>2 DEF TronInv, ChainFits, TronMined
  <2>4. OnlyTheRowLands'
    BY <1>2, <1>3, <2>1, <2>2 DEF TronInv, OnlyTheRowLands, Signed, TronMined
  <2>5. TronSettledIsFinal'
    BY <1>2, <1>3, <1>9, <2>2 DEF TronInv, TronSettledIsFinal
  <2>6. Stays
    BY <1>2, <1>3, <1>9, <2>1, <2>2 DEF Stays, Signed, DeadTx, Sendable, TronInv, TronTypeOK, TronTimes, TronMined
  <2>7. DriversFit'
    BY <1>3, <1>4, <1>7, <2>6, Alone DEF TronDone
  <2>. QED
    BY <1>6, <2>3, <2>4, <2>5, <2>7 DEF TronInv
<1>. QED
  BY <1>5, <1>8, <1>9

LEMMA StepResubmit ==
    ASSUME TronInv, NEW d \in TronDrivers, ResubmitTron(d)
    PROVE  TronInv'
<1>1. PICK w, old : w = tOn[d].w /\ old = tOn[d].old
  OBVIOUS
<1>2. /\ tAt[d] = "resubmit" /\ w \in TronSends /\ Sendable(w, old) /\ old \in TronSigned
      /\ tOn[d].solid <= tSolid /\ tOn[d] \in Reads
  BY <1>1, ReadsType DEF ResubmitTron, TronInv, DriversFit, DriverFits, Sendable, Signed
<1>3. UNCHANGED <<tState, tRow, tExp, tChain, tBlock, tNow, tSolid>> /\ tQueued' = tQueued
  BY DEF ResubmitTron, TronRetry
<1>4. Sendable(w, old)'
  BY <1>2, <1>3 DEF Sendable, DeadTx, Signed
<1>5. CASE TronGoto(d, "submit", [tOn[d] EXCEPT !.new = old])
  <2>1. /\ tAt' \in [TronDrivers -> Labels] /\ tOn' \in [TronDrivers -> Reads]
        /\ tAt'[d] = "submit" /\ tOn'[d] = [tOn[d] EXCEPT !.new = old]
    BY <1>2, <1>5, GotoType, ReadsType DEF TronInv, Labels
  <2>2. TronTypeOK'
    BY <1>3, <2>1 DEF TronInv, TronTypeOK, Labels, Reads
  <2>3. tOn'[d].w = w /\ tOn'[d].new = old /\ tOn'[d].solid = tOn[d].solid
    BY <1>1, <1>2, <2>1 DEF Reads
  <2>4. DriverFits(d)'
    BY <1>2, <1>3, <1>4, <2>1, <2>3 DEF DriverFits
  <2>. QED
    BY <1>3, <1>5, <2>2, <2>4, Moves
<1>6. CASE TronDone(d)
  <2>1. TronTypeOK'
    <3>1. tAt' \in [TronDrivers -> Labels] /\ tOn' \in [TronDrivers -> Reads]
      BY <1>6, IdleType, GotoType DEF TronInv, TronDone, Labels
    <3>. QED
      BY <1>3, <3>1 DEF TronInv, TronTypeOK, Labels, Reads
  <2>2. DriverFits(d)'
    BY <1>6, <2>1, Resting DEF TronInv
  <2>. QED
    BY <1>3, <1>6, <2>1, <2>2, Moves DEF TronDone
<1>7. CASE ProvablyDead(tExp[w][old], tSolid) /\ TronGoto(d, "receipt_of_dead", [tOn[d] EXCEPT !.solid = tSolid])
  <2>0. tSolid \in TronTimes /\ tSolid \in Nat /\ tExp[w][old] \in Int
    BY <1>2, TronAssumption DEF TronInv, TronTypeOK, TronTimes
  <2>1. /\ tAt' \in [TronDrivers -> Labels] /\ tOn' \in [TronDrivers -> Reads]
        /\ tAt'[d] = "receipt_of_dead" /\ tOn'[d] = [tOn[d] EXCEPT !.solid = tSolid]
    BY <1>7, <2>0, GotoType, ReadsType DEF TronInv, Labels
  <2>2. TronTypeOK'
    BY <1>3, <2>1 DEF TronInv, TronTypeOK, Labels, Reads
  <2>3. tOn'[d].w = w /\ tOn'[d].old = old /\ tOn'[d].solid = tSolid
    BY <1>1, <1>2, <2>1 DEF Reads
  <2>4. tExp'[w][old] + TronMargin < tSolid
    BY <1>3, <1>7, <2>0, TronAssumption DEF ProvablyDead
  <2>5. DriverFits(d)'
    BY <1>2, <1>3, <1>4, <2>0, <2>1, <2>3, <2>4 DEF DriverFits
  <2>. QED
    BY <1>3, <1>7, <2>2, <2>5, Moves
<1>. QED
  BY <1>1, <1>5, <1>6, <1>7 DEF ResubmitTron, TronRetry

\* The node that has no receipt has every block the transaction could be in.
LEMMA StepReceipt ==
    ASSUME TronInv, NEW d \in TronDrivers, ResubmitReceipt(d)
    PROVE  TronInv'
<1>1. PICK w, old : w = tOn[d].w /\ old = tOn[d].old
  OBVIOUS
<1>2. /\ tAt[d] = "receipt_of_dead" /\ w \in TronSends /\ Signed(w, old) /\ old \in TronSigned /\ old # 0
      /\ tOn[d].solid <= tSolid /\ tExp[w][old] + TronMargin < tOn[d].solid /\ tOn[d] \in Reads
  BY <1>1, ReadsType DEF ResubmitReceipt, TronInv, DriversFit, DriverFits, Sendable, Signed, TronSigned
<1>3. UNCHANGED <<tState, tRow, tExp, tChain, tBlock, tNow, tSolid>>
  BY DEF ResubmitReceipt
<1>4. CASE TronEnded(d)
  <2>1. TronTypeOK'
    <3>1. tAt' \in [TronDrivers -> Labels] /\ tOn' \in [TronDrivers -> Reads]
      BY <1>4, IdleType, GotoType DEF TronInv, TronEnded, TronDone, Labels
    <3>. QED
      BY <1>3, <1>4, <3>1 DEF TronInv, TronTypeOK, TronEnded, Labels, Reads
  <2>2. DriverFits(d)'
    BY <1>4, <2>1, Resting DEF TronInv, TronEnded
  <2>. QED
    BY <1>3, <1>4, <2>1, <2>2, Moves DEF TronEnded, TronDone
<1>5. ASSUME NEW upto \in ReceiptNodes(tOn[d].solid), ~HasReceipt(w, old, upto),
             TronGoto(d, "fund", tOn[d]), UNCHANGED tQueued
      PROVE  TronInv'
  <2>1. /\ tExp[w][old] \in Int /\ tNow \in Int /\ tSolid \in Int /\ tSolid <= tNow /\ tOn[d].solid \in Int
        /\ upto \in Int /\ upto >= tOn[d].solid - TronLag /\ tBlock[w][old] \in Int
    BY <1>2, TronAssumption DEF TronInv, TronTypeOK, TronTimes, ReceiptNodes, Reads
  <2>2. tNow > tExp[w][old] /\ upto > tExp[w][old]
    BY <1>2, <2>1, TronAssumption
  <2>3. tChain[w][old] \notin TronMined
    BY <1>2, <1>5, <2>1, <2>2 DEF HasReceipt, TronInv, ChainFits
  <2>4. DeadTx(w, old)'
    BY <1>2, <1>3, <2>2, <2>3 DEF DeadTx, Signed
  <2>5. /\ tAt' \in [TronDrivers -> Labels] /\ tOn' \in [TronDrivers -> Reads]
        /\ tAt'[d] = "fund" /\ tOn'[d] = tOn[d]
    BY <1>2, <1>5, GotoType DEF TronInv, Labels
  <2>6. TronTypeOK'
    BY <1>3, <1>5, <2>5 DEF TronInv, TronTypeOK, Labels, Reads
  <2>7. DriverFits(d)'
    BY <1>1, <1>2, <1>3, <2>4, <2>5 DEF DriverFits
  <2>. QED
    BY <1>3, <1>5, <2>6, <2>7, Moves
<1>. QED
  BY <1>1, <1>4, <1>5 DEF ResubmitReceipt

----------------------------------------------------------------------------
LEMMA StepPoll ==
    ASSUME TronInv, NEW w \in TronSends, TronPoll(w)
    PROVE  TronInv'
<1> DEFINE on == [TronIdle EXCEPT !.w = w, !.old = tRow[w], !.solid = tSolid]
<1>1. TronWatcher \in TronDrivers
  BY DEF TronDrivers
<1>2. tSolid \in TronTimes /\ tSolid \in Nat /\ tRow[w] \in 0..TronMaxSigned
  BY TronAssumption DEF TronInv, TronTypeOK, TronTimes
<1>3. on \in Reads /\ on.w = w /\ on.old = tRow[w] /\ on.solid = tSolid
  BY <1>2, IdleType DEF TronIdle, Reads
<1>4. /\ tAt' \in [TronDrivers -> Labels] /\ tOn' \in [TronDrivers -> Reads]
      /\ tAt'[TronWatcher] = "check" /\ tOn'[TronWatcher] = on
  BY <1>1, <1>3, GotoType DEF TronInv, TronPoll, Labels
<1>5. TronTypeOK'
  BY <1>4 DEF TronInv, TronTypeOK, TronPoll, Labels, Reads
<1>6. Sendable(w, tRow[w])'
  BY DEF TronInv, OnlyTheRowLands, TronPoll, Sendable, Signed
<1>7. tRow' = tRow /\ tSolid' = tSolid /\ tRow[w] # 0
  BY DEF TronPoll
<1>. HIDE DEF on
<1>8. DriverFits(TronWatcher)'
  BY <1>2, <1>3, <1>4, <1>6, <1>7 DEF DriverFits
<1>. QED
  BY <1>1, <1>5, <1>8, Moves DEF TronPoll

\* The receipt the watcher settles on is in a block under the solid head it read.
LEMMA StepCheck ==
    ASSUME TronInv, TronCheck
    PROVE  TronInv'
<1> DEFINE d == TronWatcher
<1>1. PICK w, k, solid : w = tOn[d].w /\ k = tOn[d].old /\ solid = tOn[d].solid
  OBVIOUS
<1>2. d \in TronDrivers
  BY DEF TronDrivers
<1>3. /\ tAt[d] = "check" /\ w \in TronSends /\ Sendable(w, k) /\ k \in TronSigned
      /\ solid <= tSolid /\ tOn[d] \in Reads
  BY <1>1, <1>2, ReadsType DEF TronCheck, TronInv, DriversFit, DriverFits, Sendable, Signed
<1>4. UNCHANGED <<tQueued, tRow, tExp, tChain, tBlock, tNow, tSolid>>
  BY DEF TronCheck
<1>5. ChainFits' /\ OnlyTheRowLands' /\ Stays /\ (tState' = tState => TronSettledIsFinal')
  BY <1>4, Still
<1>6. CASE TronGoto(d, "resubmit", [tOn[d] EXCEPT !.old = tRow[w]]) /\ UNCHANGED tState
  <2>1. tRow[w] \in 0..TronMaxSigned
    BY <1>3 DEF TronInv, TronTypeOK
  <2>2. /\ tAt' \in [TronDrivers -> Labels] /\ tOn' \in [TronDrivers -> Reads]
        /\ tAt'[d] = "resubmit" /\ tOn'[d] = [tOn[d] EXCEPT !.old = tRow[w]]
    BY <1>2, <1>6, <2>1, GotoType, ReadsType DEF TronInv, Labels
  <2>3. tOn'[d].w = w /\ tOn'[d].old = tRow[w] /\ tOn'[d].solid = solid
    BY <1>1, <1>3, <2>2 DEF Reads
  <2>4. TronTypeOK'
    BY <1>4, <1>6, <2>2 DEF TronInv, TronTypeOK, Labels, Reads
  <2>5. tRow[w] # 0
    BY <1>1, <1>2, <1>3 DEF TronInv, DriversFit, DriverFits
  <2>6. Sendable(w, tRow[w])'
    BY <1>3, <1>4, <2>5 DEF TronInv, OnlyTheRowLands, Sendable, Signed
  <2>7. DriverFits(d)'
    BY <1>3, <1>4, <2>2, <2>3, <2>6 DEF DriverFits
  <2>. QED
    BY <1>2, <1>4, <1>6, <2>4, <2>7, Moves
<1>7. ASSUME NEW upto \in ReceiptNodes(solid), HasReceipt(w, k, upto), TronDone(d),
             IF tChain[w][k] = "paid" /\ Solidified(w, k, solid) /\ tState[w] = "processing"
             THEN tState' = [tState EXCEPT ![w] = "settled"] ELSE UNCHANGED tState
      PROVE  TronInv'
  <2>1. TronTypeOK'
    <3>1. tAt' \in [TronDrivers -> Labels] /\ tOn' \in [TronDrivers -> Reads]
      BY <1>2, <1>7, IdleType, GotoType DEF TronInv, TronDone, Labels
    <3>2. tState' \in [TronSends -> {"processing", "settled"}]
      BY <1>3, <1>7 DEF TronInv, TronTypeOK
    <3>. QED
      BY <1>4, <3>1, <3>2 DEF TronInv, TronTypeOK, Labels, Reads
  <2>2. DriverFits(d)'
    BY <1>2, <1>7, <2>1, Resting DEF TronInv
  <2>3. DriversFit'
    BY <1>2, <1>4, <1>5, <1>7, <2>2, Alone DEF TronDone
  <2>4. TronSettledIsFinal'
    <3>1. CASE tState' = tState
      BY <1>5, <3>1
    <3>2. CASE tChain[w][k] = "paid" /\ Solidified(w, k, solid) /\ tState' = [tState EXCEPT ![w] = "settled"]
      <4>1. tBlock[w][k] \in Int /\ solid \in Int /\ tSolid \in Int
        BY <1>1, <1>3 DEF TronInv, TronTypeOK, TronTimes, Reads
      <4>2. tChain'[w][k] = "paid" /\ tBlock'[w][k] <= tSolid'
        BY <1>3, <1>4, <3>2, <4>1 DEF Solidified
      <4>3. \A v \in TronSends : v # w => tState'[v] = tState[v]
        BY <3>2 DEF TronInv, TronTypeOK
      <4>. QED
        BY <1>3, <1>4, <4>2, <4>3 DEF TronInv, TronSettledIsFinal
    <3>. QED
      BY <1>7, <3>1, <3>2
  <2>. QED
    BY <1>5, <2>1, <2>3, <2>4 DEF TronInv
<1>. QED
  BY <1>1, <1>6, <1>7 DEF TronCheck

LEMMA StepUnpark ==
    ASSUME TronInv, NEW w \in TronSends, TronUnpark(w)
    PROVE  TronInv'
<1>1. UNCHANGED <<tState, tRow, tExp, tChain, tBlock, tNow, tSolid, tAt, tOn>>
  BY DEF TronUnpark
<1>2. TronTypeOK'
  BY DEF TronInv, TronTypeOK, TronUnpark
<1>3. ChainFits' /\ OnlyTheRowLands' /\ Stays /\ TronSettledIsFinal'
  BY <1>1, Still
<1>4. DriversFit'
  BY <1>1, <1>3, Waiting DEF TronInv, DriversFit
<1>. QED
  BY <1>2, <1>3, <1>4 DEF TronInv

----------------------------------------------------------------------------
\* The steps of the chain: every driver stands still.
LEMMA World ==
    ASSUME TronInv, UNCHANGED <<tState, tQueued, tRow, tExp, tAt, tOn>>, Stays,
           TronTypeOK', ChainFits', OnlyTheRowLands', TronSettledIsFinal'
    PROVE  TronInv'
  BY Waiting DEF TronInv, DriversFit

LEMMA StepTick ==
    ASSUME TronInv, TronTick
    PROVE  TronInv'
<1>1. /\ tNow' = tNow + 1 /\ tNow \in Nat /\ tNow < TronMaxTime
      /\ UNCHANGED <<tState, tQueued, tRow, tExp, tChain, tBlock, tSolid, tAt, tOn>>
  BY DEF TronTick, TronInv, TronTypeOK, TronTimes
<1>2. \A w \in TronSends : \A k \in TronSigned : tExp[w][k] \in Int
  BY TronAssumption DEF TronInv, TronTypeOK
<1>3. TronTypeOK'
  <2>1. tNow' \in TronTimes /\ tSolid' \in 0..tNow'
    BY <1>1, TronAssumption DEF TronInv, TronTypeOK, TronTimes
  <2>. QED
    BY <1>1, <2>1 DEF TronInv, TronTypeOK
<1>4. ChainFits' /\ TronSettledIsFinal'
  BY <1>1 DEF TronInv, ChainFits, TronSettledIsFinal
<1>5. OnlyTheRowLands'
  BY <1>1, <1>2 DEF TronInv, OnlyTheRowLands, Signed
<1>6. Stays
  BY <1>1, <1>2 DEF Stays, Signed, DeadTx, Sendable, TronInv, TronTypeOK, TronTimes
<1>. QED
  BY <1>1, <1>3, <1>4, <1>5, <1>6, World

LEMMA StepSolidify ==
    ASSUME TronInv, TronSolidify
    PROVE  TronInv'
<1>1. /\ tSolid' = tSolid + 1 /\ tSolid \in Nat /\ tNow \in Nat /\ tSolid < tNow
      /\ UNCHANGED <<tState, tQueued, tRow, tExp, tChain, tBlock, tNow, tAt, tOn>>
  BY DEF TronSolidify, TronInv, TronTypeOK, TronTimes
<1>2. TronTypeOK'
  <2>1. tSolid' \in 0..tNow'
    BY <1>1
  <2>. QED
    BY <1>1, <2>1 DEF TronInv, TronTypeOK
<1>3. ChainFits' /\ OnlyTheRowLands'
  BY <1>1 DEF TronInv, ChainFits, OnlyTheRowLands, Signed
<1>4. TronSettledIsFinal'
  <2>1. \A w \in TronSends : \A k \in TronSigned : tBlock[w][k] \in Int
    BY DEF TronInv, TronTypeOK, TronTimes
  <2>. QED
    BY <1>1, <2>1 DEF TronInv, TronSettledIsFinal
<1>5. Stays
  BY <1>1 DEF Stays, Signed, DeadTx, Sendable
<1>. QED
  BY <1>1, <1>2, <1>3, <1>4, <1>5, World

\* A block takes a transaction before it expires, so the one it takes is the stored one.
LEMMA StepMine ==
    ASSUME TronInv, NEW w \in TronSends, NEW k \in TronSigned, TronMine(w, k)
    PROVE  TronInv'
<1>1. PICK c \in TronMined : tChain' = [tChain EXCEPT ![w][k] = c]
  BY DEF TronMine
<1>2. /\ tChain[w][k] = "sent" /\ tNow <= tExp[w][k] /\ tBlock' = [tBlock EXCEPT ![w][k] = tNow]
      /\ UNCHANGED <<tState, tQueued, tRow, tExp, tNow, tSolid, tAt, tOn>>
  BY DEF TronMine
<1>3. \A v \in TronSends : \A j \in TronSigned :
         /\ tExp[v][j] \in Int /\ tNow \in Int /\ tSolid \in Nat
         /\ tChain'[v][j] = IF v = w /\ j = k THEN c ELSE tChain[v][j]
         /\ tBlock'[v][j] = IF v = w /\ j = k THEN tNow ELSE tBlock[v][j]
  BY <1>1, <1>2, TronAssumption DEF TronInv, TronTypeOK, TronTimes
<1>4. k = tRow[w] /\ c # "none" /\ c # "sent" /\ tExp[w][k] # -1
  BY <1>2, <1>3 DEF TronInv, OnlyTheRowLands, ChainFits, TronMined
<1>5. TronTypeOK'
  <2>1. tChain' \in [TronSends -> [TronSigned -> {"none", "sent"} \cup TronMined]]
    BY <1>1, ChainType DEF TronInv
  <2>2. tBlock' \in [TronSends -> [TronSigned -> TronTimes]]
    BY <1>2 DEF TronInv, TronTypeOK
  <2>. QED
    BY <1>2, <2>1, <2>2 DEF TronInv, TronTypeOK
<1>6. ChainFits'
  BY <1>2, <1>3, <1>4 DEF TronInv, ChainFits
<1>7. OnlyTheRowLands'
  BY <1>2, <1>3, <1>4 DEF TronInv, OnlyTheRowLands, Signed
<1>8. TronSettledIsFinal'
  BY <1>2, <1>3 DEF TronInv, TronSettledIsFinal
<1>9. Stays
  BY <1>2, <1>3, <1>4 DEF Stays, Signed, DeadTx, Sendable
<1>. QED
  BY <1>2, <1>5, <1>6, <1>7, <1>8, <1>9, World

\* A solidified block is never dropped.
LEMMA StepReorg ==
    ASSUME TronInv, NEW w \in TronSends, NEW k \in TronSigned, TronReorg(w, k)
    PROVE  TronInv'
<1>1. /\ tChain[w][k] \in TronMined /\ tBlock[w][k] > tSolid
      /\ tChain' = [tChain EXCEPT ![w][k] = "sent"] /\ tBlock' = [tBlock EXCEPT ![w][k] = 0]
      /\ UNCHANGED <<tState, tQueued, tRow, tExp, tNow, tSolid, tAt, tOn>>
  BY DEF TronReorg
<1>2. \A v \in TronSends : \A j \in TronSigned :
         /\ tBlock[v][j] \in Int /\ tSolid \in Nat
         /\ tChain'[v][j] = IF v = w /\ j = k THEN "sent" ELSE tChain[v][j]
         /\ tBlock'[v][j] = IF v = w /\ j = k THEN 0 ELSE tBlock[v][j]
  BY <1>1 DEF TronInv, TronTypeOK, TronTimes
<1>3. k = tRow[w] /\ tExp[w][k] # -1
  BY <1>1 DEF TronInv, OnlyTheRowLands, ChainFits, TronMined
<1>4. TronTypeOK'
  <2>1. tChain' \in [TronSends -> [TronSigned -> {"none", "sent"} \cup TronMined]]
    BY <1>1, ChainType DEF TronInv
  <2>2. 0 \in TronTimes
    BY TronAssumption DEF TronTimes
  <2>3. tBlock' \in [TronSends -> [TronSigned -> TronTimes]]
    BY <1>1, <2>2 DEF TronInv, TronTypeOK
  <2>. QED
    BY <1>1, <2>1, <2>3 DEF TronInv, TronTypeOK
<1>5. ChainFits'
  BY <1>1, <1>2, <1>3 DEF TronInv, ChainFits, TronMined
<1>6. OnlyTheRowLands'
  BY <1>1, <1>2, <1>3 DEF TronInv, OnlyTheRowLands, Signed, TronMined
<1>7. TronSettledIsFinal'
  BY <1>1, <1>2 DEF TronInv, TronSettledIsFinal
<1>8. Stays
  BY <1>1, <1>2, <1>3 DEF Stays, Signed, DeadTx, Sendable, TronMined
<1>. QED
  BY <1>1, <1>4, <1>5, <1>6, <1>7, <1>8, World

----------------------------------------------------------------------------
LEMMA InitInv == TronInit => TronInv
<1>. SUFFICES ASSUME TronInit PROVE TronInv
  OBVIOUS
<1>1. TronTypeOK
  BY TronAssumption, IdleType DEF TronInit, TronTypeOK, TronTimes, Reads
<1>2. ChainFits /\ OnlyTheRowLands /\ TronSettledIsFinal
  BY DEF TronInit, ChainFits, OnlyTheRowLands, TronSettledIsFinal, TronMined
<1>3. DriversFit
  BY DEF TronInit, DriversFit, DriverFits, TronIdle
<1>. QED
  BY <1>1, <1>2, <1>3 DEF TronInv

LEMMA NextInv ==
    ASSUME OneDrainer, TronInv, [TronNext]_tvars
    PROVE  TronInv'
<1>1. CASE TronTick \/ TronSolidify \/ TronCheck
  BY <1>1, StepTick, StepSolidify, StepCheck
<1>2. CASE \E w \in TronSends : TronPoll(w) \/ TronUnpark(w) \/ \E k \in TronSigned : TronMine(w, k) \/ TronReorg(w, k)
  BY <1>2, StepPoll, StepUnpark, StepMine, StepReorg
<1>3. CASE \E d \in TronDrivers : TronDrive(d)
  BY <1>3, StepBroadcast, StepFund, StepSign, StepStore, StepSubmit, StepResubmit, StepReceipt, StepReplace,
     StepStopped DEF TronDrive
<1>4. CASE UNCHANGED tvars
  <2>1. UNCHANGED <<tState, tQueued, tRow, tExp, tChain, tBlock, tNow, tSolid, tAt, tOn>>
    BY <1>4 DEF tvars
  <2>2. TronTypeOK'
    BY <2>1 DEF TronInv, TronTypeOK
  <2>3. ChainFits' /\ OnlyTheRowLands' /\ Stays /\ TronSettledIsFinal'
    BY <2>1, Still
  <2>. QED
    BY <2>1, <2>2, <2>3, World
<1>. QED
  BY <1>1, <1>2, <1>3, <1>4 DEF TronNext

LEMMA InvPaysOnce == TronInv => TronPaysOnce
<1>. SUFFICES ASSUME TronInv PROVE TronPaysOnce
  OBVIOUS
<1>1. \A w \in TronSends : \A k \in TronSigned : tExp[w][k] \in Int /\ tNow \in Int
  BY TronAssumption DEF TronInv, TronTypeOK, TronTimes
<1>2. TronOnePayout
  BY <1>1 DEF TronInv, TronOnePayout, OnlyTheRowLands, TronMined
<1>3. TronRowIsTheSend
  BY DEF TronInv, TronRowIsTheSend, OnlyTheRowLands, TronMined
<1>. QED
  BY <1>2, <1>3 DEF TronInv, TronPaysOnce

\* The inductive invariant of TRON custody: only the stored transaction can still land, and
\* what a driver holds is that one or dead (tron_custody.rs, tron_withdrawal_watcher.rs).
THEOREM TronInvariant == ASSUME OneDrainer PROVE TronSpec => []TronInv
<1>1. TronInit => TronInv
  BY InitInv
<1>2. TronInv /\ [TronNext]_tvars => TronInv'
  BY NextInv
<1>. QED
  BY <1>1, <1>2, PTL DEF TronSpec

\* The types of the rows, the signatures, the chain and what the drivers have read.
THEOREM TronTypes == ASSUME OneDrainer PROVE TronSpec => []TronTypeOK
<1>1. TronInv => TronTypeOK
  BY DEF TronInv
<1>. QED
  BY <1>1, TronInvariant, PTL

\* One withdrawal is one transfer on TRON: at most one of its transactions can pay, the row
\* names the one that did, and a withdrawal is settled only on a block nobody drops.
THEOREM OneTronTransfer == ASSUME OneDrainer PROVE TronSpec => []TronPaysOnce
<1>1. TronInv => TronPaysOnce
  BY InvPaysOnce
<1>. QED
  BY <1>1, TronInvariant, PTL

----------------------------------------------------------------------------
(***************************************************************************)
(* TON: what the wallet takes is what is stored.                           *)
(***************************************************************************)
\* One session holds the relay's lock.
OneTonDrainer == TonWatcher \notin TonRelays /\ \A d, e \in TonRelays : d = e

TonTimes == 0..(TonMaxTime + TonWindow)
TonRows  == [seq : TonSeqnos, exp : TonTimes]
RelayAts == {"idle", "resend", "fund", "plan", "sign", "store", "send"}
TonReads == [w : TonSends \cup {"none"}, chain : 0..(TonMaxSeqno + 1), msg : {NoMessage} \cup TonRows]
ScanAts  == {"idle", "seqno", "feed", "next", "replace", "resubmit"}
Messages == [w : TonSends, seq : TonSeqnos, exp : TonTimes]
Scanned  == [w : TonSends, row : TonRows]
Scans    == [pend : SUBSET Scanned, again : SUBSET Scanned, began : Nat, seqno : Nat]

Stored(w) == nRow[w] # NoMessage
TonTypes ==
    /\ nState \in [TonSends -> {"processing", "settled"}] /\ nRef \in [TonSends -> Nat]
    /\ nQueued \subseteq TonSends /\ nRow \in [TonSends -> {NoMessage} \cup TonRows]
    /\ nPool \subseteq Messages
    /\ nOut \in Seq([w : TonSends, left : BOOLEAN]) /\ Len(nOut) <= TonMaxSeqno + 1
    /\ nNow \in 0..TonMaxTime
    /\ nAt \in [TonDrivers -> RelayAts \cup ScanAts]
    /\ \A d \in TonRelays : nAt[d] \in RelayAts
    /\ nAt[TonWatcher] \in ScanAts
    /\ nOn \in [TonRelays -> TonReads]
    /\ nScan \in Scans
    /\ nForgotten \subseteq nSeen /\ nSeen \subseteq TonSends /\ nAhead \subseteq TonSends

\* The rows the watcher holds.
InHand == nScan.pend \cup nScan.again

\* What is on its way, was processed or is in the watcher's hands is stored, at the
\* seqno it was signed at.
RowFits(w) ==
    /\ \A m \in nPool : m.w = w => Stored(w) /\ nRow[w].seq = m.seq
    /\ \A i \in 1..Len(nOut) : nOut[i].w = w => Stored(w) /\ nRow[w].seq = i - 1
    /\ \A p \in InHand : p.w = w => Stored(w) /\ nRow[w].seq = p.row.seq

\* Nothing of a withdrawal was ever sent.
Unsent(w) ==
    /\ \A m \in nPool : m.w # w
    /\ \A i \in 1..Len(nOut) : nOut[i].w # w
    /\ \A p \in InHand : p.w # w

\* A relay that signs a first message is alone with its withdrawal, until a scan reads the row.
Solo(d) == nAt[d] \in {"fund", "plan", "sign", "store"} \/ (nAt[d] = "send" /\ nOn[d].w \notin nSeen)
DrainerFits(d) ==
    LET w == nOn[d].w IN
    /\ nAt[d] # "idle" => w \in TonSends
    /\ nAt[d] \in {"resend", "store", "send"} => nOn[d].msg # NoMessage
    /\ Kept(w) /\ nAt[d] \in {"resend", "send"} => Stored(w) /\ nRow[w].seq = nOn[d].msg.seq
    /\ Kept(w) /\ nAt[d] \in {"fund", "plan", "sign", "store"} => ~ Stored(w)
    /\ Kept(w) /\ Solo(d) => Unsent(w)

\* While no row is forgotten no two stored messages share a seqno, none is missing below a
\* stored one, and the relay signs at the next.
SeqnosApart == \A v, w \in TonSends : v # w /\ Stored(v) /\ Stored(w) => nRow[v].seq # nRow[w].seq
Held(s) == \E v \in TonSends : Stored(v) /\ nRow[v].seq = s
SeqnosHeld == \A w \in TonSends : Stored(w) => \A s \in ChainSeqno..nRow[w].seq : Held(s)
SignerFits(d) ==
    LET n == nOn[d].msg.seq IN
    /\ nAt[d] = "sign" => nOn[d].chain <= ChainSeqno
    /\ nAt[d] \in {"store", "send"} /\ Solo(d) =>
          /\ ChainSeqno <= n
          /\ \A v \in TonSends : v # nOn[d].w /\ Stored(v) => nRow[v].seq < n
          /\ \A s \in ChainSeqno..(n - 1) : Held(s)
QueueFits == SeqnosApart /\ SeqnosHeld /\ \A d \in TonRelays : SignerFits(d)

RowsFit == \A w \in TonSends : Kept(w) => RowFits(w)
TonInv ==
    /\ TonTypes /\ RowsFit
    /\ \A d \in TonRelays : DrainerFits(d)
    /\ nForgotten = {} => QueueFits

----------------------------------------------------------------------------
(***************************************************************************)
(* TON: types and frames.                                                  *)
(***************************************************************************)
LEMMA StoredIs ==
    ASSUME TonTypes, NEW w \in TonSends
    PROVE  /\ Stored(w) => nRow[w] \in TonRows /\ nRow[w].seq \in TonSeqnos
           /\ ~ Stored(w) => nRow[w] = NoMessage /\ nRow[w].seq = -1
BY DEF TonTypes, Stored, NoMessage, TonRows

LEMMA SeqHas == \A S : \A q \in Seq(S) : Len(q) \in Nat /\ \A i \in 1..Len(q) : q[i] \in S
OBVIOUS

LEMMA OutHas ==
    ASSUME TonTypes
    PROVE  Len(nOut) \in Nat /\ \A i \in 1..Len(nOut) : nOut[i].w \in TonSends /\ nOut[i].left \in BOOLEAN
<1>1. nOut \in Seq([w : TonSends, left : BOOLEAN])
  BY DEF TonTypes
<1>2. Len(nOut) \in Nat /\ \A i \in 1..Len(nOut) : nOut[i] \in [w : TonSends, left : BOOLEAN]
  BY <1>1, SeqHas
<1> QED BY <1>2

LEMMA RowsAreNot == ASSUME TonAssumption, NEW r \in TonRows PROVE r # NoMessage /\ r.seq \in Nat
<1>1. r.seq \in TonSeqnos
  BY DEF TonRows
<1> QED BY <1>1 DEF TonSeqnos, NoMessage, TonAssumption

LEMMA PoolHas == ASSUME TonTypes PROVE \A m \in nPool : m.w \in TonSends /\ m.seq \in TonSeqnos
BY DEF TonTypes, Messages

LEMMA ScanHas ==
    ASSUME TonTypes
    PROVE  /\ nScan \in Scans /\ nScan.pend \subseteq Scanned /\ nScan.again \subseteq Scanned
           /\ \A p \in InHand : p \in Scanned /\ p.w \in TonSends /\ p.row \in TonRows
<1>1. nScan \in Scans
  BY DEF TonTypes
<1>2. nScan.pend \subseteq Scanned /\ nScan.again \subseteq Scanned
  BY <1>1 DEF Scans
<1> QED BY <1>1, <1>2 DEF InHand, Scanned

\* A relay that moves on.
LEMMA RelayMoves ==
    ASSUME TonTypes, OneTonDrainer, NEW d \in TonRelays, NEW at \in RelayAts, NEW on \in TonReads, TonGoto(d, at, on)
    PROVE  /\ nAt' \in [TonDrivers -> RelayAts \cup ScanAts] /\ nOn' \in [TonRelays -> TonReads]
           /\ \A e \in TonRelays : nAt'[e] \in RelayAts
           /\ nAt'[d] = at /\ nOn'[d] = on /\ nAt'[TonWatcher] = nAt[TonWatcher]
<1>1. d \in TonDrivers /\ TonWatcher \in TonDrivers /\ d # TonWatcher /\ TonRelays \subseteq TonDrivers
  BY DEF OneTonDrainer, TonDrivers
<1> QED BY <1>1 DEF TonGoto, TonTypes

LEMMA IdleReads == TonAssumption => TonIdle \in TonReads
BY DEF TonAssumption, TonIdle, TonReads

\* A step by which no row of a withdrawal that is not forgotten changes its seqno.
SameSeqs == \A w \in TonSends : Kept(w) => (Stored(w)' <=> Stored(w)) /\ nRow'[w].seq = nRow[w].seq

\* It keeps the rows, when it sends and hands out what is stored only.
LEMMA RowsStay ==
    ASSUME TonTypes, RowsFit, SameSeqs, nOut' = nOut, nForgotten' = nForgotten,
           \A m \in nPool' : m \in nPool \/ (Kept(m.w) => Stored(m.w) /\ nRow[m.w].seq = m.seq),
           \A p \in InHand' : p \in InHand \/ (Kept(p.w) => Stored(p.w) /\ nRow[p.w].seq = p.row.seq)
    PROVE  RowsFit'
<1> SUFFICES ASSUME NEW w \in TonSends, Kept(w) PROVE RowFits(w)'
  BY DEF RowsFit, Kept
<1>1. RowFits(w) /\ (Stored(w)' <=> Stored(w)) /\ nRow'[w].seq = nRow[w].seq
  BY DEF RowsFit, SameSeqs
<1> QED BY <1>1 DEF RowFits

\* And the seqnos held.
LEMMA QueueStays ==
    ASSUME SameSeqs, nOut' = nOut, nForgotten = {}, SeqnosApart, SeqnosHeld
    PROVE  SeqnosApart' /\ SeqnosHeld' /\ \A s : Held(s)' <=> Held(s)
<1>1. \A w \in TonSends : (Stored(w)' <=> Stored(w)) /\ nRow'[w].seq = nRow[w].seq
  BY DEF SameSeqs, Kept
<1>2. \A s : Held(s)' <=> Held(s)
  BY <1>1 DEF Held
<1>3. SeqnosApart'
  BY <1>1 DEF SeqnosApart
<1>4. SeqnosHeld'
  BY <1>1, <1>2 DEF SeqnosHeld, ChainSeqno
<1> QED BY <1>2, <1>3, <1>4

\* A step of the one relay that stores and discards nothing.
LEMMA RelayStep ==
    ASSUME TonInv, OneTonDrainer, NEW d \in TonRelays, TonTypes', DrainerFits(d)', nForgotten = {} => SignerFits(d)',
           UNCHANGED <<nRow, nOut, nScan, nForgotten>>,
           \A m \in nPool' : m \in nPool \/ (Kept(m.w) => Stored(m.w) /\ nRow[m.w].seq = m.seq)
    PROVE  TonInv'
<1>1. SameSeqs
  BY DEF SameSeqs, Stored
<1>2. RowsFit'
  BY <1>1, RowsStay DEF TonInv, InHand
<1>3. nForgotten = {} => QueueFits'
  BY <1>1, QueueStays DEF TonInv, QueueFits, OneTonDrainer
<1>4. \A e \in TonRelays : DrainerFits(e)'
  BY DEF OneTonDrainer
<1> QED BY <1>2, <1>3, <1>4 DEF TonInv

\* A step of the watcher or of the world.
LEMMA WatcherStep ==
    ASSUME TonInv, TonTypes', SameSeqs, UNCHANGED <<nOut, nOn, nForgotten>>, \A d \in TonRelays : nAt'[d] = nAt[d],
           nSeen \subseteq nSeen',
           \A m \in nPool' : m \in nPool \/ \E p \in InHand : m.w = p.w /\ m.seq = p.row.seq,
           \A p \in InHand' : /\ Kept(p.w) => Stored(p.w) /\ nRow[p.w].seq = p.row.seq
                              /\ \A d \in TonRelays : Kept(p.w) /\ Solo(d)' => nOn[d].w # p.w
    PROVE  TonInv'
<1>0. TonTypes /\ RowsFit /\ (nForgotten = {} => QueueFits)
  BY DEF TonInv
<1>1. \A p \in InHand : Kept(p.w) => Stored(p.w) /\ nRow[p.w].seq = p.row.seq
  BY <1>0, ScanHas DEF RowsFit, RowFits
<1>2. RowsFit'
  <2>1. \A m \in nPool' : m \in nPool \/ (Kept(m.w) => Stored(m.w) /\ nRow[m.w].seq = m.seq)
    BY <1>1
  <2> QED BY <1>0, <2>1, RowsStay
<1>3. \A d \in TonRelays : Solo(d)' => Solo(d)
  BY DEF Solo
<1>4. ASSUME NEW d \in TonRelays PROVE DrainerFits(d)'
  <2>0. DrainerFits(d)
    BY DEF TonInv
  <2>1. PICK w, at, on : w = nOn[d].w /\ at = nAt[d] /\ on = nOn[d]
    OBVIOUS
  <2>2. nAt'[d] = at /\ nOn'[d] = on /\ (Kept(w)' <=> Kept(w))
    BY <2>1 DEF Kept
  <2>3. /\ at # "idle" => w \in TonSends
        /\ at \in {"resend", "store", "send"} => on.msg # NoMessage
    BY <2>0, <2>1 DEF DrainerFits
  <2>4. Kept(w) /\ w \in TonSends => (Stored(w)' <=> Stored(w)) /\ nRow'[w].seq = nRow[w].seq
    BY DEF SameSeqs
  <2>5. ASSUME Kept(w), Solo(d)' PROVE Unsent(w)'
    <3>1. Unsent(w)
      BY <1>3, <2>0, <2>1, <2>5 DEF DrainerFits
    <3>2. \A p \in InHand' : p.w # w
      BY <2>1, <2>5
    <3>3. \A m \in nPool' : m.w # w
      BY <3>1 DEF Unsent
    <3>4. nOut' = nOut
      OBVIOUS
    <3> QED BY <3>1, <3>2, <3>3, <3>4 DEF Unsent
  <2>6. /\ Kept(w) /\ at \in {"resend", "send"} => Stored(w)' /\ nRow'[w].seq = on.msg.seq
        /\ Kept(w) /\ at \in {"fund", "plan", "sign", "store"} => ~ Stored(w)'
    BY <2>0, <2>1, <2>3, <2>4 DEF DrainerFits
  <2> QED BY <2>1, <2>2, <2>3, <2>5, <2>6 DEF DrainerFits
<1>5. ASSUME nForgotten = {} PROVE QueueFits'
  <2>1. SeqnosApart' /\ SeqnosHeld' /\ \A s : Held(s)' <=> Held(s)
    BY <1>0, <1>5, QueueStays DEF QueueFits
  <2>2. \A w \in TonSends : (Stored(w)' <=> Stored(w)) /\ nRow'[w].seq = nRow[w].seq
    BY <1>5 DEF SameSeqs, Kept
  <2>3. ASSUME NEW d \in TonRelays PROVE SignerFits(d)'
    <3>1. SignerFits(d)
      BY <1>0, <1>5 DEF QueueFits
    <3>2. nAt'[d] = nAt[d] /\ nOn'[d] = nOn[d] /\ ChainSeqno' = ChainSeqno
      BY DEF ChainSeqno
    <3> QED BY <1>3, <2>1, <2>2, <3>1, <3>2 DEF SignerFits
  <2> QED BY <2>1, <2>3 DEF QueueFits
<1> QED BY <1>2, <1>4, <1>5 DEF TonInv

----------------------------------------------------------------------------
(***************************************************************************)
(* TON: the world and the watcher.                                         *)
(***************************************************************************)
LEMMA InvHas ==
    ASSUME TonInv
    PROVE  /\ TonTypes
           /\ \A w \in TonSends : Kept(w) => RowFits(w)
           /\ \A p \in InHand : p.w \in TonSends /\ p.row \in TonRows
           /\ \A p \in InHand : Kept(p.w) => Stored(p.w) /\ nRow[p.w].seq = p.row.seq
           /\ \A p \in InHand, d \in TonRelays : Kept(p.w) /\ Solo(d) => nOn[d].w # p.w
<1>1. TonTypes /\ (\A w \in TonSends : Kept(w) => RowFits(w)) /\ \A d \in TonRelays : DrainerFits(d)
  BY DEF TonInv, RowsFit
<1>2. \A p \in InHand : p.w \in TonSends /\ p.row \in TonRows
  BY <1>1, ScanHas
<1> QED BY <1>1, <1>2 DEF RowFits, DrainerFits, Unsent

LEMMA HandMessage ==
    ASSUME TonInv, NEW p \in InHand
    PROVE  /\ TonMessage(p.w, p.row) \in Messages
           /\ TonMessage(p.w, p.row).w = p.w /\ TonMessage(p.w, p.row).seq = p.row.seq
<1>1. p.w \in TonSends /\ p.row \in TonRows
  BY InvHas
<1> QED BY <1>1 DEF TonMessage, Messages, TonRows

LEMMA WatcherMoves ==
    ASSUME TonTypes, OneTonDrainer, NEW at \in ScanAts, NEW scan \in Scans, TonScanGoto(at, scan),
           UNCHANGED <<nQueued, nOut, nNow, nOn>>,
           nState' \in [TonSends -> {"processing", "settled"}], nRef' \in [TonSends -> Nat],
           nRow' \in [TonSends -> {NoMessage} \cup TonRows], nPool' \subseteq Messages,
           nForgotten' \subseteq nSeen', nSeen' \subseteq TonSends, nAhead' \subseteq TonSends
    PROVE  /\ TonTypes' /\ nScan' = scan /\ nAt'[TonWatcher] = at
           /\ \A d \in TonRelays : nAt'[d] = nAt[d]
<1>1. TonWatcher \in TonDrivers /\ \A d \in TonRelays : d \in TonDrivers /\ d # TonWatcher
  BY DEF OneTonDrainer, TonDrivers
<1>2. nAt' = [nAt EXCEPT ![TonWatcher] = at] /\ nScan' = scan
  BY DEF TonScanGoto
<1>3. /\ nAt' \in [TonDrivers -> RelayAts \cup ScanAts] /\ nAt'[TonWatcher] = at
      /\ \A d \in TonRelays : nAt'[d] = nAt[d]
  BY <1>1, <1>2 DEF TonTypes
<1>4. TonTypes'
  BY <1>2, <1>3 DEF TonTypes
<1> QED BY <1>2, <1>3, <1>4

\* A step of the watcher that leaves the rows alone and keeps of what it read.
LEMMA WatcherReads ==
    ASSUME TonInv, OneTonDrainer, NEW at \in ScanAts, NEW scan \in Scans, TonScanGoto(at, scan),
           UNCHANGED <<nQueued, nRow, nOut, nNow, nOn, nSeen, nForgotten>>, nAhead' \subseteq TonSends,
           nState' \in [TonSends -> {"processing", "settled"}], nRef' \in [TonSends -> Nat],
           \A m \in nPool' : m \in nPool \/ \E p \in InHand : m = TonMessage(p.w, p.row),
           \A p \in scan.pend \cup scan.again :
               p \in InHand \/ \E q \in InHand : p.w = q.w /\ (Kept(p.w) => p.row.seq = q.row.seq)
    PROVE  TonInv'
<1>0. TonTypes
  BY InvHas
<1>1. nPool' \subseteq Messages /\ nForgotten' \subseteq nSeen' /\ nSeen' \subseteq TonSends
  BY <1>0, HandMessage DEF TonTypes
<1>2. nRow' \in [TonSends -> {NoMessage} \cup TonRows]
  BY <1>0 DEF TonTypes
<1>3. /\ TonTypes' /\ nScan' = scan /\ nAt'[TonWatcher] = at
      /\ \A d \in TonRelays : nAt'[d] = nAt[d]
  BY <1>0, <1>1, <1>2, WatcherMoves
<1>4. SameSeqs
  BY DEF SameSeqs, Stored
<1>5. \A m \in nPool' : m \in nPool \/ \E p \in InHand : m.w = p.w /\ m.seq = p.row.seq
  BY HandMessage
<1>6. \A d \in TonRelays : Solo(d)' <=> Solo(d)
  BY <1>3 DEF Solo
<1>7. ASSUME NEW p \in InHand'
      PROVE  /\ Kept(p.w) => Stored(p.w) /\ nRow[p.w].seq = p.row.seq
             /\ \A d \in TonRelays : Kept(p.w) /\ Solo(d)' => nOn[d].w # p.w
  <2>1. p \in scan.pend \cup scan.again
    BY <1>3 DEF InHand
  <2>2. PICK q \in InHand : p.w = q.w /\ (Kept(p.w) => p.row.seq = q.row.seq)
    BY <2>1
  <2> QED BY <1>6, <2>2, InvHas
<1> QED BY <1>3, <1>4, <1>5, <1>7, WatcherStep

LEMMA NoScanIs == NoScan \in Scans /\ NoScan.pend = {} /\ NoScan.again = {}
BY DEF NoScan, Scans

LEMMA StatesAre ==
    ASSUME TonInv
    PROVE  nState \in [TonSends -> {"processing", "settled"}] /\ nRef \in [TonSends -> Nat] /\ nAhead \subseteq TonSends
BY DEF TonInv, TonTypes

LEMMA TonScanKeeps ==
    ASSUME TonInv, OneTonDrainer, TonScan
    PROVE  TonInv'
<1> DEFINE pend == {[w |-> w, row |-> nRow[w]] : w \in PendingBroadcasts}
           scan == [NoScan EXCEPT !.pend = pend, !.began = ChainSeqno]
<1>0. TonTypes /\ (\A w \in TonSends : Kept(w) => RowFits(w)) /\ \A d \in TonRelays : DrainerFits(d)
  BY InvHas DEF TonInv
<1>1. \A w \in PendingBroadcasts : w \in TonSends /\ Stored(w)
  BY DEF PendingBroadcasts, Stored
<1>2. \A w \in PendingBroadcasts : nRow[w] \in TonRows
  BY <1>0, <1>1, StoredIs
<1>3. scan \in Scans /\ scan.pend = pend /\ scan.again = {}
  <2>1. ChainSeqno \in Nat
    BY <1>0, OutHas DEF ChainSeqno
  <2>2. pend \in SUBSET Scanned
    BY <1>1, <1>2 DEF Scanned
  <2> QED BY <2>1, <2>2 DEF Scans, NoScan
<1>4. ASSUME NEW p \in pend
      PROVE  p.w \in PendingBroadcasts /\ Stored(p.w) /\ nRow[p.w].seq = p.row.seq
  <2>1. PICK w \in PendingBroadcasts : p = [w |-> w, row |-> nRow[w]]
    OBVIOUS
  <2>2. p.w = w /\ p.row = nRow[w]
    BY <2>1
  <2> QED BY <1>1, <2>2
<1>5. /\ TonScanGoto("seqno", scan) /\ nSeen' = nSeen \cup {w \in PendingBroadcasts : InSend(w)}
      /\ UNCHANGED <<nState, nRef, nQueued, nRow, nPool, nOut, nNow, nOn, nForgotten, nAhead>>
  BY DEF TonScan
<1> HIDE DEF pend
<1> HIDE DEF scan
<1>6. "seqno" \in ScanAts
  BY DEF ScanAts
<1>7. /\ TonTypes' /\ nScan' = scan
      /\ \A d \in TonRelays : nAt'[d] = nAt[d]
  <2>1. nForgotten' \subseteq nSeen' /\ nSeen' \subseteq TonSends /\ nAhead' \subseteq TonSends
    BY <1>0, <1>1, <1>5 DEF TonTypes
  <2>2. /\ nState' \in [TonSends -> {"processing", "settled"}] /\ nRef' \in [TonSends -> Nat]
        /\ nRow' \in [TonSends -> {NoMessage} \cup TonRows] /\ nPool' \subseteq Messages
    BY <1>0, <1>5 DEF TonTypes
  <2> QED BY <1>0, <1>3, <1>5, <1>6, <2>1, <2>2, WatcherMoves
<1>8. SameSeqs
  BY <1>5 DEF SameSeqs, Stored
<1>9. ASSUME NEW p \in InHand'
      PROVE  /\ Kept(p.w) => Stored(p.w) /\ nRow[p.w].seq = p.row.seq
             /\ \A d \in TonRelays : Kept(p.w) /\ Solo(d)' => nOn[d].w # p.w
  <2>1. p \in pend
    BY <1>3, <1>7 DEF InHand
  <2>2. p.w \in PendingBroadcasts /\ Stored(p.w) /\ nRow[p.w].seq = p.row.seq
    BY <1>4, <2>1
  <2>3. ASSUME NEW d \in TonRelays, Kept(p.w), nOn[d].w = p.w PROVE ~ Solo(d)'
    <3>1. DrainerFits(d)
      BY <1>0
    <3>2. nAt[d] \notin {"fund", "plan", "sign", "store"}
      BY <2>2, <2>3, <3>1 DEF DrainerFits
    <3>3. nAt[d] = "send" => p.w \in nSeen'
      BY <1>5, <2>2, <2>3 DEF InSend
    <3>4. nAt'[d] = nAt[d] /\ nOn'[d] = nOn[d]
      BY <1>5, <1>7
    <3> QED BY <2>3, <3>2, <3>3, <3>4 DEF Solo
  <2> QED BY <2>2, <2>3
<1> QED BY <1>5, <1>7, <1>8, <1>9, WatcherStep

LEMMA TonReadSeqnoKeeps ==
    ASSUME TonInv, OneTonDrainer, TonReadSeqno
    PROVE  TonInv'
<1> DEFINE scan == [nScan EXCEPT !.seqno = ChainSeqno]
<1>1. scan \in Scans /\ scan.pend = nScan.pend /\ scan.again = nScan.again
  <2>1. ChainSeqno \in Nat /\ nScan \in Scans
    BY OutHas, ScanHas, InvHas DEF ChainSeqno
  <2> QED BY <2>1 DEF Scans
<1>2. TonScanGoto("feed", scan) /\ UNCHANGED <<nState, nRef, nQueued, nRow, nPool, nOut, nNow, nOn, nSeen, nForgotten, nAhead>>
  BY DEF TonReadSeqno, nhistory
<1>3. "feed" \in ScanAts
  BY DEF ScanAts
<1> HIDE DEF scan
<1> QED BY <1>1, <1>2, <1>3, StatesAre, WatcherReads DEF InHand

\* What a settle writes of the sends that are ready.
Settles(ready, tx, upto) ==
    /\ \A w \in ready : tx[w] \in Unused(upto, TonNet[w])
    /\ \A v, w \in ready : v # w => tx[v] # tx[w]
    /\ nState' = [w \in TonSends |-> IF w \in ready THEN "settled" ELSE nState[w]]
    /\ nRef' = [w \in TonSends |-> IF w \in ready THEN tx[w] ELSE nRef[w]]
    /\ nAhead' = nAhead \cup {w \in ready : tx[w] > nScan.began}

Advanced == {p.w : p \in {q \in nScan.pend : nScan.seqno > q.row.seq}}
Ready(upto) == {w \in PlanSettlements(Advanced, upto) : nState[w] = "processing"}

LEMMA SettleIs ==
    ASSUME TonSettle
    PROVE  \E upto \in 0..ChainSeqno : \E tx \in [Ready(upto) -> 1..upto] : Settles(Ready(upto), tx, upto)
BY DEF TonSettle, Settles, Advanced, Ready

LEMMA AdvancedAre ==
    ASSUME TonInv
    PROVE  Advanced \subseteq TonSends /\ \A upto : Ready(upto) \subseteq Advanced
<1>1. \A p \in nScan.pend : p.w \in TonSends
  BY InvHas DEF InHand
<1> QED BY <1>1 DEF Advanced, Ready, PlanSettlements

LEMMA TonSettleKeeps ==
    ASSUME TonInv, OneTonDrainer, TonSettle
    PROVE  TonInv'
<1> DEFINE scan == [nScan EXCEPT !.pend = {q \in @ : q.row.seq = nScan.seqno}]
<1>1. scan \in Scans /\ scan.pend \subseteq nScan.pend /\ scan.again = nScan.again
  <2>1. nScan \in Scans
    BY ScanHas, InvHas
  <2> QED BY <2>1 DEF Scans
<1>2. TonScanGoto("next", scan) /\ UNCHANGED <<nQueued, nRow, nPool, nOut, nNow, nOn, nSeen, nForgotten>>
  BY DEF TonSettle
<1>3. nState' \in [TonSends -> {"processing", "settled"}] /\ nRef' \in [TonSends -> Nat] /\ nAhead' \subseteq TonSends
  <2>1. PICK upto \in 0..ChainSeqno : \E tx \in [Ready(upto) -> 1..upto] : Settles(Ready(upto), tx, upto)
    BY SettleIs
  <2>2. PICK tx \in [Ready(upto) -> 1..upto] : Settles(Ready(upto), tx, upto)
    BY <2>1
  <2>3. PICK ready : ready = Ready(upto)
    OBVIOUS
  <2>4. ready \subseteq TonSends
    BY <2>3, AdvancedAre
  <2>5. \A w \in ready : tx[w] \in Nat
    <3>1. \A w \in ready : tx[w] \in 1..upto
      BY <2>3
    <3>2. ChainSeqno \in Nat
      BY OutHas, InvHas DEF ChainSeqno
    <3>3. 1..upto \subseteq Nat
      BY <2>1, <3>2
    <3> QED BY <3>1, <3>3
  <2> QED BY <2>2, <2>3, <2>4, <2>5, StatesAre DEF Settles
<1>4. "next" \in ScanAts
  BY DEF ScanAts
<1> HIDE DEF scan
<1> QED BY <1>1, <1>2, <1>3, <1>4, WatcherReads DEF InHand

LEMMA TonScannedKeeps ==
    ASSUME TonInv, OneTonDrainer, TonScanned
    PROVE  TonInv'
<1>1. TonScanGoto("idle", NoScan) /\ UNCHANGED <<nState, nRef, nQueued, nRow, nPool, nOut, nNow, nOn, nSeen, nForgotten, nAhead>>
  BY DEF TonScanned, nhistory
<1>2. "idle" \in ScanAts
  BY DEF ScanAts
<1> QED BY <1>1, <1>2, NoScanIs, StatesAre, WatcherReads

LEMMA ResubmitKeeps ==
    ASSUME TonInv, OneTonDrainer, NEW p \in nScan.again, ResubmitTon(p)
    PROVE  TonInv'
<1> DEFINE scan == [nScan EXCEPT !.again = {}]
<1>1. scan \in Scans /\ scan.pend = nScan.pend /\ scan.again = {}
  <2>1. nScan \in Scans
    BY ScanHas, InvHas
  <2> QED BY <2>1 DEF Scans
<1>2. TonScanGoto("next", scan) /\ UNCHANGED <<nState, nRef, nQueued, nRow, nOut, nNow, nOn, nSeen, nForgotten, nAhead>>
  BY DEF ResubmitTon, nhistory
<1>3. (\A m \in nPool' : m \in nPool \/ m = TonMessage(p.w, p.row)) /\ p \in InHand
  BY DEF ResubmitTon, InHand
<1>4. "next" \in ScanAts
  BY DEF ScanAts
<1> HIDE DEF scan
<1> QED BY <1>1, <1>2, <1>3, <1>4, StatesAre, WatcherReads DEF InHand

LEMMA TonAdvanceKeeps ==
    ASSUME TonAssumption, TonInv, OneTonDrainer, NEW p \in nScan.pend, TonAdvance(p)
    PROVE  TonInv'
<1> DEFINE rest == [nScan EXCEPT !.pend = @ \ {p}]
           q == [w |-> p.w, row |-> [seq |-> nRow[p.w].seq, exp |-> nNow + TonWindow]]
           again == [rest EXCEPT !.again = {q}]
<1>0. /\ p \in InHand /\ p.w \in TonSends /\ nNow \in 0..TonMaxTime /\ TonTypes /\ nScan \in Scans
      /\ Kept(p.w) => nRow[p.w].seq = p.row.seq
  BY ScanHas, InvHas DEF TonTypes, InHand
<1>1. UNCHANGED <<nState, nRef, nQueued, nRow, nOut, nNow, nOn, nSeen, nForgotten, nAhead>>
  BY DEF TonAdvance, nhistory
<1>2. rest \in Scans /\ rest.pend \subseteq nScan.pend /\ rest.again = nScan.again
  BY <1>0 DEF Scans
<1>3. CASE Stored(p.w) /\ TonScanGoto("replace", again) /\ UNCHANGED nPool
  <2>1. q.w = p.w /\ q.row.seq = nRow[p.w].seq
    OBVIOUS
  <2>2. q \in Scanned
    <3>1. nRow[p.w].seq \in TonSeqnos
      BY <1>0, <1>3, StoredIs
    <3>2. nNow + TonWindow \in TonTimes
      BY <1>0 DEF TonTimes, TonAssumption
    <3> QED BY <1>0, <3>1, <3>2 DEF TonRows, Scanned
  <2> HIDE DEF q
  <2>3. again \in Scans /\ again.pend = rest.pend /\ again.again = {q}
    BY <1>2, <2>2 DEF Scans
  <2>4. "replace" \in ScanAts
    BY DEF ScanAts
  <2> HIDE DEF rest, again
  <2>5. \A r \in again.pend \cup again.again :
            r \in InHand \/ \E o \in InHand : r.w = o.w /\ (Kept(r.w) => r.row.seq = o.row.seq)
    BY <1>0, <1>2, <2>1, <2>3 DEF InHand
  <2> QED BY <1>1, <1>3, <2>3, <2>4, <2>5, StatesAre, WatcherReads
<1>4. CASE TonScanGoto("next", rest) /\ \A m \in nPool' : m \in nPool \/ m = TonMessage(p.w, p.row)
  <2>1. "next" \in ScanAts
    BY DEF ScanAts
  <2> HIDE DEF rest, again
  <2>2. \A r \in rest.pend \cup rest.again : r \in InHand
    BY <1>2 DEF InHand
  <2> QED BY <1>0, <1>1, <1>2, <1>4, <2>1, <2>2, StatesAre, WatcherReads
<1>5. \/ Stored(p.w) /\ TonScanGoto("replace", again) /\ UNCHANGED nPool
      \/ TonScanGoto("next", rest) /\ \A m \in nPool' : m \in nPool \/ m = TonMessage(p.w, p.row)
  BY DEF TonAdvance, Stored
<1> QED BY <1>3, <1>4, <1>5

LEMMA ReplaceKeeps ==
    ASSUME TonAssumption, TonInv, OneTonDrainer, NEW p \in nScan.again, ReplaceTon(p)
    PROVE  TonInv'
<1>0. /\ p.w \in TonSends /\ p.row \in TonRows /\ TonTypes /\ p \in InHand
      /\ nRow \in [TonSends -> {NoMessage} \cup TonRows] /\ nScan \in Scans
      /\ Kept(p.w) => Stored(p.w) /\ nRow[p.w].seq = p.row.seq
  BY InvHas DEF TonTypes, InHand
<1>1. TonScanGoto("resubmit", nScan) /\ UNCHANGED <<nState, nRef, nQueued, nPool, nOut, nNow, nOn, nSeen, nForgotten, nAhead>>
  BY DEF ReplaceTon, nhistory
<1>2. /\ nRow' \in [TonSends -> {NoMessage} \cup TonRows] /\ (Stored(p.w) => nRow'[p.w] = p.row)
      /\ ~ Stored(p.w) => nRow'[p.w] = nRow[p.w]
      /\ \A w \in TonSends : w # p.w => nRow'[w] = nRow[w]
  BY <1>0 DEF ReplaceTon, Stored
<1>3. SameSeqs
  <2>1. p.row # NoMessage
    BY <1>0, RowsAreNot
  <2> QED BY <1>0, <1>2, <2>1 DEF SameSeqs, Stored
<1>4. "resubmit" \in ScanAts /\ nPool' \subseteq Messages /\ nSeen' \subseteq TonSends /\ nForgotten' \subseteq nSeen'
  BY <1>0, <1>1 DEF ScanAts, TonTypes
<1>5. TonTypes' /\ nScan' = nScan /\ \A d \in TonRelays : nAt'[d] = nAt[d]
  BY <1>0, <1>1, <1>2, <1>4, StatesAre, WatcherMoves
<1>6. \A d \in TonRelays : Solo(d)' <=> Solo(d)
  BY <1>1, <1>5 DEF Solo
<1>7. InHand' = InHand
  BY <1>5 DEF InHand
<1>8. \A r \in InHand' : /\ Kept(r.w) => Stored(r.w) /\ nRow[r.w].seq = r.row.seq
                         /\ \A d \in TonRelays : Kept(r.w) /\ Solo(d)' => nOn[d].w # r.w
  BY <1>6, <1>7, InvHas
<1> QED BY <1>1, <1>3, <1>5, <1>8, WatcherStep

\* A process that stops forgets what it read.
LEMMA WatcherStopsKeeps ==
    ASSUME TonInv, OneTonDrainer, TonStopped(TonWatcher)
    PROVE  TonInv'
<1>1. TonScanGoto("idle", NoScan) /\ UNCHANGED <<nState, nRef, nQueued, nRow, nPool, nOut, nNow, nOn, nSeen, nForgotten, nAhead>>
  BY DEF TonStopped, TonScanGoto, nhistory
<1>2. "idle" \in ScanAts
  BY DEF ScanAts
<1> QED BY <1>1, <1>2, NoScanIs, StatesAre, WatcherReads

\* Time passes, the network drops a message, an operator re-drives a row.
LEMMA WorldKeeps ==
    ASSUME TonInv, UNCHANGED <<nState, nRef, nRow, nOut, nAt, nOn, nScan, nSeen, nForgotten, nAhead>>,
           nNow' \in 0..TonMaxTime, nPool' \subseteq nPool, nQueued' \subseteq TonSends
    PROVE  TonInv'
<1>1. TonTypes'
  BY DEF TonInv, TonTypes
<1>2. SameSeqs
  BY DEF SameSeqs, Stored
<1>3. (\A d \in TonRelays : Solo(d)' <=> Solo(d)) /\ InHand' = InHand
  BY DEF Solo, InHand
<1>4. \A r \in InHand' : /\ Kept(r.w) => Stored(r.w) /\ nRow[r.w].seq = r.row.seq
                         /\ \A d \in TonRelays : Kept(r.w) /\ Solo(d)' => nOn[d].w # r.w
  BY <1>3, InvHas
<1> QED BY <1>1, <1>2, <1>4, WatcherStep

----------------------------------------------------------------------------
(***************************************************************************)
(* TON: the wallet and the relay.                                          *)
(***************************************************************************)
LEMMA SignerIs ==
    ASSUME TonInv, NEW d \in TonRelays
    PROVE  /\ TonTypes /\ RowsFit /\ DrainerFits(d)
           /\ nForgotten = {} => SeqnosApart /\ SeqnosHeld /\ SignerFits(d)
           /\ nOn[d] \in TonReads /\ nAt[d] \in RelayAts
           /\ ChainSeqno \in Nat /\ ChainSeqno = Len(nOut)
<1>1. TonTypes /\ RowsFit /\ DrainerFits(d) /\ (nForgotten = {} => SeqnosApart /\ SeqnosHeld /\ SignerFits(d))
  BY DEF TonInv, QueueFits
<1>2. nOn[d] \in TonReads /\ nAt[d] \in RelayAts
  BY <1>1 DEF TonTypes
<1> QED BY <1>1, <1>2, OutHas DEF ChainSeqno

LEMMA ProcessKeeps ==
    ASSUME TonAssumption, TonInv, NEW m \in nPool, TonProcess(m)
    PROVE  TonInv'
<1>0. /\ TonTypes /\ RowsFit /\ m.w \in TonSends /\ m.seq \in TonSeqnos /\ m.seq = ChainSeqno
      /\ UNCHANGED <<nState, nRef, nQueued, nRow, nNow, nAt, nOn, nScan, nSeen, nForgotten, nAhead>> /\ nPool' \subseteq nPool
  BY PoolHas DEF TonInv, TonProcess, Acceptable, nhistory
<1>1. PICK left \in BOOLEAN : nOut' = Append(nOut, [w |-> m.w, left |-> left])
  BY DEF TonProcess
<1>2. PICK c : c = Len(nOut)
  OBVIOUS
<1>3. /\ c \in Nat /\ c = ChainSeqno /\ Len(nOut') = c + 1 /\ ChainSeqno' = c + 1
      /\ \A i \in 1..c : nOut'[i] = nOut[i]
      /\ nOut'[c + 1] = [w |-> m.w, left |-> left]
      /\ nOut' \in Seq([w : TonSends, left : BOOLEAN])
  <2>1. nOut \in Seq([w : TonSends, left : BOOLEAN]) /\ [w |-> m.w, left |-> left] \in [w : TonSends, left : BOOLEAN]
    BY <1>0 DEF TonTypes
  <2> QED BY <1>1, <1>2, <2>1 DEF ChainSeqno
<1>4. TonTypes'
  <2>1. Len(nOut') <= TonMaxSeqno + 1
    BY <1>0, <1>3 DEF TonSeqnos, TonAssumption
  <2> QED BY <1>0, <1>3, <2>1 DEF TonTypes
<1>5. \A i \in 1..(c + 1) : nOut'[i].w = IF i = c + 1 THEN m.w ELSE nOut[i].w
  BY <1>3
<1>6. RowsFit'
  <2> SUFFICES ASSUME NEW w \in TonSends, Kept(w) PROVE RowFits(w)'
    BY <1>0 DEF RowsFit, Kept
  <2>1. RowFits(w) /\ (Stored(w)' <=> Stored(w)) /\ nRow' = nRow /\ InHand' = InHand
    BY <1>0 DEF RowsFit, Stored, InHand
  <2>2. ASSUME NEW i \in 1..(c + 1), nOut'[i].w = w PROVE Stored(w) /\ nRow[w].seq = i - 1
    <3>1. CASE i = c + 1
      <4>1. m.w = w
        BY <1>5, <2>2, <3>1
      <4>2. Stored(w) /\ nRow[w].seq = m.seq
        BY <2>1, <4>1 DEF RowFits
      <4> QED BY <1>0, <1>3, <3>1, <4>2
    <3>2. CASE i # c + 1
      <4>1. i \in 1..c /\ nOut[i].w = w
        BY <1>3, <1>5, <2>2, <3>2
      <4> QED BY <1>2, <2>1, <4>1 DEF RowFits
    <3> QED BY <3>1, <3>2
  <2> QED BY <1>0, <1>3, <2>1, <2>2 DEF RowFits
<1>7. \A d \in TonRelays : Kept(nOn[d].w) /\ Solo(d) => m.w # nOn[d].w /\ Unsent(nOn[d].w)
  BY DEF TonInv, DrainerFits, Unsent
<1>8. ASSUME NEW d \in TonRelays PROVE DrainerFits(d)'
  <2>1. DrainerFits(d)
    BY DEF TonInv
  <2>2. PICK w : w = nOn[d].w
    OBVIOUS
  <2>3. ASSUME Kept(w), Solo(d) PROVE Unsent(w)'
    <3>1. m.w # w /\ Unsent(w)
      BY <1>7, <2>2, <2>3
    <3>2. ASSUME NEW i \in 1..(c + 1) PROVE nOut'[i].w # w
      <4>1. CASE i = c + 1
        BY <1>5, <3>1, <4>1
      <4>2. CASE i # c + 1
        <5>1. i \in 1..c /\ nOut'[i].w = nOut[i].w
          BY <1>3, <1>5, <4>2
        <5> QED BY <1>2, <3>1, <5>1 DEF Unsent
      <4> QED BY <4>1, <4>2
    <3>3. InHand' = InHand
      BY <1>0 DEF InHand
    <3> QED BY <1>0, <1>3, <3>1, <3>2, <3>3 DEF Unsent
  <2>4. nAt' = nAt /\ nOn' = nOn /\ nRow' = nRow /\ nForgotten' = nForgotten /\ nSeen' = nSeen
    BY <1>0
  <2>5. Solo(d)' <=> Solo(d)
    BY <2>4 DEF Solo
  <2> QED BY <2>1, <2>2, <2>3, <2>4, <2>5 DEF DrainerFits, Kept, Stored
<1>9. ASSUME nForgotten = {} PROVE QueueFits'
  <2>0. SeqnosApart /\ SeqnosHeld /\ \A d \in TonRelays : SignerFits(d)
    BY <1>9 DEF TonInv, QueueFits
  <2>1. SeqnosApart'
    BY <1>0, <2>0 DEF SeqnosApart, Stored
  <2>2. \A s : Held(s)' <=> Held(s)
    BY <1>0 DEF Held, Stored
  <2>3. SeqnosHeld'
    <3> SUFFICES ASSUME NEW w \in TonSends, Stored(w)', NEW s \in ChainSeqno'..(nRow[w].seq)' PROVE Held(s)'
      BY DEF SeqnosHeld
    <3>1. Stored(w) /\ nRow'[w].seq = nRow[w].seq /\ nRow[w].seq \in Int
      BY <1>0, StoredIs DEF Stored, TonSeqnos
    <3>2. s \in ChainSeqno..nRow[w].seq
      BY <1>3, <3>1
    <3> QED BY <2>0, <2>2, <3>1, <3>2 DEF SeqnosHeld
  <2>4. Stored(m.w) /\ nRow[m.w].seq = c
    <3>1. Kept(m.w)
      BY <1>9 DEF Kept
    <3> QED BY <1>0, <1>3, <3>1 DEF RowsFit, RowFits
  <2>5. ASSUME NEW d \in TonRelays PROVE SignerFits(d)'
    <3>0. SignerFits(d) /\ DrainerFits(d) /\ nOn[d] \in TonReads
      BY SignerIs, <1>9
    <3>1. PICK w, at, on : w = nOn[d].w /\ at = nAt[d] /\ on = nOn[d]
      OBVIOUS
    <3>2. nAt'[d] = at /\ nOn'[d] = on /\ nRow' = nRow /\ (Solo(d)' <=> Solo(d))
      BY <1>0, <3>1 DEF Solo
    <3>3. at = "sign" => on.chain <= c + 1
      <4>1. on.chain \in Nat
        BY <3>0, <3>1 DEF TonReads
      <4> QED BY <1>3, <3>0, <3>1, <4>1 DEF SignerFits
    <3>4. ASSUME at \in {"store", "send"}, Solo(d)
          PROVE  /\ c + 1 <= on.msg.seq
                 /\ \A v \in TonSends : v # w /\ Stored(v) => nRow[v].seq < on.msg.seq
                 /\ \A s \in (c + 1)..(on.msg.seq - 1) : Held(s)
      <4>1. /\ on.msg # NoMessage
            /\ \A v \in TonSends : v # w /\ Stored(v) => nRow[v].seq < on.msg.seq
            /\ \A s \in c..(on.msg.seq - 1) : Held(s)
        BY <1>3, <3>0, <3>1, <3>4 DEF SignerFits, DrainerFits
      <4>2. PICK n : n = on.msg.seq
        OBVIOUS
      <4>3. n \in Int
        BY <3>0, <3>1, <4>2 DEF TonReads, TonRows, NoMessage, TonSeqnos
      <4>4. c < n
        <5>1. m.w # w
          BY <1>7, <1>9, <3>1, <3>4 DEF Kept
        <5> QED BY <1>0, <2>4, <4>1, <4>2, <5>1
      <4> QED BY <1>3, <4>1, <4>2, <4>3, <4>4
    <3>5. \A v : Stored(v)' <=> Stored(v)
      BY <3>2 DEF Stored
    <3> QED BY <1>3, <2>2, <3>1, <3>2, <3>3, <3>4, <3>5 DEF SignerFits
  <2> QED BY <2>1, <2>3, <2>5 DEF QueueFits
<1> QED BY <1>0, <1>4, <1>6, <1>8, <1>9 DEF TonInv

\* A relay that goes back to the outbox.
LEMMA RelayEnds ==
    ASSUME TonAssumption, TonInv, OneTonDrainer, NEW d \in TonRelays, TonEnded(d) \/ TonRetry(d),
           UNCHANGED <<nState, nRef, nRow, nOut, nNow, nScan, nSeen, nForgotten, nAhead>>, nPool' \subseteq Messages,
           \A m \in nPool' : m \in nPool \/ (Kept(m.w) => Stored(m.w) /\ nRow[m.w].seq = m.seq)
    PROVE  TonInv'
<1>1. TonGoto(d, "idle", TonIdle) /\ nQueued' \subseteq nQueued
  BY DEF TonEnded, TonRetry
<1>2. "idle" \in RelayAts /\ TonIdle \in TonReads /\ TonTypes
  BY IdleReads DEF RelayAts, TonInv
<1>3. /\ nAt' \in [TonDrivers -> RelayAts \cup ScanAts] /\ nOn' \in [TonRelays -> TonReads]
      /\ \A e \in TonRelays : nAt'[e] \in RelayAts
      /\ nAt'[d] = "idle" /\ nAt'[TonWatcher] = nAt[TonWatcher]
  BY <1>1, <1>2, RelayMoves
<1>4. TonTypes'
  BY <1>1, <1>2, <1>3 DEF TonTypes
<1>5. DrainerFits(d)' /\ SignerFits(d)'
  BY <1>3 DEF DrainerFits, SignerFits, Solo
<1> QED BY <1>4, <1>5, RelayStep

LEMMA PoolIs == ASSUME TonInv PROVE nPool \subseteq Messages
BY DEF TonInv, TonTypes

LEMMA RelayStopsKeeps ==
    ASSUME TonAssumption, TonInv, OneTonDrainer, NEW d \in TonRelays, TonStopped(d)
    PROVE  TonInv'
<1>1. TonRetry(d) /\ UNCHANGED <<nState, nRef, nRow, nPool, nOut, nNow, nScan, nSeen, nForgotten, nAhead>>
  BY DEF TonStopped, OneTonDrainer, nhistory
<1> QED BY <1>1, PoolIs, RelayEnds

\* What a relay sends is what is stored.
LEMMA RelayMessage ==
    ASSUME TonInv, NEW d \in TonRelays, nAt[d] \in {"resend", "send"}
    PROVE  LET m == TonMessage(nOn[d].w, nOn[d].msg)
           IN  m \in Messages /\ m.w = nOn[d].w /\ (Kept(m.w) => Stored(m.w) /\ nRow[m.w].seq = m.seq)
<1>1. nOn[d].w \in TonSends /\ nOn[d].msg \in TonRows
  BY SignerIs DEF DrainerFits, TonReads
<1>2. Kept(nOn[d].w) => Stored(nOn[d].w) /\ nRow[nOn[d].w].seq = nOn[d].msg.seq
  BY SignerIs DEF DrainerFits
<1> QED BY <1>1, <1>2 DEF TonMessage, Messages, TonRows

LEMMA ResendKeeps ==
    ASSUME TonAssumption, TonInv, OneTonDrainer, NEW d \in TonRelays, TonResend(d)
    PROVE  TonInv'
<1>1. PICK m : m = TonMessage(nOn[d].w, nOn[d].msg)
  OBVIOUS
<1>2. m \in Messages /\ (Kept(m.w) => Stored(m.w) /\ nRow[m.w].seq = m.seq)
  BY <1>1, RelayMessage DEF TonResend
<1>3. (\A x \in nPool' : x \in nPool \/ x = m) /\ nPool' \subseteq Messages
  BY <1>1, <1>2, PoolIs DEF TonResend
<1>4. (TonEnded(d) \/ TonRetry(d)) /\ UNCHANGED <<nState, nRef, nRow, nOut, nNow, nScan, nSeen, nForgotten, nAhead>>
  BY DEF TonResend, nhistory
<1> QED BY <1>2, <1>3, <1>4, RelayEnds

\* A relay that goes on with the send it is at.
LEMMA RelayGoes ==
    ASSUME TonInv, OneTonDrainer, NEW d \in TonRelays, NEW at \in RelayAts, NEW on \in TonReads, TonGoto(d, at, on),
           UNCHANGED <<nState, nRef, nQueued, nRow, nPool, nOut, nNow, nScan, nSeen, nForgotten, nAhead>>,
           DrainerFits(d)', nForgotten = {} => SignerFits(d)'
    PROVE  TonInv'
<1>1. TonTypes
  BY DEF TonInv
<1>2. /\ nAt' \in [TonDrivers -> RelayAts \cup ScanAts] /\ nOn' \in [TonRelays -> TonReads]
      /\ \A e \in TonRelays : nAt'[e] \in RelayAts
      /\ nAt'[TonWatcher] = nAt[TonWatcher]
  BY <1>1, RelayMoves
<1>3. TonTypes'
  BY <1>1, <1>2 DEF TonTypes
<1> QED BY <1>3, RelayStep

LEMMA UnstoredUnsent == ASSUME RowsFit, NEW w \in TonSends, Kept(w), ~ Stored(w) PROVE Unsent(w)
BY DEF RowsFit, RowFits, Unsent

LEMMA BroadcastKeeps ==
    ASSUME TonAssumption, TonInv, OneTonDrainer, NEW d \in TonRelays, NEW w \in TonSends, TonBroadcast(d, w)
    PROVE  TonInv'
<1>0. TonTypes /\ RowsFit /\ UNCHANGED <<nState, nRef, nQueued, nRow, nPool, nOut, nNow, nScan, nSeen, nForgotten, nAhead>>
  BY DEF TonInv, TonBroadcast, nhistory
<1>1. CASE Stored(w)
  <2> DEFINE on == [TonIdle EXCEPT !.w = w, !.msg = nRow[w]]
  <2>1. on \in TonReads /\ on.w = w /\ on.msg = nRow[w] /\ "resend" \in RelayAts
    <3>1. nRow[w] \in {NoMessage} \cup TonRows
      BY <1>0 DEF TonTypes
    <3> QED BY <3>1, IdleReads DEF TonReads, RelayAts, TonIdle
  <2>2. TonGoto(d, "resend", on)
    BY <1>1 DEF TonBroadcast, Stored
  <2> HIDE DEF on
  <2>3. nAt'[d] = "resend" /\ nOn'[d] = on
    BY <1>0, <2>1, <2>2, RelayMoves
  <2>4. DrainerFits(d)' /\ SignerFits(d)'
    BY <1>0, <1>1, <2>1, <2>3 DEF DrainerFits, SignerFits, Stored, Solo
  <2> QED BY <1>0, <2>1, <2>2, <2>4, RelayGoes
<1>2. CASE ~ Stored(w)
  <2> DEFINE on == [TonIdle EXCEPT !.w = w]
  <2>1. on \in TonReads /\ on.w = w /\ "fund" \in RelayAts
    BY IdleReads DEF TonReads, RelayAts, TonIdle
  <2>2. TonGoto(d, "fund", on)
    BY <1>2 DEF TonBroadcast, Stored
  <2> HIDE DEF on
  <2>3. nAt'[d] = "fund" /\ nOn'[d] = on
    BY <1>0, <2>1, <2>2, RelayMoves
  <2>4. Kept(w) => Unsent(w)
    BY <1>0, <1>2, UnstoredUnsent
  <2>5. Kept(w)' <=> Kept(w)
    BY <1>0 DEF Kept
  <2>6. Unsent(w)' <=> Unsent(w)
    BY <1>0 DEF Unsent, InHand
  <2>7. DrainerFits(d)' /\ SignerFits(d)'
    BY <1>0, <1>2, <2>1, <2>3, <2>4, <2>5, <2>6 DEF DrainerFits, SignerFits, Stored, Solo
  <2> QED BY <1>0, <2>1, <2>2, <2>7, RelayGoes
<1> QED BY <1>1, <1>2

\* A relay on its way to a first message, that the step leaves with its withdrawal.
LEMMA StillSolo ==
    ASSUME TonInv, NEW d \in TonRelays, nAt[d] \in {"fund", "plan", "sign"}, nAt'[d] \in {"plan", "sign", "store"},
           nOn'[d].w = nOn[d].w, nAt'[d] = "store" => nOn'[d].msg # NoMessage,
           UNCHANGED <<nRow, nPool, nOut, nScan, nSeen, nForgotten>>
    PROVE  DrainerFits(d)'
<1>1. DrainerFits(d) /\ Solo(d)
  BY DEF TonInv, Solo
<1>2. \A w : (Kept(w)' <=> Kept(w)) /\ (Stored(w)' <=> Stored(w)) /\ (Unsent(w)' <=> Unsent(w))
  BY DEF Kept, Stored, Unsent, InHand
<1> QED BY <1>1, <1>2 DEF DrainerFits

LEMMA FundKeeps ==
    ASSUME TonAssumption, TonInv, OneTonDrainer, NEW d \in TonRelays, TonFund(d)
    PROVE  TonInv'
<1>0. UNCHANGED <<nState, nRef, nRow, nPool, nOut, nNow, nScan, nSeen, nForgotten, nAhead>> /\ nAt[d] = "fund"
  BY DEF TonFund, nhistory
<1>1. CASE TonEnded(d)
  BY <1>0, <1>1, PoolIs, RelayEnds
<1>2. CASE TonGoto(d, "plan", nOn[d]) /\ UNCHANGED nQueued
  <2>1. "plan" \in RelayAts /\ nOn[d] \in TonReads /\ TonTypes
    BY SignerIs DEF RelayAts
  <2>2. nAt'[d] = "plan" /\ nOn'[d] = nOn[d]
    BY <1>2, <2>1, RelayMoves
  <2>3. DrainerFits(d)' /\ SignerFits(d)'
    BY <1>0, <2>2, StillSolo DEF SignerFits
  <2> QED BY <1>0, <1>2, <2>1, <2>3, RelayGoes
<1> QED BY <1>1, <1>2 DEF TonFund

LEMMA PlanKeeps ==
    ASSUME TonAssumption, TonInv, OneTonDrainer, NEW d \in TonRelays, TonPlan(d)
    PROVE  TonInv'
<1>1. PICK on : on = [nOn[d] EXCEPT !.chain = ChainSeqno]
  OBVIOUS
<1>2. /\ TonGoto(d, "sign", on) /\ nAt[d] = "plan"
      /\ UNCHANGED <<nState, nRef, nQueued, nRow, nPool, nOut, nNow, nScan, nSeen, nForgotten, nAhead>>
  BY <1>1 DEF TonPlan, nhistory
<1>3. ChainSeqno \in 0..(TonMaxSeqno + 1) /\ ChainSeqno' = ChainSeqno /\ ChainSeqno <= ChainSeqno
  BY <1>2, SignerIs DEF TonTypes, ChainSeqno, TonAssumption
<1>4. "sign" \in RelayAts /\ on \in TonReads /\ on.w = nOn[d].w /\ on.chain = ChainSeqno /\ TonTypes
  BY <1>1, <1>3, SignerIs DEF RelayAts, TonReads
<1>5. nAt'[d] = "sign" /\ nOn'[d] = on
  BY <1>2, <1>4, RelayMoves
<1>6. DrainerFits(d)' /\ SignerFits(d)'
  BY <1>2, <1>3, <1>4, <1>5, StillSolo DEF SignerFits
<1> QED BY <1>2, <1>4, <1>6, RelayGoes

----------------------------------------------------------------------------
(***************************************************************************)
(* TON: a first send takes the next seqno.                                 *)
(***************************************************************************)
LEMMA NextSeqnoIs ==
    ASSUME TonAssumption, TonTypes, NEW chain \in Nat
    PROVE  /\ NextSeqno(chain) \in Nat /\ NextSeqno(chain) >= chain
           /\ \A s \in StoredSeqnos : NextSeqno(chain) > s
           /\ NextSeqno(chain) = chain \/ \E s \in StoredSeqnos : NextSeqno(chain) = s + 1
<1> DEFINE T == {n \in Nat : n >= chain /\ \A s \in StoredSeqnos : n > s}
           C == {chain} \cup {s + 1 : s \in StoredSeqnos}
<1>0. \A s \in StoredSeqnos : s \in Int /\ -1 <= s /\ s <= TonMaxSeqno
  <2>1. \A w \in TonSends : nRow[w].seq = -1 \/ nRow[w].seq \in TonSeqnos
    BY StoredIs
  <2> QED BY <2>1 DEF StoredSeqnos, TonSeqnos, TonAssumption
<1>1. TonMaxSeqno \in Nat
  BY DEF TonAssumption
<1>2. chain + TonMaxSeqno + 1 \in T
  BY <1>0, <1>1
<1>3. PICK k \in T : \A m \in T : k <= m
  <2>1. T \subseteq Nat /\ T # {}
    BY <1>2
  <2> HIDE DEF T
  <2> QED BY <2>1, LeastNat
<1>4. k \in C
  <2>1. CASE k = chain
    BY <2>1
  <2>2. CASE k # chain
    <3>1. k - 1 \in Nat /\ k - 1 >= chain /\ k - 1 \notin T
      BY <1>3, <2>2
    <3>2. PICK s \in StoredSeqnos : ~ (k - 1 > s)
      BY <3>1
    <3>3. k > s /\ s \in Int
      BY <1>0, <1>3, <3>2
    <3>4. k = s + 1
      BY <3>1, <3>2, <3>3
    <3> QED BY <3>2, <3>4
  <2> QED BY <2>1, <2>2
<1>5. NextSeqno(chain) = CHOOSE n \in C : n >= chain /\ \A s \in StoredSeqnos : n > s
  BY DEF NextSeqno
<1>6. NextSeqno(chain) \in C /\ NextSeqno(chain) >= chain /\ \A s \in StoredSeqnos : NextSeqno(chain) > s
  BY <1>3, <1>4, <1>5
<1>7. ASSUME NEW n \in C PROVE n \in Int /\ (n = chain \/ \E s \in StoredSeqnos : n = s + 1)
  <2>1. CASE n = chain
    BY <2>1
  <2>2. CASE n \in {s + 1 : s \in StoredSeqnos}
    <3>1. PICK s \in StoredSeqnos : n = s + 1
      BY <2>2
    <3> QED BY <1>0, <3>1
  <2> QED BY <2>1, <2>2
<1>8. PICK n : n = NextSeqno(chain)
  OBVIOUS
<1>9. n \in C /\ n >= chain /\ \A s \in StoredSeqnos : n > s
  BY <1>6, <1>8
<1>10. n \in Int /\ (n = chain \/ \E s \in StoredSeqnos : n = s + 1)
  BY <1>7, <1>9
<1> HIDE DEF C
<1> QED BY <1>8, <1>9, <1>10

LEMMA SignKeeps ==
    ASSUME TonAssumption, TonInv, OneTonDrainer, NEW d \in TonRelays, TonSign(d)
    PROVE  TonInv'
<1>0. /\ TonTypes /\ RowsFit /\ nOn[d] \in TonReads
      /\ ChainSeqno \in Nat /\ ChainSeqno = Len(nOut) /\ nAt[d] = "sign"
  BY SignerIs DEF TonSign
<1>1. PICK n, c, w : n = NextSeqno(nOn[d].chain) /\ c = ChainSeqno /\ w = nOn[d].w
  OBVIOUS
<1>2. PICK on : on = [nOn[d] EXCEPT !.msg = [seq |-> n, exp |-> nNow + TonWindow]]
  OBVIOUS
<1>3. /\ TonGoto(d, "store", on) /\ n <= TonMaxSeqno
      /\ UNCHANGED <<nState, nRef, nQueued, nRow, nPool, nOut, nNow, nScan, nSeen, nForgotten, nAhead>>
  BY <1>1, <1>2 DEF TonSign, nhistory
<1>4. nOn[d].chain \in Nat /\ c \in Nat
  BY <1>0, <1>1 DEF TonReads
<1>5. /\ n \in Nat /\ n >= nOn[d].chain
      /\ \A v \in TonSends : n > nRow[v].seq
      /\ n = nOn[d].chain \/ \E v \in TonSends : n = nRow[v].seq + 1
  BY <1>0, <1>1, <1>4, NextSeqnoIs DEF StoredSeqnos
<1>6. on \in TonReads /\ on.w = w /\ on.msg = [seq |-> n, exp |-> nNow + TonWindow]
  <2>1. nNow + TonWindow \in TonTimes
    BY <1>0 DEF TonTypes, TonTimes, TonAssumption
  <2>2. n \in TonSeqnos
    BY <1>3, <1>5 DEF TonSeqnos
  <2> QED BY <1>0, <1>1, <1>2, <2>1, <2>2 DEF TonReads, TonRows
<1>7. on.msg # NoMessage /\ on.msg.seq = n
  BY <1>5, <1>6 DEF NoMessage
<1>8. "store" \in RelayAts
  BY DEF RelayAts
<1>9. nAt'[d] = "store" /\ nOn'[d] = on
  BY <1>0, <1>3, <1>6, <1>8, RelayMoves
<1>10. DrainerFits(d)'
  BY <1>0, <1>1, <1>3, <1>6, <1>7, <1>9, StillSolo
<1>11. ASSUME nForgotten = {} PROVE SignerFits(d)'
  <2>0. SeqnosHeld /\ nOn[d].chain <= c
    BY <1>0, <1>1, <1>11, SignerIs DEF SignerFits
  <2>1. c <= n
    <3>1. CASE c > 0
      <4>1. c \in 1..Len(nOut)
        BY <1>0, <1>1, <3>1
      <4>2. nOut[c].w \in TonSends /\ Kept(nOut[c].w)
        BY <1>0, <1>11, <4>1, OutHas DEF Kept
      <4>3. nRow[nOut[c].w].seq = c - 1
        BY <1>0, <4>1, <4>2 DEF RowsFit, RowFits
      <4>4. n > c - 1
        BY <1>5, <4>2, <4>3
      <4> QED BY <1>4, <1>5, <4>4
    <3> QED BY <1>4, <1>5, <3>1
  <2>2. \A s \in c..(n - 1) : Held(s)
    <3>1. CASE n = nOn[d].chain
      BY <1>4, <1>5, <2>0, <3>1
    <3>2. CASE \E v \in TonSends : n = nRow[v].seq + 1
      <4>1. PICK v \in TonSends : n = nRow[v].seq + 1
        BY <3>2
      <4>2. CASE Stored(v)
        <5>1. nRow[v].seq \in Int /\ n - 1 = nRow[v].seq
          BY <1>0, <4>1, <4>2, StoredIs DEF TonSeqnos
        <5> QED BY <1>1, <2>0, <4>2, <5>1 DEF SeqnosHeld
      <4>3. CASE ~ Stored(v)
        <5>1. n = 0
          BY <1>0, <4>1, <4>3, StoredIs
        <5> QED BY <1>4, <5>1
      <4> QED BY <4>2, <4>3
    <3> QED BY <1>5, <3>1, <3>2
  <2>3. \A s : Held(s)' <=> Held(s)
    BY <1>3 DEF Held, Stored
  <2>4. ChainSeqno' = c /\ nRow' = nRow
    BY <1>1, <1>3 DEF ChainSeqno
  <2> QED BY <1>5, <1>7, <1>9, <2>1, <2>2, <2>3, <2>4 DEF SignerFits
<1> QED BY <1>3, <1>6, <1>8, <1>10, <1>11, RelayGoes

\* The others stand still: there are none.
LEMMA OneSigner ==
    ASSUME OneTonDrainer, NEW d \in TonRelays, TonTypes', RowsFit', DrainerFits(d)',
           nForgotten' = {} => SeqnosApart' /\ SeqnosHeld' /\ SignerFits(d)'
    PROVE  TonInv'
BY DEF OneTonDrainer, TonInv, QueueFits

LEMMA StoreKeeps ==
    ASSUME TonAssumption, TonInv, OneTonDrainer, NEW d \in TonRelays, StoreTonTx(d)
    PROVE  TonInv'
<1>0. /\ TonTypes /\ RowsFit /\ DrainerFits(d) /\ nOn[d] \in TonReads
      /\ ChainSeqno \in Nat /\ ChainSeqno = Len(nOut) /\ nAt[d] = "store"
  BY SignerIs DEF StoreTonTx
<1>1. PICK w, msg, n, c : w = nOn[d].w /\ msg = nOn[d].msg /\ n = nOn[d].msg.seq /\ c = ChainSeqno
  OBVIOUS
<1>2. /\ w \in TonSends /\ msg # NoMessage
      /\ Kept(w) => ~ Stored(w) /\ Unsent(w)
  BY <1>0, <1>1 DEF DrainerFits, Solo
<1>3. msg \in TonRows /\ msg.seq = n /\ n \in Nat
  <2>1. msg \in TonRows
    BY <1>0, <1>1, <1>2 DEF TonReads
  <2> QED BY <1>1, <2>1, RowsAreNot
<1>4. /\ nRow' = [nRow EXCEPT ![w] = IF @ = NoMessage THEN msg ELSE @] /\ TonGoto(d, "send", nOn[d])
      /\ UNCHANGED <<nState, nRef, nQueued, nPool, nOut, nNow, nScan, nSeen, nForgotten, nAhead>>
  BY <1>1 DEF StoreTonTx, nhistory
<1>5. /\ nRow' \in [TonSends -> {NoMessage} \cup TonRows] /\ (~ Stored(w) => nRow'[w] = msg)
      /\ \A v \in TonSends : v # w => nRow'[v] = nRow[v]
      /\ Stored(w)' /\ \A v \in TonSends : v # w => (Stored(v)' <=> Stored(v))
  BY <1>0, <1>2, <1>3, <1>4 DEF TonTypes, Stored
<1>6. /\ nAt' \in [TonDrivers -> RelayAts \cup ScanAts] /\ nOn' \in [TonRelays -> TonReads]
      /\ \A e \in TonRelays : nAt'[e] \in RelayAts
      /\ nAt'[d] = "send" /\ nOn'[d] = nOn[d] /\ nAt'[TonWatcher] = nAt[TonWatcher]
  <2>1. "send" \in RelayAts
    BY DEF RelayAts
  <2> QED BY <1>0, <1>4, <2>1, RelayMoves
<1>7. TonTypes'
  BY <1>0, <1>4, <1>5, <1>6 DEF TonTypes
<1>8. /\ ChainSeqno' = c /\ InHand' = InHand /\ \A v : (Kept(v)' <=> Kept(v)) /\ (Unsent(v)' <=> Unsent(v))
  BY <1>1, <1>4 DEF ChainSeqno, InHand, Kept, Unsent
<1>9. RowsFit'
  <2> SUFFICES ASSUME NEW v \in TonSends, Kept(v) PROVE RowFits(v)'
    BY <1>8 DEF RowsFit
  <2>1. CASE v = w
    BY <1>2, <1>8, <2>1 DEF Unsent, RowFits
  <2>2. CASE v # w
    <3>1. RowFits(v) /\ (Stored(v)' <=> Stored(v)) /\ nRow'[v] = nRow[v] /\ nOut' = nOut /\ nPool' = nPool
      BY <1>0, <1>4, <1>5, <2>2 DEF RowsFit
    <3> QED BY <1>8, <3>1 DEF RowFits
  <2> QED BY <2>1, <2>2
<1>10. DrainerFits(d)'
  BY <1>1, <1>2, <1>5, <1>6, <1>8 DEF DrainerFits
<1>11. ASSUME nForgotten = {} PROVE SeqnosApart' /\ SeqnosHeld' /\ SignerFits(d)'
  <2>0. /\ SeqnosApart /\ SeqnosHeld /\ ~ Stored(w) /\ nRow'[w] = msg
        /\ c <= n
        /\ \A v \in TonSends : v # w /\ Stored(v) => nRow[v].seq < n
        /\ \A s \in c..(n - 1) : Held(s)
    BY <1>0, <1>1, <1>2, <1>5, <1>11, SignerIs DEF SignerFits, Solo, Kept
  <2>1. \A s : Held(s) => Held(s)'
    BY <1>5, <2>0 DEF Held
  <2>2. SeqnosApart'
    <3> SUFFICES ASSUME NEW u \in TonSends, NEW v \in TonSends, u # v, Stored(u)', Stored(v)'
                 PROVE  nRow'[u].seq # nRow'[v].seq
      BY DEF SeqnosApart
    <3>1. CASE u # w /\ v # w
      BY <1>5, <2>0, <3>1 DEF SeqnosApart
    <3>2. CASE u = w
      <4>1. nRow'[v].seq < n /\ nRow'[v].seq \in Int
        BY <1>0, <1>5, <2>0, <3>2, StoredIs DEF TonSeqnos
      <4> QED BY <1>3, <2>0, <3>2, <4>1
    <3>3. CASE v = w
      <4>1. nRow'[u].seq < n /\ nRow'[u].seq \in Int
        BY <1>0, <1>5, <2>0, <3>3, StoredIs DEF TonSeqnos
      <4> QED BY <1>3, <2>0, <3>3, <4>1
    <3> QED BY <3>1, <3>2, <3>3
  <2>3. SeqnosHeld'
    <3> SUFFICES ASSUME NEW v \in TonSends, Stored(v)', NEW s \in c..nRow'[v].seq PROVE Held(s)'
      BY <1>8 DEF SeqnosHeld
    <3>1. CASE v = w
      <4>1. CASE s = n
        BY <1>2, <1>3, <1>5, <2>0, <4>1 DEF Held
      <4>2. CASE s # n
        <5>1. s \in c..(n - 1)
          BY <1>0, <1>1, <1>3, <2>0, <3>1, <4>2
        <5> QED BY <2>0, <2>1, <5>1
      <4> QED BY <4>1, <4>2
    <3>2. CASE v # w
      BY <1>1, <1>5, <2>0, <2>1, <3>2 DEF SeqnosHeld
    <3> QED BY <3>1, <3>2
  <2>4. SignerFits(d)'
    <3>1. \A v \in TonSends : v # w /\ Stored(v)' => nRow'[v].seq < n
      BY <1>5, <2>0
    <3> QED BY <1>1, <1>6, <1>8, <2>0, <2>1, <3>1 DEF SignerFits
  <2> QED BY <2>2, <2>3, <2>4
<1> QED BY <1>4, <1>7, <1>9, <1>10, <1>11, OneSigner

\* A refused message whose row no scan read was never sent: the row may go, and
\* with it the last seqno.
LEMMA RefusedKeeps ==
    ASSUME TonAssumption, TonInv, OneTonDrainer, NEW d \in TonRelays, nAt[d] = "send",
           DiscardTx(nOn[d].w), TonEnded(d),
           UNCHANGED <<nState, nRef, nPool, nOut, nNow, nScan, nSeen, nAhead>>
    PROVE  TonInv'
<1>0. /\ TonTypes /\ RowsFit /\ DrainerFits(d) /\ nOn[d] \in TonReads
      /\ ChainSeqno \in Nat /\ ChainSeqno = Len(nOut)
  BY SignerIs
<1>1. PICK w, n : w = nOn[d].w /\ n = nOn[d].msg.seq
  OBVIOUS
<1>2. /\ w \in TonSends
      /\ nRow' = [nRow EXCEPT ![w] = NoMessage] /\ nForgotten' = nForgotten \cup ({w} \cap nSeen)
      /\ Kept(w)' => Kept(w) /\ Unsent(w)
      /\ \A v : v # w => (Kept(v)' <=> Kept(v))
  BY <1>0, <1>1 DEF DrainerFits, DiscardTx, Solo, Kept
<1>3. /\ nRow' \in [TonSends -> {NoMessage} \cup TonRows] /\ ~ Stored(w)'
      /\ \A v \in TonSends : v # w => nRow'[v] = nRow[v] /\ (Stored(v)' <=> Stored(v))
  BY <1>0, <1>2 DEF TonTypes, Stored
<1>4. /\ nAt' \in [TonDrivers -> RelayAts \cup ScanAts] /\ nOn' \in [TonRelays -> TonReads]
      /\ \A e \in TonRelays : nAt'[e] \in RelayAts
      /\ nAt'[d] = "idle" /\ nAt'[TonWatcher] = nAt[TonWatcher]
  <2>1. "idle" \in RelayAts /\ TonIdle \in TonReads
    BY IdleReads DEF RelayAts
  <2> QED BY <1>0, <2>1, RelayMoves DEF TonEnded
<1>5. TonTypes'
  <2>1. nQueued' \subseteq TonSends
    BY <1>0 DEF TonEnded, TonTypes
  <2>2. nForgotten' \subseteq nSeen'
    BY <1>0, <1>2 DEF TonTypes
  <2> QED BY <1>0, <1>3, <1>4, <2>1, <2>2 DEF TonTypes
<1>6. InHand' = InHand /\ nPool' = nPool /\ nOut' = nOut
  BY DEF InHand
<1>7. RowsFit'
  <2> SUFFICES ASSUME NEW v \in TonSends, Kept(v)' PROVE RowFits(v)'
    BY DEF RowsFit
  <2>1. CASE v = w
    BY <1>2, <1>6, <2>1 DEF Unsent, RowFits
  <2>2. CASE v # w
    <3>1. RowFits(v) /\ (Stored(v)' <=> Stored(v)) /\ nRow'[v] = nRow[v]
      BY <1>0, <1>2, <1>3, <2>2 DEF RowsFit
    <3> QED BY <1>6, <3>1 DEF RowFits
  <2> QED BY <2>1, <2>2
<1>8. DrainerFits(d)' /\ SignerFits(d)'
  BY <1>4 DEF DrainerFits, SignerFits, Solo
<1>9. ASSUME nForgotten' = {} PROVE SeqnosApart' /\ SeqnosHeld'
  <2>0. /\ SeqnosApart /\ SeqnosHeld
        /\ nRow[w].seq = n /\ n \in Int
        /\ \A v \in TonSends : v # w /\ Stored(v) => nRow[v].seq < n
    <3>1. nForgotten = {} /\ w \notin nSeen /\ w \notin nForgotten
      BY <1>2, <1>9
    <3>2. SeqnosApart /\ SeqnosHeld /\ SignerFits(d) /\ Solo(d)
      BY <1>1, <3>1, SignerIs DEF Solo
    <3>3. Stored(w) /\ nRow[w].seq = n
      BY <1>0, <1>1, <3>1 DEF DrainerFits, Kept
    <3> QED BY <1>0, <1>1, <1>2, <3>2, <3>3, StoredIs DEF SignerFits, TonSeqnos
  <2>1. SeqnosApart'
    BY <1>3, <2>0 DEF SeqnosApart
  <2>2. SeqnosHeld'
    <3> SUFFICES ASSUME NEW v \in TonSends, Stored(v)', NEW s \in ChainSeqno..nRow'[v].seq PROVE Held(s)'
      BY DEF SeqnosHeld, ChainSeqno
    <3>1. v # w /\ nRow'[v] = nRow[v] /\ Stored(v)
      BY <1>3
    <3>2. PICK u \in TonSends : Stored(u) /\ nRow[u].seq = s
      BY <2>0, <3>1 DEF SeqnosHeld, Held
    <3>3. nRow[v].seq < n /\ nRow[v].seq \in Int
      BY <1>0, <2>0, <3>1, StoredIs DEF TonSeqnos
    <3>4. s # n
      BY <1>0, <2>0, <3>1, <3>3
    <3>5. u # w
      BY <2>0, <3>2, <3>4
    <3> QED BY <1>3, <3>2, <3>5 DEF Held
  <2> QED BY <2>1, <2>2
<1> QED BY <1>5, <1>7, <1>8, <1>9, OneSigner

LEMMA SendKeeps ==
    ASSUME TonAssumption, TonInv, OneTonDrainer, NEW d \in TonRelays, TonSend(d)
    PROVE  TonInv'
<1>0. nAt[d] = "send" /\ UNCHANGED <<nState, nRef, nOut, nNow, nScan, nSeen, nAhead>>
  BY DEF TonSend
<1>1. PICK m : m = TonMessage(nOn[d].w, nOn[d].msg)
  OBVIOUS
<1>2. m \in Messages /\ (Kept(m.w) => Stored(m.w) /\ nRow[m.w].seq = m.seq)
  BY <1>0, <1>1, RelayMessage
<1>3. CASE UNCHANGED <<nRow, nForgotten>> /\ (TonEnded(d) \/ TonRetry(d)) /\ \A x \in nPool' : x \in nPool \/ x = m
  <2>1. nPool' \subseteq Messages
    BY <1>2, <1>3, PoolIs
  <2> QED BY <1>0, <1>2, <1>3, <2>1, RelayEnds
<1>4. CASE DiscardTx(nOn[d].w) /\ UNCHANGED nPool /\ TonEnded(d)
  BY <1>0, <1>4, RefusedKeeps
<1>5. \/ UNCHANGED <<nRow, nForgotten>> /\ (TonEnded(d) \/ TonRetry(d)) /\ \A x \in nPool' : x \in nPool \/ x = m
      \/ DiscardTx(nOn[d].w) /\ UNCHANGED nPool /\ TonEnded(d)
  BY <1>1 DEF TonSend, TonRefused
<1> QED BY <1>3, <1>4, <1>5

----------------------------------------------------------------------------
(***************************************************************************)
(* TON: every step keeps the invariant.                                    *)
(***************************************************************************)
LEMMA TonInitFits == ASSUME TonAssumption, OneTonDrainer, TonInit PROVE TonInv
<1>1. \A w \in TonSends : ~ Stored(w)
  BY DEF TonInit, Stored
<1>2. TonTypes
  <2>1. nScan \in Scans
    BY NoScanIs DEF TonInit
  <2>2. nNow \in 0..TonMaxTime
    BY DEF TonInit, TonAssumption
  <2>3. nOut \in Seq([w : TonSends, left : BOOLEAN]) /\ Len(nOut) <= TonMaxSeqno + 1
    BY DEF TonInit, TonAssumption
  <2>4. nOn \in [TonRelays -> TonReads]
    BY IdleReads DEF TonInit
  <2>5. /\ nAt \in [TonDrivers -> RelayAts \cup ScanAts] /\ nAt[TonWatcher] \in ScanAts
        /\ \A d \in TonRelays : nAt[d] \in RelayAts
    BY DEF TonInit, RelayAts, ScanAts, TonDrivers
  <2> QED BY <2>1, <2>2, <2>3, <2>4, <2>5 DEF TonInit, TonTypes
<1>3. InHand = {}
  BY NoScanIs DEF InHand, TonInit
<1>4. RowsFit
  BY <1>3 DEF RowsFit, RowFits, TonInit
<1>5. \A d \in TonRelays : nAt[d] = "idle"
  BY DEF TonInit, TonDrivers
<1>6. \A d \in TonRelays : DrainerFits(d) /\ SignerFits(d)
  BY <1>5 DEF DrainerFits, SignerFits, Solo
<1>7. QueueFits
  BY <1>1, <1>6 DEF QueueFits, SeqnosApart, SeqnosHeld
<1> QED BY <1>2, <1>4, <1>6, <1>7 DEF TonInv

LEMMA DriveKeeps ==
    ASSUME TonAssumption, TonInv, OneTonDrainer, NEW d \in TonRelays, TonDrive(d)
    PROVE  TonInv'
<1>1. ASSUME NEW w \in TonSends, TonBroadcast(d, w) PROVE TonInv'
  BY <1>1, BroadcastKeeps
<1>2. CASE TonResend(d)
  BY <1>2, ResendKeeps
<1>3. CASE TonFund(d)
  BY <1>3, FundKeeps
<1>4. CASE TonPlan(d)
  BY <1>4, PlanKeeps
<1>5. CASE TonSign(d)
  BY <1>5, SignKeeps
<1>6. CASE StoreTonTx(d)
  BY <1>6, StoreKeeps
<1>7. CASE TonSend(d)
  BY <1>7, SendKeeps
<1> QED BY <1>1, <1>2, <1>3, <1>4, <1>5, <1>6, <1>7 DEF TonDrive

LEMMA TonStepKeeps ==
    ASSUME TonAssumption, OneTonDrainer, TonInv, [TonNext]_nvars
    PROVE  TonInv'
<1>0. nNow \in 0..TonMaxTime /\ nQueued \subseteq TonSends /\ TonMaxTime \in Nat
  BY DEF TonInv, TonTypes, TonAssumption
<1>1. CASE UNCHANGED nvars
  BY <1>0, <1>1, WorldKeeps DEF nvars, nhistory
<1>2. CASE TonTick
  <2>1. nNow' \in 0..TonMaxTime
    BY <1>0, <1>2 DEF TonTick
  <2> QED BY <1>0, <1>2, <2>1, WorldKeeps DEF TonTick, nhistory
<1>3. ASSUME NEW m \in nPool, TonProcess(m) PROVE TonInv'
  BY <1>3, ProcessKeeps
<1>4. ASSUME NEW m \in nPool, TonDropped(m) PROVE TonInv'
  BY <1>0, <1>4, WorldKeeps DEF TonDropped, nhistory
<1>5. ASSUME NEW d \in TonRelays, TonDrive(d) PROVE TonInv'
  BY <1>5, DriveKeeps
<1>6. ASSUME NEW d \in TonDrivers, TonStopped(d) PROVE TonInv'
  <2>1. CASE d = TonWatcher
    BY <1>6, <2>1, WatcherStopsKeeps
  <2>2. CASE d # TonWatcher
    BY <1>6, <2>2, RelayStopsKeeps DEF TonDrivers
  <2> QED BY <2>1, <2>2
<1>7. CASE TonScan
  BY <1>7, TonScanKeeps
<1>8. CASE TonReadSeqno
  BY <1>8, TonReadSeqnoKeeps
<1>9. CASE TonSettle
  BY <1>9, TonSettleKeeps
<1>10. CASE TonScanned
  BY <1>10, TonScannedKeeps
<1>11. ASSUME NEW p \in nScan.pend, TonAdvance(p) PROVE TonInv'
  BY <1>11, TonAdvanceKeeps
<1>12. ASSUME NEW p \in nScan.again, ReplaceTon(p) \/ ResubmitTon(p) PROVE TonInv'
  BY <1>12, ReplaceKeeps, ResubmitKeeps
<1>13. ASSUME NEW w \in TonSends, TonUnpark(w) PROVE TonInv'
  <2>1. nQueued' \subseteq TonSends
    BY <1>0, <1>13 DEF TonUnpark
  <2> QED BY <1>0, <1>13, <2>1, WorldKeeps DEF TonUnpark, nhistory
<1> QED BY <1>1, <1>2, <1>3, <1>4, <1>5, <1>6, <1>7, <1>8, <1>9, <1>10, <1>11, <1>12, <1>13 DEF TonNext

\* However the relay's calls and the network fail, and whatever the watcher reads meanwhile,
\* the rows not forgotten, the wallet and what the relay and the watcher hold fit each other.
THEOREM TonInvariant ==
    ASSUME TonAssumption, OneTonDrainer
    PROVE  TonSpec => []TonInv
<1>1. TonInit => TonInv
  BY TonInitFits
<1>2. TonInv /\ [TonNext]_nvars => TonInv'
  BY TonStepKeeps
<1> QED BY <1>1, <1>2, PTL DEF TonSpec

LEMMA OneIsAll == \A S, x : S \subseteq {x} => Cardinality(S) <= 1
<1> SUFFICES ASSUME NEW S, NEW x, S \subseteq {x} PROVE Cardinality(S) <= 1
  OBVIOUS
<1>1. S = {} \/ S = {x}
  OBVIOUS
<1>2. Cardinality({}) = 0 /\ Cardinality({x}) = 1
  BY FS_EmptySet, FS_Singleton
<1>3. Cardinality(S) = 0 \/ Cardinality(S) = 1
  BY <1>1, <1>2
<1> QED BY <1>3

\* However often a withdrawal's message is sent, signed again at its seqno or
\* re-driven, the wallet pays it at most once, unless its row was discarded
\* after the watcher had read it.
THEOREM OneTonTransfer ==
    ASSUME TonAssumption, OneTonDrainer
    PROVE  TonSpec => []TonOnePayout
<1>1. ASSUME TonInv PROVE TonOnePayout
  <2> SUFFICES ASSUME NEW w \in TonSends, Kept(w) PROVE Cardinality(Paid(w)) <= 1
    BY DEF TonOnePayout
  <2>1. Len(nOut) \in Nat /\ RowFits(w)
    BY <1>1, OutHas DEF TonInv, RowsFit
  <2>2. \A i \in 1..Len(nOut) : nOut[i].w = w => nRow[w].seq = i - 1
    BY <2>1 DEF RowFits
  <2>3. PICK s : s = nRow[w].seq
    OBVIOUS
  <2>4. ASSUME NEW i \in Paid(w) PROVE i = s + 1
    <3>1. i \in 1..Len(nOut) /\ nRow[w].seq = i - 1
      BY <2>2 DEF Paid
    <3> QED BY <2>1, <2>3, <3>1
  <2> QED BY <2>4, OneIsAll
<1> QED BY <1>1, TonInvariant, PTL

\* While no row is forgotten, every seqno from the wallet's own to the last stored one is
\* held by one stored message: what waits behind it can always be reached.
THEOREM TonNoGap ==
    ASSUME TonAssumption, OneTonDrainer
    PROVE  TonSpec => []TonQueueHasNoGap
<1>1. ASSUME TonInv PROVE TonQueueHasNoGap
  <2> SUFFICES ASSUME \A w \in TonSends : Kept(w) PROVE TonQueueHasNoGap
    BY DEF TonQueueHasNoGap
  <2>0. TonTypes /\ SeqnosApart /\ SeqnosHeld /\ ChainSeqno \in Nat
    <3>1. nForgotten = {}
      BY <1>1 DEF TonInv, TonTypes, Kept
    <3> QED BY <1>1, <3>1, OutHas DEF TonInv, QueueFits, ChainSeqno
  <2>1. \A w \in TonSends : nRow[w].seq >= ChainSeqno => Stored(w) /\ nRow[w].seq \in Nat
    <3> SUFFICES ASSUME NEW w \in TonSends, nRow[w].seq >= ChainSeqno PROVE Stored(w) /\ nRow[w].seq \in Nat
      OBVIOUS
    <3>1. nRow[w].seq \in TonSeqnos \/ nRow[w].seq = -1
      BY <2>0, StoredIs
    <3>2. nRow[w].seq # -1
      BY <2>0
    <3> QED BY <2>0, <3>1, <3>2, StoredIs DEF TonSeqnos
  <2>2. ASSUME NEW v \in TonSends, NEW w \in TonSends, v # w, nRow[v].seq >= ChainSeqno, nRow[w].seq >= ChainSeqno
        PROVE  nRow[v].seq # nRow[w].seq
    BY <2>0, <2>1, <2>2 DEF SeqnosApart
  <2>3. ASSUME NEW w \in TonSends, nRow[w].seq >= ChainSeqno, NEW s \in ChainSeqno..nRow[w].seq
        PROVE  \E v \in TonSends : nRow[v].seq >= ChainSeqno /\ nRow[v].seq = s
    <3>1. Held(s) /\ s >= ChainSeqno
      BY <2>0, <2>1, <2>3 DEF SeqnosHeld
    <3> QED BY <3>1 DEF Held
  <2> QED BY <2>2, <2>3 DEF TonQueueHasNoGap
<1> QED BY <1>1, TonInvariant, PTL

\* Where a refused message's row was deleted and no scan had read it, nothing of it is on
\* its way.
THEOREM TonDiscardsUnsent ==
    ASSUME TonAssumption, OneTonDrainer
    PROVE  TonSpec => []UnstoredIsUnsent
<1>1. ASSUME TonInv PROVE UnstoredIsUnsent
  BY <1>1 DEF TonInv, RowsFit, RowFits, Stored, UnstoredIsUnsent
<1> QED BY <1>1, TonInvariant, PTL

----------------------------------------------------------------------------
(***************************************************************************)
(* TON: what a settled withdrawal was settled with.                        *)
(***************************************************************************)
Own(w) == nRow[w].seq + 1
Left(w) == Stored(w) /\ Own(w) \in 1..Len(nOut) /\ nOut[Own(w)].left
RefsFit ==
    /\ \A w \in TonSends : nState[w] = "processing" => nRef[w] = 0
    /\ \A w \in TonSends : nState[w] = "settled" =>
          /\ nRef[w] \in 1..Len(nOut) /\ nOut[nRef[w]].left /\ TonNet[nOut[nRef[w]].w] = TonNet[w]
          /\ AsRead(w) => Left(w) /\ nOut[Own(w)].w = w
    /\ \A v, w \in TonSends : v # w /\ nState[v] = "settled" /\ nState[w] = "settled" => nRef[v] # nRef[w]
ScanIsBehind ==
    nAt[TonWatcher] \in {"seqno", "feed"} =>
        /\ nScan.began <= Len(nOut)
        /\ nAt[TonWatcher] = "feed" => nScan.began <= nScan.seqno /\ nScan.seqno <= Len(nOut)
        /\ \A p \in nScan.pend : nState[p.w] = "processing"
        /\ \A i \in 1..nScan.began : Kept(nOut[i].w) /\ nState[nOut[i].w] = "processing" => \E p \in nScan.pend : p.w = nOut[i].w
        /\ \A w \in TonSends : nState[w] = "settled" => nRef[w] <= nScan.began /\ (AsRead(w) => Own(w) <= nScan.began)
SettledInv == TonInv /\ RefsFit /\ ScanIsBehind

\* What was outrun stays so.
OutrunStays == nForgotten \subseteq nForgotten' /\ nAhead \subseteq nAhead'
LEMMA AsReadBefore ==
    ASSUME OutrunStays
    PROVE  \A w : (AsRead(w)' => AsRead(w)) /\ (Kept(w)' => Kept(w))
BY DEF OutrunStays, AsRead, Kept

\* A step that settles nothing: the wallet only takes more, and a scan goes on as it was.
LEMMA SettledStay ==
    ASSUME TonInv, TonInv', RefsFit, ScanIsBehind, nState' = nState, nRef' = nRef, OutrunStays,
           Len(nOut) <= Len(nOut'), \A i \in 1..Len(nOut) : nOut'[i] = nOut[i],
           nAt'[TonWatcher] \in {"seqno", "feed"} => nAt'[TonWatcher] = nAt[TonWatcher] /\ nScan' = nScan
    PROVE  RefsFit' /\ ScanIsBehind'
<1>0. Len(nOut) \in Nat /\ Len(nOut') \in Nat
  <2>1. TonTypes /\ TonTypes'
    BY DEF TonInv
  <2>2. Len(nOut) \in Nat
    BY <2>1, OutHas
  <2>3. nOut' \in Seq([w : TonSends, left : BOOLEAN])
    BY <2>1 DEF TonTypes
  <2> QED BY <2>2, <2>3, SeqHas
<1>1. ASSUME NEW w \in TonSends, nState[w] = "settled", AsRead(w)'
      PROVE  /\ AsRead(w) /\ Left(w)' /\ nOut'[Own(w)'].w = w /\ Own(w)' = Own(w)
  <2>1. AsRead(w) /\ Kept(w)'
    BY <1>1, AsReadBefore DEF AsRead
  <2>2. Own(w) \in 1..Len(nOut) /\ nOut[Own(w)].left /\ nOut[Own(w)].w = w
    BY <1>1, <2>1 DEF RefsFit, Left
  <2>3. PICK i : i = Own(w)
    OBVIOUS
  <2>4. i \in 1..Len(nOut) /\ i \in 1..Len(nOut') /\ nOut'[i] = nOut[i] /\ nOut'[i].w = w /\ nOut'[i].left
    BY <1>0, <2>2, <2>3
  <2>5. Stored(w)' /\ nRow'[w].seq = i - 1
    BY <2>1, <2>4 DEF TonInv, RowsFit, RowFits
  <2>6. i - 1 + 1 = i
    BY <1>0, <2>4
  <2>7. Own(w)' = i
    BY <2>5, <2>6 DEF Own
  <2> QED BY <2>1, <2>3, <2>4, <2>5, <2>7 DEF Left
<1>2. RefsFit'
  <2>1. ASSUME NEW w \in TonSends, nState[w] = "settled"
        PROVE  nRef[w] \in 1..Len(nOut') /\ nOut'[nRef[w]].left /\ TonNet[nOut'[nRef[w]].w] = TonNet[w]
    <3>1. nRef[w] \in 1..Len(nOut) /\ nOut[nRef[w]].left /\ TonNet[nOut[nRef[w]].w] = TonNet[w]
      BY <2>1 DEF RefsFit
    <3>2. nRef[w] \in 1..Len(nOut') /\ nOut'[nRef[w]] = nOut[nRef[w]]
      BY <1>0, <3>1
    <3> QED BY <3>1, <3>2
  <2>2. \A w \in TonSends : nState[w] = "processing" => nRef[w] = 0
    BY DEF RefsFit
  <2>3. \A v, w \in TonSends : v # w /\ nState[v] = "settled" /\ nState[w] = "settled" => nRef[v] # nRef[w]
    BY DEF RefsFit
  <2> QED BY <1>1, <2>1, <2>2, <2>3 DEF RefsFit
<1>3. ScanIsBehind'
  <2> SUFFICES ASSUME nAt'[TonWatcher] \in {"seqno", "feed"} PROVE ScanIsBehind'
    BY DEF ScanIsBehind
  <2>1. nAt'[TonWatcher] = nAt[TonWatcher] /\ nScan' = nScan
    OBVIOUS
  <2>2. nScan.began \in Nat /\ nScan.seqno \in Nat
    BY ScanHas DEF Scans, TonInv
  <2>3. /\ nScan.began <= Len(nOut)
        /\ nAt[TonWatcher] = "feed" => nScan.began <= nScan.seqno /\ nScan.seqno <= Len(nOut)
        /\ \A p \in nScan.pend : nState[p.w] = "processing"
        /\ \A i \in 1..nScan.began : Kept(nOut[i].w) /\ nState[nOut[i].w] = "processing" => \E p \in nScan.pend : p.w = nOut[i].w
        /\ \A w \in TonSends : nState[w] = "settled" => nRef[w] <= nScan.began /\ (AsRead(w) => Own(w) <= nScan.began)
    BY <2>1 DEF ScanIsBehind
  <2>4. \A i \in 1..nScan.began : nOut'[i] = nOut[i]
    BY <1>0, <2>2, <2>3
  <2>5. nScan.began <= Len(nOut') /\ (nAt[TonWatcher] = "feed" => nScan.seqno <= Len(nOut'))
    BY <1>0, <2>2, <2>3
  <2>6. \A w \in TonSends : nState[w] = "settled" /\ AsRead(w)' => Own(w)' <= nScan.began
    BY <1>1, <2>3
  <2>7. \A i \in 1..nScan.began : Kept(nOut[i].w)' /\ nState[nOut'[i].w] = "processing" => \E p \in nScan.pend : p.w = nOut'[i].w
    BY <2>3, <2>4 DEF OutrunStays, Kept
  <2> QED BY <2>1, <2>3, <2>5, <2>6, <2>7 DEF ScanIsBehind
<1> QED BY <1>2, <1>3

\* A step that leaves rows, transfers and settles alone.
LEMMA RefsStay ==
    ASSUME RefsFit, UNCHANGED <<nState, nRef, nRow, nOut>>, OutrunStays
    PROVE  RefsFit' /\ \A w : Own(w)' = Own(w)
<1>1. \A w : (Left(w)' <=> Left(w)) /\ Own(w)' = Own(w)
  BY DEF Left, Own, Stored
<1> QED BY <1>1, AsReadBefore DEF RefsFit

\* What a scan reads: everything processed so far that is not settled.
LEMMA ScanStarts ==
    ASSUME TonInv, TonInv', RefsFit, TonScan
    PROVE  RefsFit' /\ ScanIsBehind'
<1> DEFINE pend == {[w |-> w, row |-> nRow[w]] : w \in PendingBroadcasts}
<1>0. /\ UNCHANGED <<nState, nRef, nQueued, nRow, nPool, nOut, nNow, nOn, nForgotten, nAhead>>
      /\ nScan' = [NoScan EXCEPT !.pend = pend, !.began = ChainSeqno]
      /\ nAt' = [nAt EXCEPT ![TonWatcher] = "seqno"]
  BY DEF TonScan, TonScanGoto
<1>1. RefsFit' /\ \A w : Own(w)' = Own(w)
  BY <1>0, RefsStay DEF OutrunStays
<1>2. nAt'[TonWatcher] = "seqno" /\ nScan'.pend = pend /\ nScan'.began = Len(nOut)
  <2>1. TonWatcher \in TonDrivers /\ nAt \in [TonDrivers -> RelayAts \cup ScanAts]
    BY DEF TonInv, TonTypes, TonDrivers
  <2> QED BY <1>0, <2>1 DEF ChainSeqno, NoScan
<1>3. Len(nOut) \in Nat /\ \A i \in 1..Len(nOut) : nOut[i].w \in TonSends
  BY OutHas DEF TonInv
<1>4. \A p \in pend : nState[p.w] = "processing"
  BY DEF PendingBroadcasts
<1>5. ASSUME NEW i \in 1..Len(nOut), Kept(nOut[i].w), nState[nOut[i].w] = "processing"
      PROVE  \E p \in pend : p.w = nOut[i].w
  <2>1. PICK w : w = nOut[i].w
    OBVIOUS
  <2>2. w \in TonSends /\ Stored(w)
    BY <1>3, <1>5, <2>1 DEF TonInv, RowsFit, RowFits
  <2>3. w \in PendingBroadcasts
    BY <1>5, <2>1, <2>2 DEF PendingBroadcasts, Stored
  <2>4. [w |-> w, row |-> nRow[w]] \in pend
    BY <2>3
  <2>5. [w |-> w, row |-> nRow[w]].w = w
    OBVIOUS
  <2> HIDE DEF pend
  <2> QED BY <2>1, <2>4, <2>5
<1>6. ASSUME NEW w \in TonSends, nState[w] = "settled"
      PROVE  nRef[w] <= Len(nOut) /\ (AsRead(w) => Own(w) <= Len(nOut))
  BY <1>3, <1>6 DEF RefsFit, Left
<1>7. Len(nOut) <= Len(nOut)
  BY <1>3
<1>8. \A w : (AsRead(w)' <=> AsRead(w)) /\ (Kept(w)' <=> Kept(w))
  BY <1>0 DEF AsRead, Kept
<1> HIDE DEF pend
<1> QED BY <1>0, <1>1, <1>2, <1>4, <1>5, <1>6, <1>7, <1>8 DEF ScanIsBehind

LEMMA ScanGoesOn ==
    ASSUME TonInv, RefsFit, ScanIsBehind, TonReadSeqno
    PROVE  RefsFit' /\ ScanIsBehind'
<1>0. /\ UNCHANGED <<nState, nRef, nQueued, nRow, nPool, nOut, nNow, nOn, nForgotten, nAhead>>
      /\ nScan' = [nScan EXCEPT !.seqno = ChainSeqno] /\ nAt[TonWatcher] = "seqno"
  BY DEF TonReadSeqno, TonScanGoto, nhistory
<1>1. RefsFit' /\ \A w : Own(w)' = Own(w)
  BY <1>0, RefsStay DEF OutrunStays
<1>2. nScan'.pend = nScan.pend /\ nScan'.began = nScan.began /\ nScan'.seqno = Len(nOut)
  BY <1>0, ScanHas DEF TonInv, Scans, ChainSeqno
<1>3. Len(nOut) \in Nat /\ Len(nOut) <= Len(nOut)
  BY OutHas DEF TonInv
<1>4. \A w : (AsRead(w)' <=> AsRead(w)) /\ (Kept(w)' <=> Kept(w))
  BY <1>0 DEF AsRead, Kept
<1> QED BY <1>0, <1>1, <1>2, <1>3, <1>4 DEF ScanIsBehind

----------------------------------------------------------------------------
(***************************************************************************)
(* TON: the count of transfers tells whose they are.                       *)
(***************************************************************************)
\* As many images as elements, when no two share one.
LEMMA ImageSize ==
    ASSUME NEW S, IsFiniteSet(S), NEW f, \A x, y \in S : x # y => f[x] # f[y]
    PROVE  IsFiniteSet({f[x] : x \in S}) /\ Cardinality({f[x] : x \in S}) = Cardinality(S)
<1> DEFINE T == {f[x] : x \in S}
           g == [x \in S |-> f[x]]
<1>1. g \in [S -> T] /\ (\A x \in S : g[x] = f[x]) /\ \A y \in T : \E x \in S : y = f[x]
  OBVIOUS
<1>2. g \in Bijection(S, T)
  <2> HIDE DEF g, T
  <2>1. g \in Injection(S, T)
    BY <1>1 DEF Injection, IsInjective
  <2>2. g \in Surjection(S, T)
    BY <1>1 DEF Surjection
  <2> QED BY <2>1, <2>2 DEF Bijection
<1>3. ExistsBijection(S, T)
  BY <1>2 DEF ExistsBijection
<1> HIDE DEF T, g
<1> QED BY <1>3, FS_Bijection DEF T

\* Two sets of images of the same elements, both within L, leave as much of it.
LEMMA SameLeft ==
    ASSUME NEW L, IsFiniteSet(L), NEW S, IsFiniteSet(S), NEW f, NEW g,
           \A x, y \in S : x # y => f[x] # f[y] /\ g[x] # g[y],
           \A x \in S : f[x] \in L /\ g[x] \in L
    PROVE  Cardinality(L \ {f[x] : x \in S}) = Cardinality(L \ {g[x] : x \in S})
<1> DEFINE F == {f[x] : x \in S}
           G == {g[x] : x \in S}
<1>1. Cardinality(F) = Cardinality(S) /\ Cardinality(G) = Cardinality(S)
  BY ImageSize
<1>2. L \cap F = F /\ L \cap G = G
  OBVIOUS
<1> HIDE DEF F, G
<1>3. Cardinality(L \ F) = Cardinality(L) - Cardinality(L \cap F) /\ Cardinality(L \ G) = Cardinality(L) - Cardinality(L \cap G)
  BY FS_Difference
<1>4. Cardinality(L \ F) = Cardinality(L \ G)
  BY <1>1, <1>2, <1>3
<1> QED BY <1>4 DEF F, G

\* An injection into a set no larger covers it.
LEMMA InjectionCovers ==
    ASSUME NEW S, NEW T, IsFiniteSet(T), NEW f \in [S -> T], \A x, y \in S : x # y => f[x] # f[y],
           Cardinality(T) <= Cardinality(S)
    PROVE  \A y \in T : \E x \in S : f[x] = y
<1>1. f \in Injection(S, T)
  BY DEF Injection, IsInjective
<1>2. IsFiniteSet(S) /\ Cardinality(S) <= Cardinality(T) /\ (Cardinality(S) = Cardinality(T) <=> f \in Surjection(S, T))
  BY <1>1, FS_Injection
<1>3. Cardinality(S) \in Nat /\ Cardinality(T) \in Nat
  BY <1>2, FS_CardinalityType
<1>4. Cardinality(S) = Cardinality(T)
  BY <1>2, <1>3
<1>5. f \in Surjection(S, T)
  BY <1>2, <1>4
<1> QED BY <1>5 DEF Surjection


\* The transfers the feed proves were each made by a send that settles with them, as long
\* as the watcher's reads were not outrun.
LEMMA ReadyLeft ==
    ASSUME TonAssumption, TonInv, RefsFit, ScanIsBehind, OutrunStays, nAt[TonWatcher] = "feed",
           NEW upto \in 0..ChainSeqno, NEW tx \in [Ready(upto) -> 1..upto], Settles(Ready(upto), tx, upto),
           NEW w \in Ready(upto), AsRead(w)'
    PROVE  Left(w) /\ nOut[Own(w)].w = w
<1>0. /\ TonTypes /\ Len(nOut) \in Nat /\ \A i \in 1..Len(nOut) : nOut[i].w \in TonSends /\ nOut[i].left \in BOOLEAN
      /\ \A x \in TonSends : Kept(x) => RowFits(x)
  BY OutHas, InvHas
<1>1. PICK b : b = nScan.began
  OBVIOUS
<1>2. b \in Nat /\ b <= nScan.seqno /\ b <= Len(nOut) /\ nScan.seqno \in Nat
  <2>1. nScan.began \in Nat /\ nScan.seqno \in Nat
    BY <1>0, ScanHas DEF Scans
  <2> QED BY <1>1, <2>1 DEF ScanIsBehind
<1> DEFINE a == TonNet[w]
           L == {i \in 1..b : nOut[i].left /\ TonNet[nOut[i].w] = a}
           S == {v \in TonSends : nState[v] = "settled" /\ TonNet[v] = a}
           A == Siblings(Advanced, w)
           own == [v \in TonSends |-> Own(v)]
           M == L \ {own[v] : v \in S}
           T == {tx[v] : v \in A}
<1>3. w \in Advanced /\ Cardinality(Unused(upto, a)) >= Cardinality(A)
  BY DEF Ready, PlanSettlements
<1>4. Advanced \subseteq TonSends /\ IsFiniteSet(TonSends) /\ TonNet \in [TonSends -> Nat \ {0}]
  BY AdvancedAre DEF TonAssumption
<1>5. IsFiniteSet(S) /\ IsFiniteSet(A) /\ S \subseteq TonSends /\ A \subseteq TonSends
  <2>1. A \subseteq TonSends /\ S \subseteq TonSends
    BY <1>4 DEF Siblings
  <2> HIDE DEF A, S
  <2> QED BY <1>4, <2>1, FS_Subset
<1>6. IsFiniteSet(L)
  <2>1. IsFiniteSet(1..b) /\ L \subseteq 1..b
    BY <1>2, FS_Interval
  <2> HIDE DEF L
  <2> QED BY <2>1, FS_Subset
<1>7. \A v \in TonSends : TonNet[v] = a => AsRead(v) /\ Kept(v) /\ v \notin nAhead'
  <2>1. AsRead(w)
    BY AsReadBefore
  <2> QED BY <2>1 DEF AsRead
<1>8. ASSUME NEW v \in S
      PROVE  own[v] = Own(v) /\ own[v] \in L /\ nOut[Own(v)].w = v /\ nRef[v] \in L
  <2>1. AsRead(v) /\ nState[v] = "settled" /\ TonNet[v] = a
    BY <1>7
  <2>2. /\ Own(v) \in 1..Len(nOut) /\ nOut[Own(v)].left /\ nOut[Own(v)].w = v
        /\ nRef[v] \in 1..Len(nOut) /\ nOut[nRef[v]].left /\ TonNet[nOut[nRef[v]].w] = TonNet[v]
    BY <2>1 DEF RefsFit, Left
  <2>3. Own(v) <= b /\ nRef[v] <= b
    BY <1>1, <2>1 DEF ScanIsBehind
  <2>4. Own(v) \in 1..b /\ nRef[v] \in 1..b
    BY <1>0, <1>2, <2>2, <2>3
  <2> QED BY <2>1, <2>2, <2>4
<1>9. \A u, v \in S : u # v => nRef[u] # nRef[v] /\ own[u] # own[v]
  <2> SUFFICES ASSUME NEW u \in S, NEW v \in S, u # v PROVE nRef[u] # nRef[v] /\ own[u] # own[v]
    OBVIOUS
  <2>1. nRef[u] # nRef[v]
    BY DEF RefsFit
  <2>2. own[u] = Own(u) /\ own[v] = Own(v) /\ nOut[Own(u)].w = u /\ nOut[Own(v)].w = v
    BY <1>8
  <2> QED BY <2>1, <2>2
\* Its siblings settle with it, each with a transfer that left before the scan began.
<1>10. ASSUME NEW v \in A
       PROVE  v \in Ready(upto) /\ tx[v] \in L \ {nRef[x] : x \in S}
  <2>1. v \in Advanced /\ v \in TonSends /\ TonNet[v] = a
    BY <1>4 DEF Siblings
  <2>2. nState[v] = "processing"
    BY <2>1 DEF ScanIsBehind, Advanced
  <2>3. Siblings(Advanced, v) = A
    BY <2>1 DEF Siblings
  <2>4. v \in Ready(upto)
    <3> HIDE DEF A
    <3> QED BY <1>3, <2>1, <2>2, <2>3 DEF Ready, PlanSettlements
  <2>5. tx[v] \in Unused(upto, a) /\ tx[v] \in 1..upto
    BY <2>1, <2>4 DEF Settles
  <2>6. ~ (tx[v] > nScan.began)
    BY <1>7, <2>1, <2>4 DEF Settles
  <2>7. tx[v] \in 1..b
    <3>1. ~ (tx[v] > b)
      BY <1>1, <2>6
    <3> QED BY <1>0, <1>2, <2>5, <3>1 DEF ChainSeqno
  <2>8. nOut[tx[v]].left /\ TonNet[nOut[tx[v]].w] = a /\ \A x \in TonSends : nRef[x] # tx[v]
    BY <2>5 DEF Unused, Outgoing
  <2> QED BY <1>5, <2>4, <2>7, <2>8
<1>11. Cardinality(M) >= Cardinality(A)
  <2>1. Cardinality(M) = Cardinality(L \ {nRef[v] : v \in S})
    <3> HIDE DEF L, S, own
    <3> QED BY <1>5, <1>6, <1>8, <1>9, SameLeft
  <2>2. PICK N : N = L \ {nRef[v] : v \in S}
    OBVIOUS
  <2>3. IsFiniteSet(N)
    <3> HIDE DEF L, S
    <3> QED BY <1>6, <2>2, FS_Difference
  <2>4. T \subseteq N
    BY <1>10, <2>2
  <2>5. \A u, v \in A : u # v => tx[u] # tx[v]
    <3>1. \A v \in A : v \in Ready(upto)
      BY <1>10
    <3> HIDE DEF A
    <3> QED BY <3>1 DEF Settles
  <2>6. Cardinality(T) = Cardinality(A)
    <3> HIDE DEF A
    <3> QED BY <1>5, <2>5, ImageSize
  <2>7. Cardinality(T) <= Cardinality(N) /\ Cardinality(M) = Cardinality(N)
    <3>1. Cardinality(M) = Cardinality(N)
      BY <2>1, <2>2
    <3> HIDE DEF T, M
    <3> QED BY <2>3, <2>4, <3>1, FS_Subset
  <2>8. Cardinality(A) \in Nat /\ Cardinality(N) \in Nat
    <3> HIDE DEF A
    <3> QED BY <1>5, <2>3, FS_CardinalityType
  <2> HIDE DEF A, M, T
  <2> QED BY <2>6, <2>7, <2>8
<1>12. ASSUME NEW i \in M
       PROVE  /\ i \in 1..b /\ nOut[i].left /\ nOut[i].w \in A
              /\ Own(nOut[i].w) = i /\ Stored(nOut[i].w)
  <2>1. i \in 1..b /\ i \in 1..Len(nOut) /\ i \in Nat /\ nOut[i].left /\ TonNet[nOut[i].w] = a
    <3>1. i \in 1..b /\ nOut[i].left /\ TonNet[nOut[i].w] = a
      OBVIOUS
    <3> HIDE DEF M, L, a
    <3> QED BY <1>0, <1>2, <3>1
  <2>2. PICK x : x = nOut[i].w
    OBVIOUS
  <2>3. x \in TonSends /\ Kept(x) /\ Stored(x) /\ nRow[x].seq = i - 1
    <3>1. x \in TonSends /\ Kept(x)
      BY <1>0, <1>7, <2>1, <2>2
    <3> QED BY <1>0, <2>1, <2>2, <3>1 DEF RowFits
  <2>4. Own(x) = i
    BY <2>1, <2>3 DEF Own
  <2>5. nState[x] = "processing"
    <3>1. x \notin S
      <4> SUFFICES ASSUME x \in S PROVE FALSE
        OBVIOUS
      <4>1. own[x] = i
        BY <1>8, <2>4
      <4> QED BY <4>1
    <3>2. nState[x] # "settled"
      BY <2>1, <2>2, <2>3, <3>1
    <3> QED BY <1>0, <2>3, <3>2 DEF TonTypes
  <2>6. PICK p \in nScan.pend : p.w = x
    BY <1>1, <2>1, <2>2, <2>3, <2>5 DEF ScanIsBehind
  <2>7. nScan.seqno > p.row.seq
    <3>1. p \in InHand
      BY DEF InHand
    <3>2. p.row.seq = i - 1 /\ i <= b
      BY <1>0, <2>1, <2>3, <2>6, <3>1 DEF RowFits
    <3> QED BY ONLY <1>2, <2>1, <3>2
  <2>8. x \in Advanced
    BY <2>6, <2>7 DEF Advanced
  <2>9. x \in A
    BY <2>1, <2>2, <2>8 DEF Siblings
  <2> QED BY <2>1, <2>2, <2>3, <2>4, <2>9
<1>13. PICK i \in M : nOut[i].w = w
  <2> DEFINE f == [i \in M |-> nOut[i].w]
  <2>1. f \in [M -> A] /\ \A i \in M : f[i] = nOut[i].w
    BY <1>12
  <2>2. \A i, j \in M : i # j => f[i] # f[j]
    BY <1>12, <2>1
  <2>3. w \in A
    BY <1>3 DEF Siblings
  <2>4. Cardinality(A) <= Cardinality(M)
    <3>1. IsFiniteSet(M)
      <4> HIDE DEF L, S, own
      <4> QED BY <1>6, FS_Difference
    <3>2. Cardinality(A) \in Nat /\ Cardinality(M) \in Nat
      <4> HIDE DEF A, M
      <4> QED BY <1>5, <3>1, FS_CardinalityType
    <3> HIDE DEF A, M
    <3> QED BY <1>11, <3>2
  <2> HIDE DEF f, M, A
  <2>5. \A y \in A : \E i \in M : f[i] = y
    BY <1>5, <2>1, <2>2, <2>4, InjectionCovers
  <2> QED BY <2>1, <2>3, <2>5
<1>14. i \in 1..b /\ nOut[i].left /\ Own(w) = i /\ Stored(w)
  BY <1>12, <1>13
<1>15. i \in 1..Len(nOut)
  <2> HIDE DEF M
  <2> QED BY <1>0, <1>2, <1>14
<1> HIDE DEF M, L, S, A, own, a, T
<1> QED BY <1>13, <1>14, <1>15 DEF Left

LEMMA SettleFits ==
    ASSUME TonAssumption, TonInv, RefsFit, ScanIsBehind, TonSettle
    PROVE  RefsFit' /\ ScanIsBehind'
<1>0. /\ TonTypes /\ Len(nOut) \in Nat /\ nAt[TonWatcher] = "feed"
      /\ UNCHANGED <<nQueued, nRow, nPool, nOut, nNow, nOn, nForgotten>> /\ nAt' = [nAt EXCEPT ![TonWatcher] = "next"]
  BY OutHas DEF TonInv, TonSettle, TonScanGoto
<1>1. ScanIsBehind'
  <2>1. nAt'[TonWatcher] = "next"
    BY <1>0 DEF TonTypes, TonDrivers
  <2> QED BY <2>1 DEF ScanIsBehind
<1>2. PICK upto \in 0..ChainSeqno : \E tx \in [Ready(upto) -> 1..upto] : Settles(Ready(upto), tx, upto)
  BY SettleIs
<1>3. PICK tx \in [Ready(upto) -> 1..upto] : Settles(Ready(upto), tx, upto)
  BY <1>2
<1>4. OutrunStays
  BY <1>0, <1>3 DEF OutrunStays, Settles
<1>5. \A w \in Ready(upto) :
          /\ w \in TonSends /\ nState[w] = "processing"
          /\ AsRead(w)' => Left(w) /\ nOut[Own(w)].w = w
          /\ tx[w] \in 1..upto /\ nOut[tx[w]].left /\ TonNet[nOut[tx[w]].w] = TonNet[w]
          /\ \A v \in TonSends : nRef[v] # tx[w]
  <2>1. \A w \in Ready(upto) : AsRead(w)' => Left(w) /\ nOut[Own(w)].w = w
    BY <1>0, <1>3, <1>4, ReadyLeft
  <2>2. \A w \in Ready(upto) : w \in TonSends /\ nState[w] = "processing"
    BY AdvancedAre DEF Ready
  <2>3. \A w \in Ready(upto) :
          /\ tx[w] \in 1..upto /\ nOut[tx[w]].left /\ TonNet[nOut[tx[w]].w] = TonNet[w]
          /\ \A v \in TonSends : nRef[v] # tx[w]
    BY <1>3 DEF Settles, Unused, Outgoing
  <2> QED BY <2>1, <2>2, <2>3
<1>6. PICK ready : ready = Ready(upto)
  OBVIOUS
<1>7. /\ \A w \in ready : /\ w \in TonSends /\ nState[w] = "processing"
                          /\ AsRead(w)' => Left(w) /\ nOut[Own(w)].w = w
                          /\ tx[w] \in 1..Len(nOut) /\ nOut[tx[w]].left /\ TonNet[nOut[tx[w]].w] = TonNet[w]
                          /\ \A v \in TonSends : nRef[v] # tx[w]
      /\ \A v, w \in ready : v # w => tx[v] # tx[w]
      /\ \A w \in TonSends : nState'[w] = (IF w \in ready THEN "settled" ELSE nState[w])
      /\ \A w \in TonSends : nRef'[w] = (IF w \in ready THEN tx[w] ELSE nRef[w])
  <2>1. ASSUME NEW w \in ready PROVE tx[w] \in 1..Len(nOut)
    <3>1. tx[w] \in 1..upto /\ upto \in 0..Len(nOut)
      BY <1>5, <1>6 DEF ChainSeqno
    <3> QED BY ONLY <1>0, <3>1
  <2> QED BY <1>3, <1>5, <1>6, <2>1 DEF Settles
<1>8. (\A w : Left(w)' <=> Left(w)) /\ (\A w : Own(w)' = Own(w)) /\ nOut' = nOut
  BY <1>0 DEF Left, Own, Stored
<1>9. RefsFit'
  <2>1. \A w \in TonSends : nState'[w] = "processing" => nRef'[w] = 0
    BY <1>7 DEF RefsFit
  <2>2. ASSUME NEW w \in TonSends, nState'[w] = "settled"
        PROVE  /\ nRef'[w] \in 1..Len(nOut) /\ nOut[nRef'[w]].left /\ TonNet[nOut[nRef'[w]].w] = TonNet[w]
               /\ AsRead(w)' => Left(w) /\ nOut[Own(w)].w = w
    <3>1. CASE w \in ready
      BY <1>7, <3>1
    <3>2. CASE w \notin ready
      BY <1>4, <1>7, <2>2, <3>2, AsReadBefore DEF RefsFit
    <3> QED BY <3>1, <3>2
  <2>3. ASSUME NEW v \in TonSends, NEW w \in TonSends, v # w, nState'[v] = "settled", nState'[w] = "settled"
        PROVE  nRef'[v] # nRef'[w]
    <3>1. CASE v \in ready \/ w \in ready
      BY <1>7, <2>3, <3>1
    <3>2. CASE v \notin ready /\ w \notin ready
      BY <1>7, <2>3, <3>2 DEF RefsFit
    <3> QED BY <3>1, <3>2
  <2> QED BY <1>8, <2>1, <2>2, <2>3 DEF RefsFit
<1> QED BY <1>1, <1>9

LEMMA WalletTakesMore ==
    ASSUME TonInv, NEW m \in nPool, TonProcess(m)
    PROVE  Len(nOut) <= Len(nOut') /\ \A i \in 1..Len(nOut) : nOut'[i] = nOut[i]
<1>1. m.w \in TonSends
  BY PoolHas DEF TonInv
<1>2. PICK left \in BOOLEAN : nOut' = Append(nOut, [w |-> m.w, left |-> left])
  BY DEF TonProcess
<1>3. nOut \in Seq([w : TonSends, left : BOOLEAN]) /\ [w |-> m.w, left |-> left] \in [w : TonSends, left : BOOLEAN]
  BY <1>1 DEF TonInv, TonTypes
<1> QED BY <1>2, <1>3

\* Who is not the watcher leaves its scan alone.
LEMMA RelayApart ==
    ASSUME TonTypes, OneTonDrainer, NEW d \in TonRelays, TonDrive(d)
    PROVE  UNCHANGED <<nState, nRef, nOut, nScan>> /\ nAt'[TonWatcher] = nAt[TonWatcher] /\ OutrunStays
<1>1. \A at, on : TonGoto(d, at, on) => nAt'[TonWatcher] = nAt[TonWatcher]
  BY DEF TonGoto, TonTypes, OneTonDrainer, TonDrivers
<1>2. TonEnded(d) \/ TonRetry(d) => nAt'[TonWatcher] = nAt[TonWatcher]
  BY <1>1 DEF TonEnded, TonRetry
<1>3. CASE \E w \in TonSends : TonBroadcast(d, w)
  BY <1>1, <1>3 DEF TonBroadcast, OutrunStays, nhistory
<1>4. CASE TonResend(d)
  BY <1>2, <1>4 DEF TonResend, OutrunStays, nhistory
<1>5. CASE TonFund(d)
  BY <1>1, <1>2, <1>5 DEF TonFund, OutrunStays, nhistory
<1>6. CASE TonPlan(d)
  BY <1>1, <1>6 DEF TonPlan, OutrunStays, nhistory
<1>7. CASE TonSign(d)
  BY <1>1, <1>7 DEF TonSign, OutrunStays, nhistory
<1>8. CASE StoreTonTx(d)
  BY <1>1, <1>8 DEF StoreTonTx, OutrunStays, nhistory
<1>9. CASE TonSend(d)
  BY <1>2, <1>9 DEF TonSend, TonRefused, DiscardTx, OutrunStays
<1> QED BY <1>3, <1>4, <1>5, <1>6, <1>7, <1>8, <1>9 DEF TonDrive

LEMMA WatcherAt ==
    ASSUME TonTypes, NEW at, NEW scan, TonScanGoto(at, scan)
    PROVE  nAt'[TonWatcher] = at
BY DEF TonScanGoto, TonTypes, TonDrivers

LEMMA SettledStepKeeps ==
    ASSUME TonAssumption, OneTonDrainer, SettledInv, [TonNext]_nvars
    PROVE  SettledInv'
<1>0. TonInv /\ TonInv' /\ RefsFit /\ ScanIsBehind /\ TonTypes
  BY TonStepKeeps DEF SettledInv, TonInv
<1> SUFFICES RefsFit' /\ ScanIsBehind'
  BY <1>0 DEF SettledInv
<1>1. Len(nOut) \in Nat /\ Len(nOut) <= Len(nOut)
  BY <1>0, OutHas
<1>2. CASE UNCHANGED <<nState, nRef, nOut, nScan>> /\ nAt'[TonWatcher] = nAt[TonWatcher] /\ OutrunStays
  BY <1>0, <1>1, <1>2, SettledStay
<1>3. CASE UNCHANGED <<nState, nRef, nOut, nhistory>> /\ \E at \in {"idle", "next", "replace", "resubmit"} : \E scan : TonScanGoto(at, scan)
  <2>1. nAt'[TonWatcher] \notin {"seqno", "feed"}
    BY <1>0, <1>3, WatcherAt
  <2>2. OutrunStays
    BY <1>3 DEF OutrunStays, nhistory
  <2> QED BY <1>0, <1>1, <1>3, <2>1, <2>2, SettledStay
<1>4. ASSUME NEW m \in nPool, TonProcess(m) PROVE RefsFit' /\ ScanIsBehind'
  <2>1. nState' = nState /\ nRef' = nRef /\ nAt' = nAt /\ nScan' = nScan /\ OutrunStays
    BY <1>4 DEF TonProcess, OutrunStays, nhistory
  <2> QED BY <1>0, <1>4, <2>1, WalletTakesMore, SettledStay
<1>5. CASE TonScan
  BY <1>0, <1>5, ScanStarts
<1>6. CASE TonReadSeqno
  BY <1>0, <1>6, ScanGoesOn
<1>7. CASE TonSettle
  BY <1>0, <1>7, SettleFits
<1>8. CASE UNCHANGED nvars \/ TonTick \/ (\E m \in nPool : TonDropped(m)) \/ \E w \in TonSends : TonUnpark(w)
  BY <1>2, <1>8 DEF nvars, TonTick, TonDropped, TonUnpark, OutrunStays, nhistory
<1>9. ASSUME NEW d \in TonRelays, TonDrive(d) PROVE RefsFit' /\ ScanIsBehind'
  BY <1>0, <1>2, <1>9, RelayApart
<1>10. ASSUME NEW d \in TonDrivers, TonStopped(d) PROVE RefsFit' /\ ScanIsBehind'
  <2>1. CASE d = TonWatcher
    <3>1. UNCHANGED <<nState, nRef, nOut, nhistory>> /\ TonScanGoto("idle", NoScan)
      BY <1>10, <2>1 DEF TonStopped, TonScanGoto
    <3> QED BY <1>3, <3>1
  <2>2. CASE d # TonWatcher
    <3>1. UNCHANGED <<nState, nRef, nOut, nScan>> /\ d \in TonRelays /\ OutrunStays
      BY <1>10, <2>2 DEF TonStopped, TonDrivers, OutrunStays, nhistory
    <3>2. nAt'[TonWatcher] = nAt[TonWatcher]
      BY <1>0, <1>10, <2>2 DEF TonStopped, TonRetry, TonGoto, TonTypes, TonDrivers
    <3> QED BY <1>2, <3>1, <3>2
  <2> QED BY <2>1, <2>2
<1>11. CASE TonScanned
  <2>1. UNCHANGED <<nState, nRef, nOut, nhistory>> /\ TonScanGoto("idle", NoScan)
    BY <1>11 DEF TonScanned
  <2> QED BY <1>3, <2>1
<1>12. ASSUME NEW p, TonAdvance(p) \/ ReplaceTon(p) \/ ResubmitTon(p) PROVE RefsFit' /\ ScanIsBehind'
  <2>1. UNCHANGED <<nState, nRef, nOut, nhistory>>
    BY <1>12 DEF TonAdvance, ReplaceTon, ResubmitTon
  <2>2. \E scan : TonScanGoto("next", scan) \/ TonScanGoto("replace", scan) \/ TonScanGoto("resubmit", scan)
    BY <1>12 DEF TonAdvance, ReplaceTon, ResubmitTon
  <2> QED BY <1>3, <2>1, <2>2
<1> QED
  BY <1>4, <1>5, <1>6, <1>7, <1>8, <1>9, <1>10, <1>11, <1>12 DEF TonNext

LEMMA SettledInit == ASSUME TonAssumption, OneTonDrainer, TonInit PROVE SettledInv
<1>1. nAt[TonWatcher] = "idle" /\ \A w \in TonSends : nState[w] = "processing" /\ nRef[w] = 0
  BY DEF TonInit, TonDrivers
<1>2. RefsFit /\ ScanIsBehind
  BY <1>1 DEF RefsFit, ScanIsBehind
<1> QED BY <1>2, TonInitFits DEF SettledInv

\* Every settled withdrawal has a transfer of its amount to itself, whatever bounced; and
\* its own transfer left, although the watcher tells transfers apart by amount
\* only, unless something of that amount was settled with a transfer newer than the
\* rows the watcher read or its row was discarded after the watcher had read it.
THEOREM TonSettlesItsOwn ==
    ASSUME TonAssumption, OneTonDrainer
    PROVE  TonSpec => [](TonSettledIsOwn /\ TonTypeOK)
<1>1. TonInit => SettledInv
  BY SettledInit
<1>2. SettledInv /\ [TonNext]_nvars => SettledInv'
  BY SettledStepKeeps
<1>3. ASSUME SettledInv PROVE TonSettledIsOwn
  <2>1. ASSUME NEW w \in TonSends, AsRead(w), nState[w] = "settled" PROVE Paid(w) # {}
    <3>1. Own(w) \in 1..Len(nOut) /\ nOut[Own(w)].left /\ nOut[Own(w)].w = w
      BY <1>3, <2>1 DEF SettledInv, RefsFit, Left
    <3> QED BY <3>1 DEF Paid
  <2> QED BY <1>3, <2>1 DEF TonSettledIsOwn, SettledIsOwn, SettledInv, RefsFit
<1>4. ASSUME SettledInv PROVE TonTypeOK
  <2>0. TonTypes /\ RefsFit
    BY <1>4 DEF SettledInv, TonInv
  <2>1. Len(nOut) \in Nat /\ \A i \in 1..Len(nOut) : nOut[i] \in [w : TonSends, left : BOOLEAN]
    <3>1. nOut \in Seq([w : TonSends, left : BOOLEAN])
      BY <2>0 DEF TonTypes
    <3> QED BY <3>1, SeqHas
  <2>2. \A w \in TonSends : nRef[w] \in 0..Len(nOut)
    <3> SUFFICES ASSUME NEW w \in TonSends PROVE nRef[w] \in 0..Len(nOut)
      OBVIOUS
    <3>1. nRef[w] = 0 \/ nRef[w] \in 1..Len(nOut)
      BY <2>0 DEF TonTypes, RefsFit
    <3> QED BY <2>1, <3>1
  <2>3. nAt \in [TonDrivers -> {"idle", "resend", "fund", "plan", "sign", "store", "send", "seqno", "feed", "next", "replace", "resubmit"}]
    BY <2>0 DEF TonTypes, RelayAts, ScanAts
  <2>4. \A m \in nPool : m.w \in TonSends /\ m.seq \in TonSeqnos
    BY <2>0, PoolHas
  <2>5. nState \in [TonSends -> {"processing", "settled"}] /\ nQueued \subseteq TonSends
        /\ nForgotten \subseteq nSeen /\ nSeen \subseteq TonSends /\ nAhead \subseteq TonSends
    BY <2>0 DEF TonTypes
  <2>6. nRow \in [TonSends -> {NoMessage} \cup [seq : TonSeqnos, exp : 0..(TonMaxTime + TonWindow)]]
        /\ nOn \in [TonRelays -> [w : TonSends \cup {"none"}, chain : 0..(TonMaxSeqno + 1),
                                  msg : {NoMessage} \cup [seq : TonSeqnos, exp : 0..(TonMaxTime + TonWindow)]]]
    BY <2>0 DEF TonTypes, TonReads, TonRows, TonTimes
  <2> QED BY <2>1, <2>2, <2>3, <2>4, <2>5, <2>6 DEF TonTypeOK
<1>5. TonSpec => []SettledInv
  BY <1>1, <1>2, PTL DEF TonSpec
<1>6. SettledInv => TonSettledIsOwn /\ TonTypeOK
  BY <1>3, <1>4
<1> QED BY <1>5, <1>6, PTL
============================================================================
