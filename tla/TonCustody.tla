------------------------------ MODULE TonCustody ------------------------------
(***************************************************************************)
(* Custody of the TON rail (ton_custody.rs, ton_withdrawal_watcher.rs,     *)
(* ton_rpc.rs).  The treasury wallet takes external messages strictly in   *)
(* the order of their seqno and drops any other, so sends queue in         *)
(* withdrawal_broadcasts: the relay signs each at the next free seqno and  *)
(* the watcher sends the one whose turn it is, signing it again when its   *)
(* validity ran out.  A processed message proves nothing about the jetton  *)
(* transfer inside it, which may bounce; the watcher settles against the   *)
(* treasury's outgoing transfers, which it can tell apart by amount only.  *)
(***************************************************************************)
EXTENDS Integers, Sequences, FiniteSets

CONSTANTS
    TonSends,         \* withdrawals whose Dispatched row is on the outbox
    TonRelays,        \* sessions that drain it
    TonNet,           \* the net amount of each withdrawal
    TonWindow,        \* VALID_WINDOW_SECS
    TonMaxTime,       \* bound on the clock
    TonMaxSeqno,      \* bound on the seqnos signed at
    TonFaults         \* subset of {"stopped", "lost_answer", "refused", "underfunded", "dropped",
                      \*            "discard_lost"}

TonAssumption ==
    /\ IsFiniteSet(TonSends) /\ TonNet \in [TonSends -> Nat \ {0}]
    /\ TonWindow \in Nat /\ TonMaxTime \in Nat /\ TonMaxSeqno \in Nat

VARIABLES
    nState,     \* withdrawals.state
    nRef,       \* withdrawals.tx_ref: the transfer a settled one was settled with
    nQueued,    \* the Dispatched rows not stamped and not parked
    nRow,       \* withdrawal_broadcasts: the stored message's seqno and valid_until
    nPool,      \* messages the network holds
    nOut,       \* messages the wallet processed, in seqno order, and whether the transfer left
    nNow,
    nAt,        \* what each driver is doing
    nOn,        \* what a relay has read
    nScan,      \* what the watcher's scan has read
    nSeen,      \* history: withdrawals a scan read during their first send
    nForgotten, \* history: those of them whose row the refused send discarded
    nAhead      \* history: withdrawals settled with a transfer that left after the scan began

nhistory == <<nSeen, nForgotten, nAhead>>
nvars == <<nState, nRef, nQueued, nRow, nPool, nOut, nNow, nAt, nOn, nScan, nhistory>>

TonWatcher == "ton_watcher"
TonDrivers == TonRelays \cup {TonWatcher}
TonSeqnos == 0..TonMaxSeqno
NoMessage == [seq |-> -1, exp |-> 0]
TonMessage(w, row) == [w |-> w, seq |-> row.seq, exp |-> row.exp]
TonIdle == [w |-> "none", chain |-> 0, msg |-> NoMessage]
NoScan == [pend |-> {}, again |-> {}, began |-> 0, seqno |-> 0]

\* The treasury wallet's seqno.
ChainSeqno == Len(nOut)

TonInit ==
    /\ nState = [w \in TonSends |-> "processing"]
    /\ nRef = [w \in TonSends |-> 0]
    /\ nQueued = TonSends
    /\ nRow = [w \in TonSends |-> NoMessage]
    /\ nPool = {}
    /\ nOut = <<>>
    /\ nNow = 0
    /\ nAt = [d \in TonDrivers |-> "idle"]
    /\ nOn = [d \in TonRelays |-> TonIdle]
    /\ nScan = NoScan
    /\ nSeen = {} /\ nForgotten = {} /\ nAhead = {}

----------------------------------------------------------------------------
\* The network and the wallet contract

TonTick == nNow < TonMaxTime /\ nNow' = nNow + 1 /\ UNCHANGED <<nState, nRef, nQueued, nRow, nPool, nOut, nAt, nOn, nScan, nhistory>>

\* What the wallet accepts: its own seqno, before valid_until.
Acceptable(m) == m.seq = ChainSeqno /\ nNow < m.exp

\* The wallet processes a message; its transfer leaves or bounces.
TonProcess(m) ==
    /\ m \in nPool /\ Acceptable(m)
    /\ \E left \in BOOLEAN : nOut' = Append(nOut, [w |-> m.w, left |-> left])
    /\ nPool' = {x \in nPool : x.seq > m.seq}
    /\ UNCHANGED <<nState, nRef, nQueued, nRow, nNow, nAt, nOn, nScan, nhistory>>

TonDropped(m) ==
    /\ "dropped" \in TonFaults /\ m \in nPool
    /\ nPool' = nPool \ {m}
    /\ UNCHANGED <<nState, nRef, nQueued, nRow, nOut, nNow, nAt, nOn, nScan, nhistory>>

----------------------------------------------------------------------------
\* TonCustody::broadcast, delivered by the relay

TonGoto(d, at, on) == nAt' = [nAt EXCEPT ![d] = at] /\ nOn' = [nOn EXCEPT ![d] = on]
TonEnded(d) == nQueued' = nQueued \ {nOn[d].w} /\ TonGoto(d, "idle", TonIdle)
TonRetry(d) == UNCHANGED nQueued /\ TonGoto(d, "idle", TonIdle)

TonBroadcast(d, w) ==
    /\ nAt[d] = "idle" /\ w \in nQueued
    /\ IF nRow[w] # NoMessage THEN TonGoto(d, "resend", [TonIdle EXCEPT !.w = w, !.msg = nRow[w]])
       ELSE TonGoto(d, "fund", [TonIdle EXCEPT !.w = w])
    /\ UNCHANGED <<nState, nRef, nQueued, nRow, nPool, nOut, nNow, nScan, nhistory>>

\* submit(stored, rebroadcast): any refusal the wallet explains is success.
TonResend(d) ==
    LET m == TonMessage(nOn[d].w, nOn[d].msg) IN
    /\ nAt[d] = "resend"
    /\ nPool' \in {nPool} \cup (IF Acceptable(m) THEN {nPool \cup {m}} ELSE {})
    /\ TonEnded(d) \/ ("lost_answer" \in TonFaults /\ TonRetry(d))
    /\ UNCHANGED <<nState, nRef, nRow, nOut, nNow, nScan, nhistory>>

TonFund(d) ==
    /\ nAt[d] = "fund"
    /\ \/ TonGoto(d, "plan", nOn[d]) /\ UNCHANGED nQueued
       \/ "underfunded" \in TonFaults /\ TonEnded(d)
    /\ UNCHANGED <<nState, nRef, nRow, nPool, nOut, nNow, nScan, nhistory>>

\* next_seqno, the chain's side.
TonPlan(d) ==
    /\ nAt[d] = "plan"
    /\ TonGoto(d, "sign", [nOn[d] EXCEPT !.chain = ChainSeqno])
    /\ UNCHANGED <<nState, nRef, nQueued, nRow, nPool, nOut, nNow, nScan, nhistory>>

\* next_seqno, ours: one past every stored message.
StoredSeqnos == {nRow[w].seq : w \in TonSends}
NextSeqno(chain) == CHOOSE n \in {chain} \cup {s + 1 : s \in StoredSeqnos} : n >= chain /\ \A s \in StoredSeqnos : n > s

TonSign(d) ==
    /\ nAt[d] = "sign" /\ NextSeqno(nOn[d].chain) <= TonMaxSeqno
    /\ TonGoto(d, "store", [nOn[d] EXCEPT !.msg = [seq |-> NextSeqno(nOn[d].chain), exp |-> nNow + TonWindow]])
    /\ UNCHANGED <<nState, nRef, nQueued, nRow, nPool, nOut, nNow, nScan, nhistory>>

StoreTonTx(d) ==
    /\ nAt[d] = "store"
    /\ nRow' = [nRow EXCEPT ![nOn[d].w] = IF @ = NoMessage THEN nOn[d].msg ELSE @]
    /\ TonGoto(d, "send", nOn[d])
    /\ UNCHANGED <<nState, nRef, nQueued, nPool, nOut, nNow, nScan, nhistory>>

\* A refused first send: a future seqno waits for its turn with its row, the
\* next in line gives its seqno back.
FreesSeqno(msg, chain) == msg.seq <= chain
DiscardTx(w) == nRow' = [nRow EXCEPT ![w] = NoMessage] /\ nForgotten' = nForgotten \cup ({w} \cap nSeen)
TonRefused(d) ==
    /\ \/ FreesSeqno(nOn[d].msg, nOn[d].chain) /\ DiscardTx(nOn[d].w)
       \/ (~ FreesSeqno(nOn[d].msg, nOn[d].chain) \/ "discard_lost" \in TonFaults) /\ UNCHANGED <<nRow, nForgotten>>
    /\ UNCHANGED nPool /\ TonEnded(d)

\* submit(first): taken, refused, or the answer is lost.  A message the
\* network already holds may be answered as a duplicate.
TonSend(d) ==
    LET m == TonMessage(nOn[d].w, nOn[d].msg) IN
    /\ nAt[d] = "send"
    /\ \/ Acceptable(m) /\ nPool' = nPool \cup {m} /\ UNCHANGED <<nRow, nForgotten>> /\ TonEnded(d)
       \/ /\ "lost_answer" \in TonFaults /\ nPool' \in {nPool} \cup (IF Acceptable(m) THEN {nPool \cup {m}} ELSE {})
          /\ UNCHANGED <<nRow, nForgotten>> /\ TonRetry(d)
       \/ (~Acceptable(m) \/ m \in nPool \/ "refused" \in TonFaults) /\ TonRefused(d)
    /\ UNCHANGED <<nState, nRef, nOut, nNow, nScan, nSeen, nAhead>>

\* A call fails before it had an effect, or the process stops.
TonStopped(d) ==
    /\ "stopped" \in TonFaults /\ nAt[d] # "idle"
    /\ IF d = TonWatcher THEN nAt' = [nAt EXCEPT ![d] = "idle"] /\ nScan' = NoScan /\ UNCHANGED <<nOn, nQueued>>
       ELSE TonRetry(d) /\ UNCHANGED nScan
    /\ UNCHANGED <<nState, nRef, nRow, nPool, nOut, nNow, nhistory>>

----------------------------------------------------------------------------
\* The confirmation watcher

TonScanGoto(at, scan) == nAt' = [nAt EXCEPT ![TonWatcher] = at] /\ nScan' = scan

\* pending_broadcasts: a row is read although its first send may be under way.
PendingBroadcasts == {w \in TonSends : nState[w] = "processing" /\ nRow[w] # NoMessage}
InSend(w) == \E d \in TonRelays : nAt[d] = "send" /\ nOn[d].w = w
TonScan ==
    LET pend == {[w |-> w, row |-> nRow[w]] : w \in PendingBroadcasts} IN
    /\ nAt[TonWatcher] = "idle" /\ pend # {}
    /\ TonScanGoto("seqno", [NoScan EXCEPT !.pend = pend, !.began = ChainSeqno])
    /\ nSeen' = nSeen \cup {w \in PendingBroadcasts : InSend(w)}
    /\ UNCHANGED <<nState, nRef, nQueued, nRow, nPool, nOut, nNow, nOn, nForgotten, nAhead>>

TonReadSeqno ==
    /\ nAt[TonWatcher] = "seqno"
    /\ TonScanGoto("feed", [nScan EXCEPT !.seqno = ChainSeqno])
    /\ UNCHANGED <<nState, nRef, nQueued, nRow, nPool, nOut, nNow, nOn, nhistory>>

\* plan_settlements: an amount's sends settle only when every one of them has
\* a transfer of its own that no withdrawal was settled with.
Outgoing(upto) == {i \in 1..upto : nOut[i].left}
Unused(upto, amount) == {i \in Outgoing(upto) : TonNet[nOut[i].w] = amount /\ \A w \in TonSends : nRef[w] # i}
Siblings(advanced, w) == {x \in advanced : TonNet[x] = TonNet[w]}
PlanSettlements(advanced, upto) ==
    {w \in advanced : Cardinality(Unused(upto, TonNet[w])) >= Cardinality(Siblings(advanced, w))}

\* The feed of outgoing transfers and the settles it proves.  The indexer may be
\* behind, and it may show what happened after the rows and the seqno were read.
TonSettle ==
    LET advanced == {p.w : p \in {q \in nScan.pend : nScan.seqno > q.row.seq}} IN
    /\ nAt[TonWatcher] = "feed"
    /\ \E upto \in 0..ChainSeqno :
       LET ready == {w \in PlanSettlements(advanced, upto) : nState[w] = "processing"} IN
       \E tx \in [ready -> 1..upto] :
          /\ \A w \in ready : tx[w] \in Unused(upto, TonNet[w])
          /\ \A v, w \in ready : v # w => tx[v] # tx[w]
          /\ nState' = [w \in TonSends |-> IF w \in ready THEN "settled" ELSE nState[w]]
          /\ nRef' = [w \in TonSends |-> IF w \in ready THEN tx[w] ELSE nRef[w]]
          /\ nAhead' = nAhead \cup {w \in ready : tx[w] > nScan.began}
    /\ TonScanGoto("next", [nScan EXCEPT !.pend = {q \in @ : q.row.seq = nScan.seqno}])
    /\ UNCHANGED <<nQueued, nRow, nPool, nOut, nNow, nOn, nSeen, nForgotten>>

\* advance_next_in_line: the stored message is sent again, or signed again at
\* its own seqno once it has expired.
TonAdvance(p) ==
    LET m == TonMessage(p.w, p.row)
        rest == [nScan EXCEPT !.pend = @ \ {p}]
    IN  /\ nAt[TonWatcher] = "next" /\ p \in nScan.pend
        /\ IF nRow[p.w] # NoMessage /\ nNow >= nRow[p.w].exp
           THEN /\ TonScanGoto("replace", [rest EXCEPT !.again = {[w |-> p.w, row |-> [seq |-> nRow[p.w].seq, exp |-> nNow + TonWindow]]}])
                /\ UNCHANGED nPool
           ELSE /\ nPool' \in {nPool} \cup (IF Acceptable(m) THEN {nPool \cup {m}} ELSE {})
                /\ TonScanGoto("next", rest)
        /\ UNCHANGED <<nState, nRef, nQueued, nRow, nOut, nNow, nOn, nhistory>>

\* resign_stuck: replace_tx, then submit.
ReplaceTon(p) ==
    /\ nAt[TonWatcher] = "replace" /\ p \in nScan.again
    /\ nRow' = [nRow EXCEPT ![p.w] = IF @ = NoMessage THEN @ ELSE p.row]
    /\ TonScanGoto("resubmit", nScan)
    /\ UNCHANGED <<nState, nRef, nQueued, nPool, nOut, nNow, nOn, nhistory>>
ResubmitTon(p) ==
    LET m == TonMessage(p.w, p.row) IN
    /\ nAt[TonWatcher] = "resubmit" /\ p \in nScan.again
    /\ nPool' \in {nPool} \cup (IF Acceptable(m) THEN {nPool \cup {m}} ELSE {})
    /\ TonScanGoto("next", [nScan EXCEPT !.again = {}])
    /\ UNCHANGED <<nState, nRef, nQueued, nRow, nOut, nNow, nOn, nhistory>>

TonScanned ==
    /\ nAt[TonWatcher] = "next" /\ nScan.pend = {}
    /\ TonScanGoto("idle", NoScan)
    /\ UNCHANGED <<nState, nRef, nQueued, nRow, nPool, nOut, nNow, nOn, nhistory>>

\* The operator re-drives a parked row.
TonUnpark(w) ==
    /\ w \notin nQueued /\ nState[w] = "processing" /\ \A d \in TonRelays : nOn[d].w # w
    /\ nQueued' = nQueued \cup {w}
    /\ UNCHANGED <<nState, nRef, nRow, nPool, nOut, nNow, nAt, nOn, nScan, nhistory>>

----------------------------------------------------------------------------
TonDrive(d) ==
    \/ \E w \in TonSends : TonBroadcast(d, w)
    \/ TonResend(d) \/ TonFund(d) \/ TonPlan(d) \/ TonSign(d) \/ StoreTonTx(d) \/ TonSend(d)

TonNext ==
    \/ TonTick
    \/ \E m \in nPool : TonProcess(m) \/ TonDropped(m)
    \/ \E d \in TonRelays : TonDrive(d)
    \/ \E d \in TonDrivers : TonStopped(d)
    \/ TonScan \/ TonReadSeqno \/ TonSettle \/ TonScanned
    \/ \E p \in nScan.pend : TonAdvance(p)
    \/ \E p \in nScan.again : ReplaceTon(p) \/ ResubmitTon(p)
    \/ \E w \in TonSends : TonUnpark(w)

TonSpec == TonInit /\ [][TonNext]_nvars

----------------------------------------------------------------------------
TonTypeOK ==
    LET rows == {NoMessage} \cup [seq : TonSeqnos, exp : 0..(TonMaxTime + TonWindow)] IN
    /\ nState \in [TonSends -> {"processing", "settled"}]
    /\ \A w \in TonSends : nRef[w] \in 0..Len(nOut)
    /\ nQueued \subseteq TonSends
    /\ nRow \in [TonSends -> rows]
    /\ \A m \in nPool : m.w \in TonSends /\ m.seq \in TonSeqnos
    /\ \A i \in 1..Len(nOut) : nOut[i] \in [w : TonSends, left : BOOLEAN]
    /\ nAt \in [TonDrivers -> {"idle", "resend", "fund", "plan", "sign", "store", "send", "seqno", "feed", "next", "replace", "resubmit"}]
    /\ nOn \in [TonRelays -> [w : TonSends \cup {"none"}, chain : 0..(TonMaxSeqno + 1), msg : rows]]
    /\ nForgotten \subseteq nSeen /\ nSeen \subseteq TonSends /\ nAhead \subseteq TonSends

Paid(w) == {i \in 1..Len(nOut) : nOut[i].w = w /\ nOut[i].left}

\* The watcher read the row before the refused send discarded it, and may send
\* a message nobody remembers.
Kept(w) == w \notin nForgotten
\* Of a withdrawal's amount nothing was forgotten, and nothing was settled with
\* a transfer the watcher's rows and seqno are older than.
AsRead(w) == \A v \in TonSends : TonNet[v] = TonNet[w] => Kept(v) /\ v \notin nAhead

\* At most one message of a withdrawal ever carries its transfer out, however
\* often it is sent, signed again at its seqno or re-driven by an operator,
\* unless a row was discarded after the watcher had read it (Kept).
TonOnePayout == \A w \in TonSends : Kept(w) => Cardinality(Paid(w)) <= 1

\* Each settled withdrawal has a transfer of its amount to itself; and as long as
\* what the watcher read was not outrun (AsRead) its own transfer left, although
\* transfers are told apart by amount only and a sibling may have bounced.
SettledIsOwn(w) == nState[w] = "settled" => Paid(w) # {}
TonSettledIsOwn ==
    LET settled == {w \in TonSends : nState[w] = "settled"} IN
    /\ \A w \in settled : nRef[w] \in 1..Len(nOut) /\ nOut[nRef[w]].left /\ TonNet[nOut[nRef[w]].w] = TonNet[w]
    /\ \A v, w \in settled : v # w => nRef[v] # nRef[w]
    /\ \A w \in TonSends : AsRead(w) => SettledIsOwn(w)

\* The watcher's own claim: it settles a send only when the send's transfer left.
SettledOnlyOwn == \A w \in TonSends : SettledIsOwn(w)

\* Every seqno the wallet waits for is held by one stored message, none is shared
\* and none is missing below a stored one, as long as no row is forgotten.
TonQueueHasNoGap ==
    LET waiting == {w \in TonSends : nRow[w].seq >= ChainSeqno} IN
    (\A w \in TonSends : Kept(w)) =>
        /\ \A v, w \in waiting : v # w => nRow[v].seq # nRow[w].seq
        /\ \A w \in waiting : \A s \in ChainSeqno..nRow[w].seq : \E v \in waiting : nRow[v].seq = s

\* A withdrawal with no stored message has none on the network or the chain:
\* freeing a refused send's seqno forgot nothing that can pay, unless the
\* watcher had read it (Kept).
UnstoredIsUnsent ==
    \A w \in TonSends : Kept(w) /\ nRow[w] = NoMessage =>
        (\A m \in nPool : m.w # w) /\ (\A i \in 1..Len(nOut) : nOut[i].w # w)
=============================================================================
