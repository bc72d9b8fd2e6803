------------------------------ MODULE Deposits ------------------------------
(***************************************************************************)
(* USDT arriving on an EVM rail: the addresses users are given, the        *)
(* watcher that scans final blocks and credits what landed on them         *)
(* (deposit_watcher.rs), the sweep that moves it on to the treasury        *)
(* (sweep.rs) and the custody migration that retires an address            *)
(* (application/wallet.rs).  The four run as tasks of one process over one *)
(* Postgres; the chain and the logs endpoint are the environment.          *)
(*                                                                         *)
(* An address is <<u, g>>: the g-th address of user u, of which the table  *)
(* user_deposit_addresses keeps the last only.  Every payment is of one    *)
(* unit.  Blocks deeper than DepConfirmations never change.                *)
(***************************************************************************)
EXTENDS Naturals, FiniteSets, FiniteSetsExt

CONSTANTS DepUsers, DepPays,
          DepConfirmations,  \* blocks below the head the scan stays
          DepRange,          \* blocks asked of eth_getLogs at once
          DepSlack,          \* PRUNE_SLACK_BLOCKS
          DepClamps,         \* PRUNE_CLAMPS_PER_SCAN
          DepMin,            \* the sweep's floor
          DepPause,          \* blocks that may pass between two steps of a sweep
          DepMaxHead, DepGens,
          DepFaults          \* subset of {"failed", "db_crash", "reorg", "prune", "migrate"}

DepositAssumption ==
    /\ {DepConfirmations, DepSlack, DepClamps, DepMaxHead, DepPause} \subseteq Nat
    /\ {DepRange, DepMin, DepGens} \subseteq Nat \ {0}
    /\ DepPause <= DepConfirmations

Treasury == <<"treasury", 0>>
DepAddresses == DepUsers \X (1..DepGens)
DepSweeps == DepAddresses \X (1..Cardinality(DepPays))
Blocks == 1..DepMaxHead
NoPay == [to |-> Treasury, block |-> 0]

VARIABLES dHead,    \* height of the chain
          dPaid,    \* pay -> where it was sent and the block it is in (0: not mined)
          dSweep,   \* address -> the amount of its sweep in the mempool (0: none)
          dMoved,   \* sweeps mined: [from, nonce, amount, block]
          dKept,    \* first block the logs endpoint still serves
          dGen,     \* user_deposit_addresses: how many addresses u has had
          dCursor,  \* deposit_scan_cursor
          dSynced,  \* the cursor of the last synchronous commit
          dRow,     \* deposits rows: pay -> "none", "unswept", "swept"
          dEvents,  \* Deposited events in the outbox, per pay
          dFiled,   \* blocks filed as skipped
          dNews,    \* transfers reported as unattributed treasury arrivals
          dScan,    \* the watcher's registers
          dTask,    \* the sweep's registers
          dCleared  \* users whose migration passed the funds gate

dvars == <<dHead, dPaid, dSweep, dMoved, dKept, dGen, dCursor, dSynced, dRow,
           dEvents, dFiled, dNews, dScan, dTask, dCleared>>

DepLow(a, b) == IF a < b THEN a ELSE b
IdleScan == [pc |-> "idle", next |-> 1, to |-> 0, end |-> 0, watched |-> {},
             treasury |-> FALSE, clamps |-> 0, logs |-> {}]
IdleTask == [pc |-> "idle", user |-> CHOOSE u \in DepUsers : TRUE, gen |-> 1,
             head |-> 0, read |-> 0]

DepInit ==
    /\ dHead = DepConfirmations
    /\ dPaid = [p \in DepPays |-> NoPay]
    /\ dSweep = [a \in DepAddresses |-> 0]
    /\ dMoved = {}
    /\ dKept = 1
    /\ dGen = [u \in DepUsers |-> 0]
    /\ dCursor = 0 /\ dSynced = 0
    /\ dRow = [p \in DepPays |-> "none"]
    /\ dEvents = [p \in DepPays |-> 0]
    /\ dFiled = {} /\ dNews = {}
    /\ dScan = IdleScan /\ dTask = IdleTask
    /\ dCleared = {}

-----------------------------------------------------------------------------
(* The chain, and the addresses users see.                                 *)

MovedFrom(a) == {m \in dMoved : m.from = a}
BalanceOf(a) ==
    Cardinality({p \in DepPays : dPaid[p].to = a /\ dPaid[p].block # 0})
    - MapThenSumSet(LAMBDA m : m.amount, MovedFrom(a))
CurrentAddress(u) == <<u, dGen[u]>>
Unswept(u) == \E p \in DepPays : dRow[p] = "unswept" /\ dPaid[p].to[1] = u

\* DepositAddresses::address: the first read provisions the key and caches it.
IssueAddress(u) ==
    /\ dGen[u] = 0
    /\ dGen' = [dGen EXCEPT ![u] = 1]
    /\ UNCHANGED <<dHead, dPaid, dSweep, dMoved, dKept, dCursor, dSynced, dRow,
                   dEvents, dFiled, dNews, dScan, dTask, dCleared>>

\* A payment to any address its user was ever shown, or to the treasury, mined
\* in a new block.
PayIn(p) ==
    /\ dPaid[p].block = 0 /\ dPaid[p] = NoPay
    /\ dHead < DepMaxHead
    /\ dTask.pc # "idle" => dHead < dTask.head + DepPause
    /\ dHead' = dHead + 1
    /\ \E to \in {a \in DepAddresses : a[2] <= dGen[a[1]]} \cup {Treasury} :
           dPaid' = [dPaid EXCEPT ![p] = [to |-> to, block |-> dHead + 1]]
    /\ UNCHANGED <<dSweep, dMoved, dKept, dGen, dCursor, dSynced, dRow, dEvents,
                   dFiled, dNews, dScan, dTask, dCleared>>

\* A block mines every sweep of the pool, or none.
MineBlock ==
    /\ dHead < DepMaxHead
    /\ dTask.pc # "idle" => dHead < dTask.head + DepPause
    /\ dHead' = dHead + 1
    /\ LET pool == {a \in DepAddresses : dSweep[a] # 0} IN
       \E mined \in {{}, pool} :
          /\ dMoved' = dMoved \cup {[from |-> a, nonce |-> Cardinality(MovedFrom(a)) + 1,
                                      amount |-> dSweep[a], block |-> dHead + 1] : a \in mined}
          /\ dSweep' = [a \in DepAddresses |-> IF a \in mined THEN 0 ELSE dSweep[a]]
    /\ UNCHANGED <<dPaid, dKept, dGen, dCursor, dSynced, dRow, dEvents, dFiled,
                   dNews, dScan, dTask, dCleared>>

\* A reorganisation puts the last block's transactions elsewhere: its sweeps go
\* back to the pool, its payments into the block that replaces it.
Reorg ==
    /\ "reorg" \in DepFaults
    /\ DepConfirmations > 0
    /\ \E m \in dMoved :
          /\ m.block = dHead
          /\ dSweep[m.from] = 0
          /\ dMoved' = dMoved \ {m}
          /\ dSweep' = [dSweep EXCEPT ![m.from] = m.amount]
    /\ UNCHANGED <<dHead, dPaid, dKept, dGen, dCursor, dSynced, dRow, dEvents,
                   dFiled, dNews, dScan, dTask, dCleared>>

\* The endpoint keeps a window of history that moves with the chain.
Prune ==
    /\ "prune" \in DepFaults
    /\ dKept < dHead
    /\ dKept' = dKept + 1
    /\ UNCHANGED <<dHead, dPaid, dSweep, dMoved, dGen, dCursor, dSynced, dRow,
                   dEvents, dFiled, dNews, dScan, dTask, dCleared>>

-----------------------------------------------------------------------------
(* The watcher.  A cycle reads the head, then the cursor, then the watched *)
(* addresses, and credits chunk by chunk before it moves the cursor.       *)

SafeHead == IF dHead > DepConfirmations THEN dHead - DepConfirmations ELSE 0

\* scan_once.
ScanOnce ==
    /\ dScan.pc = "idle"
    /\ SafeHead > dCursor
    /\ dScan' = [IdleScan EXCEPT !.pc = "watched", !.next = dCursor + 1, !.to = SafeHead]
    /\ UNCHANGED <<dHead, dPaid, dSweep, dMoved, dKept, dGen, dCursor, dSynced, dRow,
                   dEvents, dFiled, dNews, dTask, dCleared>>

\* watched_addresses and treasury_addresses (the signer may not answer).  With
\* nobody to watch the cursor jumps to the end of the window.
Watched == {CurrentAddress(u) : u \in {v \in DepUsers : dGen[v] > 0}}

ReadWatched ==
    /\ dScan.pc = "watched"
    /\ \E resolved \in BOOLEAN :
          IF Watched = {} /\ ~resolved
          THEN /\ dCursor' = dScan.to
               /\ dScan' = IdleScan
          ELSE /\ dScan' = [dScan EXCEPT !.pc = "logs", !.watched = Watched,
                                         !.treasury = resolved]
               /\ UNCHANGED dCursor
    /\ UNCHANGED <<dHead, dPaid, dSweep, dMoved, dKept, dGen, dSynced, dRow, dEvents,
                   dFiled, dNews, dTask, dCleared>>

\* get_logs: the transfers to a watched address or the treasury in the chunk,
\* sweeps included.
ChunkEnd == DepLow(dScan.next + DepRange - 1, dScan.to)
PaysIn(from, to) ==
    {p \in DepPays : /\ dPaid[p].block \in from..to
                     /\ \/ dPaid[p].to \in dScan.watched
                        \/ dPaid[p].to = Treasury /\ dScan.treasury}
SweepsIn(from, to) == {<<m.from, m.nonce>> : m \in {n \in dMoved : n.block \in from..to}}

GetLogs ==
    /\ dScan.pc = "logs"
    /\ dScan.next <= dScan.to
    /\ dScan.next >= dKept
    /\ dScan' = [dScan EXCEPT
           !.pc = "credit", !.end = ChunkEnd,
           !.logs = PaysIn(dScan.next, ChunkEnd)
                    \cup (IF dScan.treasury THEN SweepsIn(dScan.next, ChunkEnd) ELSE {})]
    /\ UNCHANGED <<dHead, dPaid, dSweep, dMoved, dKept, dGen, dCursor, dSynced, dRow,
                   dEvents, dFiled, dNews, dTask, dCleared>>

\* The window starts below what the endpoint keeps.  first_retained_block needs
\* a block of the window that is still served; resume_after_prune goes past it
\* by a slack that doubles, and what is skipped is filed.
ResumeAfterPrune(first, clamp) == DepLow(first + DepSlack * 2^(clamp - 1), dScan.to)
SkippedBlocks(resume) == dScan.next .. (resume - 1)

ClampPruned ==
    /\ dScan.pc = "logs"
    /\ dScan.next <= dScan.to
    /\ dScan.next < dKept
    /\ IF dScan.clamps < DepClamps /\ dKept <= dScan.to
       THEN LET resume == ResumeAfterPrune(dKept, dScan.clamps + 1) IN
            /\ dFiled' = dFiled \cup SkippedBlocks(resume)
            /\ dCursor' = resume - 1
            /\ dScan' = [dScan EXCEPT !.next = resume, !.clamps = @ + 1]
       ELSE /\ dScan' = IdleScan
            /\ UNCHANGED <<dFiled, dCursor>>
    /\ UNCHANGED <<dHead, dPaid, dSweep, dMoved, dKept, dGen, dSynced, dRow, dEvents,
                   dNews, dTask, dCleared>>

\* recipient_of, for a payment of the chunk and for a sweep of ours.
IsExternal(from) == from \notin dScan.watched
Reported(x) == IF x \in DepPays THEN dPaid[x].to = Treasury ELSE IsExternal(x[1])

\* PgDeposits::record: the row and its event in one synchronous commit, the row
\* unique by tx_ref.  (RecordAgain: without the unique index.)
RecordAgain(p) ==
    /\ dRow' = [dRow EXCEPT ![p] = "unswept"]
    /\ dEvents' = [dEvents EXCEPT ![p] = @ + 1]
    /\ dSynced' = dCursor
Record(p) ==
    /\ dRow' = [dRow EXCEPT ![p] = IF @ = "none" THEN "unswept" ELSE @]
    /\ dEvents' = [dEvents EXCEPT ![p] = IF dRow[p] = "none" THEN @ + 1 ELSE @]
    /\ dSynced' = dCursor

CreditLog ==
    /\ dScan.pc = "credit"
    /\ \E x \in dScan.logs :
          /\ dScan' = [dScan EXCEPT !.logs = @ \ {x}]
          /\ IF x \in DepPays /\ dPaid[x].to # Treasury
             THEN Record(x) /\ UNCHANGED dNews
             ELSE /\ dNews' = IF Reported(x) THEN dNews \cup {x} ELSE dNews
                  /\ UNCHANGED <<dRow, dEvents, dSynced>>
    /\ UNCHANGED <<dHead, dPaid, dSweep, dMoved, dKept, dGen, dCursor, dFiled, dTask,
                   dCleared>>

\* The chunk is credited: only now the cursor moves over it.
\* (ChunkRead: as soon as it is read.)
ChunkRead == TRUE
ChunkDone == dScan.logs = {}

AdvanceCursor ==
    /\ dScan.pc = "credit"
    /\ ChunkDone
    /\ dCursor' = dScan.end
    /\ dScan' = IF dScan.end < dScan.to
                THEN [dScan EXCEPT !.pc = "logs", !.next = dScan.end + 1, !.logs = {}]
                ELSE IdleScan
    /\ UNCHANGED <<dHead, dPaid, dSweep, dMoved, dKept, dGen, dSynced, dRow, dEvents,
                   dFiled, dNews, dTask, dCleared>>

\* A call of the scan fails, or the process dies: the next cycle starts from
\* the stored cursor.
ScanFails ==
    /\ "failed" \in DepFaults
    /\ dScan.pc # "idle"
    /\ dScan' = IdleScan
    /\ UNCHANGED <<dHead, dPaid, dSweep, dMoved, dKept, dGen, dCursor, dSynced, dRow,
                   dEvents, dFiled, dNews, dTask, dCleared>>

\* Postgres dies: set_scan_cursor commits asynchronously, so the cursor falls
\* back to the last synchronous commit.
DbCrash ==
    /\ "db_crash" \in DepFaults
    /\ dCursor # dSynced
    /\ dCursor' = dSynced
    /\ dScan' = IdleScan /\ dTask' = IdleTask
    /\ UNCHANGED <<dHead, dPaid, dSweep, dMoved, dKept, dGen, dSynced, dRow, dEvents,
                   dFiled, dNews, dCleared>>

-----------------------------------------------------------------------------
(* The sweep: one user with an unswept deposit at a time.                  *)

\* deposit_addresses joins the user's current address; sweep_address reads its
\* balance at the head.
ReadBalance(u) ==
    /\ dTask.pc = "idle"
    /\ Unswept(u) /\ dGen[u] > 0
    /\ dTask' = [pc |-> "act", user |-> u, gen |-> dGen[u], head |-> dHead,
                 read |-> BalanceOf(CurrentAddress(u))]
    /\ UNCHANGED <<dHead, dPaid, dSweep, dMoved, dKept, dGen, dCursor, dSynced, dRow,
                   dEvents, dFiled, dNews, dScan, dCleared>>

\* Below the floor: mark_swept stamps every unswept deposit of the user.
Drained(read) == read < DepMin

MarkSwept ==
    /\ dTask.pc = "act" /\ Drained(dTask.read)
    /\ dRow' = [p \in DepPays |-> IF dRow[p] = "unswept" /\ dPaid[p].to[1] = dTask.user
                                  THEN "swept" ELSE dRow[p]]
    /\ dSynced' = dCursor
    /\ dTask' = IdleTask
    /\ UNCHANGED <<dHead, dPaid, dSweep, dMoved, dKept, dGen, dCursor, dEvents, dFiled,
                   dNews, dScan, dCleared>>

\* Otherwise the balance is signed over at the mined nonce, with the key the
\* signer holds for the user now.  A transaction already in the pool at that
\* nonce stands; a call that fails leaves the address to the next cycle.
BroadcastSweep ==
    /\ dTask.pc = "act" /\ ~Drained(dTask.read)
    /\ LET a == <<dTask.user, dTask.gen>> IN
       \E sent \in IF "failed" \in DepFaults THEN BOOLEAN ELSE {TRUE} :
          dSweep' = [dSweep EXCEPT ![a] =
                        IF /\ sent /\ @ = 0 /\ dGen[dTask.user] = dTask.gen
                           /\ BalanceOf(a) >= dTask.read
                        THEN dTask.read ELSE @]
    /\ dTask' = IdleTask
    /\ UNCHANGED <<dHead, dPaid, dMoved, dKept, dGen, dCursor, dSynced, dRow, dEvents,
                   dFiled, dNews, dScan, dCleared>>

-----------------------------------------------------------------------------
(* migrate_deposit_address_to_custodian: the funds gate, then the signer   *)
(* archives the key and the cache is overwritten.                          *)

ClearMigration(u) ==
    /\ "migrate" \in DepFaults
    /\ dGen[u] \in 1..(DepGens - 1)
    /\ u \notin dCleared
    /\ ~Unswept(u)
    /\ dCleared' = dCleared \cup {u}
    /\ UNCHANGED <<dHead, dPaid, dSweep, dMoved, dKept, dGen, dCursor, dSynced, dRow,
                   dEvents, dFiled, dNews, dScan, dTask>>

Migrate(u) ==
    /\ u \in dCleared
    /\ dCleared' = dCleared \ {u}
    /\ dGen' = [dGen EXCEPT ![u] = @ + 1]
    /\ UNCHANGED <<dHead, dPaid, dSweep, dMoved, dKept, dCursor, dSynced, dRow, dEvents,
                   dFiled, dNews, dScan, dTask>>

DepNext ==
    \/ \E u \in DepUsers : \/ IssueAddress(u) \/ ReadBalance(u)
                           \/ ClearMigration(u) \/ Migrate(u)
    \/ \E p \in DepPays : PayIn(p)
    \/ MineBlock \/ Reorg \/ Prune
    \/ ScanOnce \/ ReadWatched \/ GetLogs \/ ClampPruned \/ CreditLog
    \/ AdvanceCursor \/ ScanFails \/ DbCrash
    \/ MarkSwept \/ BroadcastSweep

-----------------------------------------------------------------------------
DepTypeOK ==
    /\ dHead \in 0..DepMaxHead /\ dKept \in 1..DepMaxHead
    /\ dCursor \in 0..DepMaxHead /\ dSynced \in 0..DepMaxHead
    /\ dGen \in [DepUsers -> 0..DepGens]
    /\ dRow \in [DepPays -> {"none", "unswept", "swept"}]
    /\ dEvents \in [DepPays -> 0..1]
    /\ dFiled \subseteq Blocks
    /\ \A a \in DepAddresses : dSweep[a] \in 0..Cardinality(DepPays) /\ BalanceOf(a) >= 0
    /\ dNews \subseteq DepPays \cup DepSweeps

(* A payment to an address that is still its user's, in a block the cursor *)
(* has passed, is credited or lies in a range filed for the operator:      *)
(* provisioning, pruning, crashes and lost cursor writes between the steps *)
(* of a scan never pass one over (deposit_watcher.rs scan_range).          *)
NothingPassedOver ==
    \A p \in DepPays :
        (/\ dPaid[p].block \in 1..dCursor
         /\ dPaid[p].to \in Watched)
        => dRow[p] # "none" \/ dPaid[p].block \in dFiled

(* What is credited is final: its block can no longer be reorganised, and  *)
(* one payment is one Deposited event however often its block is scanned.  *)
CreditedOnceAndFinal ==
    \A p \in DepPays :
        dEvents[p] > 0 => dEvents[p] = 1 /\ dPaid[p].block \in 1..SafeHead

(* When every credited deposit of a user reads swept, what is left on their *)
(* address is dust, not yet credited, or in a sweep already sent: the mark *)
(* between a balance read and a credit strands nothing (sweep.rs).  This   *)
(* rests on time alone: the two calls from the read to the stamp last      *)
(* fewer blocks than a deposit needs to become final (DepPause against     *)
(* DepConfirmations); mark_swept itself stamps whatever is credited.       *)
SweptIsMoved ==
    \A u \in DepUsers :
        dGen[u] = 1 /\ ~Unswept(u) =>
            LET a == CurrentAddress(u) IN
            BalanceOf(a) - dSweep[a]
              < DepMin + Cardinality({p \in DepPays : /\ dPaid[p].to = a
                                                      /\ dPaid[p].block # 0
                                                      /\ dRow[p] = "none"})
=============================================================================
