------------------------------ MODULE FeedScan ------------------------------
(***************************************************************************)
(* The deposit watchers of the TRON and TON rails                          *)
(* (tron_deposit_watcher.rs, ton_deposit_watcher.rs).  They have no block  *)
(* range to walk: an indexer lists, per address, the transfers since a     *)
(* time, and surfaces a transfer up to FeedLag after it happened.  One     *)
(* watermark serves every address; each cycle starts a look-back below it, *)
(* drains the addresses page by page and moves it to the newest transfer   *)
(* seen.  An address whose fetch fails is skipped for the cycle.           *)
(*                                                                         *)
(* FeedSkip is the assumption this rests on: no watched address goes       *)
(* longer than that without a fetch that succeeds, whether its fetches     *)
(* fail or the whole watcher is down.                                      *)
(***************************************************************************)
EXTENDS Naturals, FiniteSets

CONSTANTS FeedOwners, FeedTreasury, FeedPays,
          FeedLookback,  \* LOOKBACK_MS, LOOKBACK_SECS
          FeedLag,       \* how late the indexer may surface a transfer
          FeedSkip,      \* how long an address may go unfetched
          FeedPage,      \* rows of a page
          FeedMaxTime,
          FeedFloats,    \* TON floats an idle watermark and watches the treasury
          FeedFaults     \* subset of {"fetch", "stopped"}

FeedAssumption ==
    /\ {FeedLookback, FeedLag, FeedSkip, FeedMaxTime} \subseteq Nat
    /\ FeedPage \in Nat \ {0}
    /\ FeedFloats \in BOOLEAN
    /\ FeedLag + FeedSkip <= FeedLookback

VARIABLES fNow,
          fOwners,   \* addresses with a derived row
          fPaid,     \* pay -> [to, at], at = 0 while it has not happened
          fShown,    \* pays the indexer surfaces
          fCursor,   \* deposit_scan_cursor, a time; 0 before the first cycle
          fRow,      \* pay -> "none", "credited", "reported"
          fCycle,    \* the watcher's registers
          fFetched   \* owner -> time of its last fetch that succeeded

fvars == <<fNow, fOwners, fPaid, fShown, fCursor, fRow, fCycle, fFetched>>

FeedAtLeast(a, b) == IF a > b THEN a ELSE b
FeedMinus(a, b) == IF a > b THEN a - b ELSE 0
IdleCycle == [pc |-> "idle", cursor |-> 0, high |-> 0, todo |-> {}, owner |-> FeedTreasury,
              from |-> 0, drained |-> TRUE]

FeedInit ==
    /\ fNow = 1
    /\ fOwners = IF FeedFloats THEN {FeedTreasury} ELSE {}
    /\ fPaid = [p \in FeedPays |-> [to |-> FeedTreasury, at |-> 0]]
    /\ fShown = {}
    /\ fCursor = 0
    /\ fRow = [p \in FeedPays |-> "none"]
    /\ fCycle = IdleCycle
    /\ fFetched = [o \in FeedOwners |-> 1]

-----------------------------------------------------------------------------
(* Users, the chain and the indexer.                                       *)

FeedIssue(o) ==
    /\ o \notin fOwners /\ o # FeedTreasury
    /\ fOwners' = fOwners \cup {o}
    /\ fFetched' = [fFetched EXCEPT ![o] = fNow]
    /\ UNCHANGED <<fNow, fPaid, fShown, fCursor, fRow, fCycle>>

\* Fewer than a page of transfers reach one address at one instant: a feed that
\* pages by time cannot get past more.
FeedPay(p, o) ==
    /\ fPaid[p].at = 0
    /\ o \in fOwners
    /\ Cardinality({q \in FeedPays : fPaid[q] = [to |-> o, at |-> fNow]}) < FeedPage
    /\ fPaid' = [fPaid EXCEPT ![p] = [to |-> o, at |-> fNow]]
    /\ UNCHANGED <<fNow, fOwners, fShown, fCursor, fRow, fCycle, fFetched>>

FeedShow(p) ==
    /\ fPaid[p].at # 0 /\ p \notin fShown
    /\ fShown' = fShown \cup {p}
    /\ UNCHANGED <<fNow, fOwners, fPaid, fCursor, fRow, fCycle, fFetched>>

FeedTick ==
    /\ fNow < FeedMaxTime
    /\ \A p \in FeedPays : fPaid[p].at # 0 /\ p \notin fShown => fNow < fPaid[p].at + FeedLag
    /\ \A o \in fOwners : fNow < fFetched[o] + FeedSkip
    /\ fNow' = fNow + 1
    /\ UNCHANGED <<fOwners, fPaid, fShown, fCursor, fRow, fCycle, fFetched>>

-----------------------------------------------------------------------------
(* scan_once.                                                              *)

\* The first cycle starts the watermark at the present.  With nobody to watch
\* TRON leaves it alone.
FeedStart ==
    /\ fCycle.pc = "idle"
    /\ fOwners # {}
    /\ LET cursor == IF fCursor = 0 THEN fNow ELSE fCursor IN
       /\ fCursor' = cursor
       /\ fCycle' = [IdleCycle EXCEPT !.pc = "next", !.cursor = cursor, !.high = cursor,
                                      !.todo = fOwners]
    /\ UNCHANGED <<fNow, fOwners, fPaid, fShown, fRow, fFetched>>

\* Each owner is drained from a look-back below the watermark.
WindowStart(cursor) == FeedMinus(cursor, FeedLookback)

NextOwner(o) ==
    /\ fCycle.pc = "next" /\ o \in fCycle.todo
    /\ fCycle' = [fCycle EXCEPT !.pc = "page", !.owner = o, !.todo = @ \ {o},
                                !.from = WindowStart(fCycle.cursor)]
    /\ UNCHANGED <<fNow, fOwners, fPaid, fShown, fCursor, fRow, fFetched>>

\* The oldest rows of the owner since `from`, at most a page of them.
FeedRows == {p \in fShown : fPaid[p].to = fCycle.owner /\ fPaid[p].at >= fCycle.from}
IsPage(page) ==
    /\ page \subseteq FeedRows
    /\ Cardinality(page) <= FeedPage
    /\ \A p \in page, q \in FeedRows \ page : fPaid[p].at <= fPaid[q].at
    /\ page # FeedRows => Cardinality(page) = FeedPage
NewestOf(page) == CHOOSE t \in {fPaid[p].at : p \in page} : \A p \in page : fPaid[p].at <= t
Stamp(p) == IF fPaid[p].to = FeedTreasury THEN "reported" ELSE "credited"
CreditPage(rows) == fRow' = [p \in FeedPays |-> IF p \in rows THEN Stamp(p) ELSE fRow[p]]

\* A short page ends the owner; a full one that makes no progress in time too.
PageEnds(page) == Cardinality(page) < FeedPage \/ NewestOf(page) <= fCycle.from

FetchPage ==
    /\ fCycle.pc = "page"
    /\ \E page \in SUBSET FeedRows :
          /\ IsPage(page)
          /\ CreditPage(page)
          /\ LET high == IF page = {} THEN fCycle.high
                         ELSE FeedAtLeast(fCycle.high, NewestOf(page)) IN
             IF PageEnds(page)
             THEN fCycle' = [fCycle EXCEPT !.pc = "next", !.high = high,
                                 !.drained = @ /\ Cardinality(page) < FeedPage]
             ELSE fCycle' = [fCycle EXCEPT !.from = NewestOf(page), !.high = high]
          /\ fFetched' = IF PageEnds(page) THEN [fFetched EXCEPT ![fCycle.owner] = fNow]
                         ELSE fFetched
    /\ UNCHANGED <<fNow, fOwners, fPaid, fShown, fCursor>>

\* One address's fetch fails: it alone is skipped.
FetchFails ==
    /\ "fetch" \in FeedFaults
    /\ fCycle.pc = "page"
    /\ fCycle' = [fCycle EXCEPT !.pc = "next", !.drained = FALSE]
    /\ UNCHANGED <<fNow, fOwners, fPaid, fShown, fCursor, fRow, fFetched>>

\* The watermark after the cycle: the newest transfer seen and, on TON with every
\* owner drained, no lower than a look-back below now (next_watermark).
NextWatermark(high, drained) ==
    FeedAtLeast(high, IF FeedFloats /\ drained THEN FeedMinus(fNow, FeedLookback) ELSE 0)

FeedDone ==
    /\ fCycle.pc = "next" /\ fCycle.todo = {}
    /\ fCursor' = FeedAtLeast(fCycle.cursor, NextWatermark(fCycle.high, fCycle.drained))
    /\ fCycle' = IdleCycle
    /\ UNCHANGED <<fNow, fOwners, fPaid, fShown, fRow, fFetched>>

\* A credit fails or the process dies part-way through a page: some of its rows
\* are in, the watermark is where it was.
FeedStops ==
    /\ "stopped" \in FeedFaults
    /\ fCycle.pc # "idle"
    /\ \E rows \in SUBSET (IF fCycle.pc = "page" THEN FeedRows ELSE {}) : CreditPage(rows)
    /\ fCycle' = IdleCycle
    /\ UNCHANGED <<fNow, fOwners, fPaid, fShown, fCursor, fFetched>>

FeedNext ==
    \/ \E o \in FeedOwners : FeedIssue(o) \/ NextOwner(o) \/ \E p \in FeedPays : FeedPay(p, o)
    \/ \E p \in FeedPays : FeedShow(p)
    \/ FeedTick \/ FeedStart \/ FetchPage \/ FetchFails \/ FeedDone \/ FeedStops

-----------------------------------------------------------------------------
FeedTypeOK ==
    /\ fNow \in 1..FeedMaxTime /\ fCursor \in 0..FeedMaxTime
    /\ fOwners \subseteq FeedOwners
    /\ \A p \in FeedPays : fPaid[p].at \in 0..FeedMaxTime
    /\ fRow \in [FeedPays -> {"none", "credited", "reported"}]
    /\ fCycle.pc \in {"idle", "next", "page"} /\ fCycle.todo \subseteq FeedOwners

(* No transfer that is still uncredited falls below the window the next    *)
(* cycle reads: whatever the indexer's lag, the skipped addresses and the  *)
(* stopped cycles, a busy address never carries the shared watermark past  *)
(* a quiet one's deposit.                                                  *)
NothingFallsBehind ==
    \A p \in FeedPays :
        fPaid[p].at # 0 /\ fRow[p] = "none" /\ fCursor # 0
            => fPaid[p].at >= WindowStart(fCursor)

=============================================================================
