------------------------------- MODULE Window -------------------------------
(***************************************************************************)
(* The migration window: the operator's tool that moves the share units of *)
(* an allocation out of the hub and its cash onto a scope account           *)
(* (src/piggybank/core/src/infrastructure/window_tool/), and the export     *)
(* (window_export.rs) whose file another service, invest, imports.          *)
(*                                                                         *)
(* The hub keeps running meanwhile.  Its calls read the maintenance flag    *)
(* at the gate and write later, its relay goes on applying what is queued,  *)
(* and the operator may open the hub again.  The tool may be stopped        *)
(* between any two of its writes and run again; its transfers carry ids     *)
(* that a rerun computes again.                                             *)
(*                                                                         *)
(* One allocation is modelled: its holders, its fee class, its claim and    *)
(* the scope account the claim is remapped to.                              *)
(***************************************************************************)
EXTENDS Integers, Sequences, FiniteSetsExt, SequencesExt

CONSTANTS
  WinHolders,    \* people holding units of the allocation
  WinHeld,       \* units each of them, and the fee class, starts with
  WinCash,       \* cash on the claim at first
  WinAnchored,   \* whether the allocation is the one whose holders the operator names
  WinOps,        \* what the hub still does: subset of {"mint", "sell", "fee", "reopen"}
  WinMaxOps,     \* bound: hub writes of one behaviour
  WinMaxFiles,   \* bound: exports of one behaviour
  WinCommands,   \* commands the operator runs
  WinFaults      \* subset of {"crash", "live_export"}

VARIABLES
  wReadOnly,     \* operations_mode.read_only
  wCalls,        \* hub calls past their gate and before their write
  wWrites,       \* hub writes so far
  wQueue,        \* outbox rows not dispatched, oldest first
  wOrders,       \* holders with an open sell order
  wUnits,        \* share ledger: units of each account
  wBook,         \* share ledger: units escrowed in the book
  wBurns,        \* amounts a fee burn is recorded for: its idempotency keys
  wExport,       \* the export in progress
  wFiles,        \* the files exported
  wImported,     \* the file invest imported, 0 before it did
  wClosed,       \* closing transfers on the ledger: the units moved, 0 for none
  wRows,         \* window_closures
  wClaim,        \* cash on the allocation's claim
  wLegs,         \* remap chains on the ledger: their ids and amounts
  wOwned,        \* whether the destination is registered in scope_accounts
  wTool,         \* the tool's run that holds the single-run lock
  wDone          \* commands whose run reported success

wvars == <<wReadOnly, wCalls, wWrites, wQueue, wOrders, wUnits, wBook, wBurns, wExport, wFiles,
           wImported, wClosed, wRows, wClaim, wLegs, wOwned, wTool, wDone>>
hubVars == <<wReadOnly, wCalls, wWrites, wOrders>>
fileVars == <<wExport, wFiles, wImported>>
remapVars == <<wClaim, wLegs, wOwned>>

FeeClass == "fee"
Accounts == WinHolders \cup {FeeClass}
Commands == {"drain", "burn", "remap", "close"}
NoFile == 0
NoRun == [cmd |-> "none", pc |-> "none", file |-> 0, open |-> {}, planned |-> 0, debits |-> 0]
Queued(kind, who, n) == [kind |-> kind, who |-> who, n |-> n]
File == [live : BOOLEAN, readOnly : BOOLEAN, clean : BOOLEAN,
         units : [Accounts -> Nat], book : [WinHolders -> Nat]]

\* What the claim was debited over its life: the amounts of the remap chains.
TotalDebits == FoldSet(LAMBDA leg, n : leg.amount + n, 0, wLegs)

-----------------------------------------------------------------------------
(* The hub.                                                                 *)

\* The gate of a money call: the flag is read, and nothing holds it until
\* the call writes.
Admit(op, h) ==
  /\ op \in WinOps \cap {"mint", "sell"}
  /\ ~wReadOnly
  /\ wWrites + Cardinality(wCalls) < WinMaxOps
  /\ wCalls' = wCalls \cup {<<op, h>>}
  /\ UNCHANGED <<wReadOnly, wWrites, wQueue, wOrders, wUnits, wBook, wBurns, fileVars, wClosed, wRows, remapVars, wTool, wDone>>

\* A subscription, or a sell order: the row and the event of its transfers.
WriteCall(op, h) ==
  /\ <<op, h>> \in wCalls
  /\ wCalls' = wCalls \ {<<op, h>>}
  /\ wWrites' = wWrites + 1
  /\ IF op = "sell" /\ (h \in wOrders \/ wUnits[h] = 0)
       THEN UNCHANGED <<wQueue, wOrders>>
       ELSE /\ wQueue' = Append(wQueue, Queued(IF op = "sell" THEN "escrow" ELSE "mint", h, 1))
            /\ wOrders' = IF op = "sell" THEN wOrders \cup {h} ELSE wOrders
  /\ UNCHANGED <<wReadOnly, wUnits, wBook, wBurns, fileVars, wClosed, wRows, remapVars, wTool, wDone>>

\* The fee sweeper's accrual: no user's call, so no gate.
AccrueFee ==
  /\ "fee" \in WinOps
  /\ wWrites + Cardinality(wCalls) < WinMaxOps
  /\ wWrites' = wWrites + 1
  /\ wQueue' = Append(wQueue, Queued("mint", FeeClass, 1))
  /\ UNCHANGED <<wReadOnly, wCalls, wOrders, wUnits, wBook, wBurns, fileVars, wClosed, wRows, remapVars, wTool, wDone>>

\* The relay applies the oldest event whatever the mode; one the ledger does
\* not cover is parked, and its order, if it had one, is off the book.
Relay ==
  /\ wQueue # <<>>
  /\ wQueue' = Tail(wQueue)
  /\ LET e == Head(wQueue)
         covered == CASE e.kind = "mint" -> TRUE
                      [] e.kind = "release" -> wBook[e.who] >= e.n
                      [] OTHER -> wUnits[e.who] >= e.n IN
     /\ wUnits' = IF covered THEN [wUnits EXCEPT ![e.who] = IF e.kind \in {"mint", "release"} THEN @ + e.n ELSE @ - e.n]
                             ELSE wUnits
     /\ wBook' = IF covered /\ e.kind \in {"escrow", "release"}
                   THEN [wBook EXCEPT ![e.who] = IF e.kind = "escrow" THEN @ + e.n ELSE @ - e.n]
                   ELSE wBook
     /\ wOrders' = IF e.kind = "escrow" /\ ~covered THEN wOrders \ {e.who} ELSE wOrders
     /\ wClaim' = IF e.kind = "mint" /\ e.who # FeeClass THEN wClaim + e.n ELSE wClaim
  /\ UNCHANGED <<wReadOnly, wCalls, wWrites, wBurns, fileVars, wClosed, wRows, wLegs, wOwned, wTool, wDone>>

\* Only the hub's operator opens it again; the tool has no such command.
SetReadOnly(on) ==
  /\ wReadOnly # on
  /\ on \/ ("reopen" \in WinOps /\ wWrites < WinMaxOps)
  /\ wReadOnly' = on
  /\ UNCHANGED <<wCalls, wWrites, wQueue, wOrders, wUnits, wBook, wBurns, fileVars, wClosed, wRows, remapVars, wTool, wDone>>

-----------------------------------------------------------------------------
(* The export and the import.                                               *)

\* The Postgres snapshot, before any balance is read.
ExportSnapshot(live) ==
  /\ wExport = <<>>
  /\ Len(wFiles) < WinMaxFiles
  /\ live => "live_export" \in WinFaults
  /\ wReadOnly \/ live
  /\ wExport' = <<[live |-> live, readOnly |-> wReadOnly, quiet |-> wQueue = <<>>]>>
  /\ UNCHANGED <<hubVars, wQueue, wUnits, wBook, wBurns, wFiles, wImported, wClosed, wRows, remapVars, wTool, wDone>>

\* The holdings as the ledger has them now, and the trailer's verdict.
ExportRead ==
  /\ wExport # <<>>
  /\ wFiles' = Append(wFiles, [live |-> wExport[1].live, readOnly |-> wExport[1].readOnly,
                               clean |-> wExport[1].quiet, units |-> wUnits, book |-> wBook])
  /\ wExport' = <<>>
  /\ UNCHANGED <<hubVars, wQueue, wUnits, wBook, wBurns, wImported, wClosed, wRows, remapVars, wTool, wDone>>

\* invest imports a file, once.
Import(f) ==
  /\ wImported = NoFile
  /\ f \in DOMAIN wFiles
  /\ wImported' = f
  /\ UNCHANGED <<hubVars, wQueue, wUnits, wBook, wBurns, wExport, wFiles, wClosed, wRows, remapVars, wTool, wDone>>

-----------------------------------------------------------------------------
(* What every command of the tool checks.                                   *)

\* Nothing left for the hub to finish.
Drained == wOrders = {} /\ wQueue = <<>>

\* The holders the operator named still have what he named: live units, the
\* book's, and the closed ones on record, which the ledger must confirm.
AnchorHolds ==
  WinAnchored => \A h \in WinHolders :
    /\ wRows[h] # 0 => wRows[h] = wClosed[h]
    /\ wUnits[h] + wBook[h] + wRows[h] = WinHeld[h]

Run(cmd, pc) == [NoRun EXCEPT !.cmd = cmd, !.pc = pc]

\* The single-run lock is taken by the runs that write.
Start(cmd) ==
  /\ cmd \in WinCommands
  /\ wTool = NoRun

\* The run ends: with a refusal, or because the process died.
StopRun ==
  /\ wTool # NoRun
  /\ "crash" \in WinFaults
  /\ wTool' = NoRun
  /\ UNCHANGED <<hubVars, wQueue, wUnits, wBook, wBurns, fileVars, wClosed, wRows, remapVars, wDone>>

Ended(ok) ==
  /\ wTool' = NoRun
  /\ wDone' = IF ok THEN wDone \cup {wTool.cmd} ELSE wDone

-----------------------------------------------------------------------------
(* drain and burn-fee-shares: the hub's own commands, one transaction each. *)

StartDrain ==
  /\ Start("drain")
  /\ wReadOnly /\ AnchorHolds
  /\ wTool' = Run("drain", "cancel")
  /\ UNCHANGED <<hubVars, wQueue, wUnits, wBook, wBurns, fileVars, wClosed, wRows, remapVars, wDone>>

CancelOrder(h) ==
  /\ wTool.pc = "cancel" /\ h \in wOrders
  /\ wOrders' = wOrders \ {h}
  /\ wQueue' = Append(wQueue, Queued("release", h, 1))
  /\ UNCHANGED <<wReadOnly, wCalls, wWrites, wUnits, wBook, wBurns, fileVars, wClosed, wRows, remapVars, wTool, wDone>>

\* The orders listed are cancelled; it waits for the outbox as long as it was
\* told to, and reports what is left.
EndDrain ==
  /\ wTool.pc = "cancel" /\ wOrders = {}
  /\ Ended(Drained /\ AnchorHolds)
  /\ UNCHANGED <<hubVars, wQueue, wUnits, wBook, wBurns, fileVars, wClosed, wRows, remapVars>>

StartBurn ==
  /\ Start("burn")
  /\ wReadOnly /\ AnchorHolds
  /\ wTool' = [Run("burn", "retire") EXCEPT !.planned = wUnits[FeeClass]]
  /\ UNCHANGED <<hubVars, wQueue, wUnits, wBook, wBurns, fileVars, wClosed, wRows, remapVars, wDone>>

\* The key names the product and the amount: a rerun before the relay
\* applied it finds its row.
RetireUnits ==
  /\ wTool.pc = "retire"
  /\ IF wTool.planned = 0 \/ wTool.planned \in wBurns
       THEN UNCHANGED <<wBurns, wQueue>>
       ELSE /\ wBurns' = wBurns \cup {wTool.planned}
            /\ wQueue' = Append(wQueue, Queued("burn", FeeClass, wTool.planned))
  /\ wTool' = [wTool EXCEPT !.pc = "burnt"]
  /\ UNCHANGED <<hubVars, wUnits, wBook, fileVars, wClosed, wRows, remapVars, wDone>>

EndBurn ==
  /\ wTool.pc = "burnt"
  /\ Ended(wUnits[FeeClass] = 0 /\ AnchorHolds)
  /\ UNCHANGED <<hubVars, wQueue, wUnits, wBook, wBurns, fileVars, wClosed, wRows, remapVars>>

-----------------------------------------------------------------------------
(* remap: the claim's cash, in one chain, inside the transaction that       *)
(* registers its destination.                                               *)

RemapPlan ==
  /\ Start("remap")
  /\ wReadOnly /\ Drained /\ AnchorHolds
  /\ wTool' = [Run("remap", "apply") EXCEPT !.planned = wClaim, !.debits = TotalDebits]
  /\ UNCHANGED <<hubVars, wQueue, wUnits, wBook, wBurns, fileVars, wClosed, wRows, remapVars, wDone>>

\* The chain's id names the claim and what it was debited so far.
LegId(run) == run.debits

\* The claim is read again under its lock; the chain is refused when its id
\* is on the ledger with another amount, and taken as posted when it is the
\* same.
RemapApply ==
  /\ wTool.pc = "apply"
  /\ LET leg == [id |-> LegId(wTool), amount |-> wTool.planned]
         known == {l \in wLegs : l.id = leg.id} IN
     IF wClaim # wTool.planned \/ (wTool.planned > 0 /\ known # {} /\ known # {leg})
       THEN Ended(FALSE) /\ UNCHANGED <<wClaim, wLegs>>
       ELSE /\ IF wTool.planned > 0 /\ known = {}
                 THEN wLegs' = wLegs \cup {leg} /\ wClaim' = wClaim - leg.amount
                 ELSE UNCHANGED <<wClaim, wLegs>>
            /\ wTool' = [wTool EXCEPT !.pc = "commit"]
            /\ UNCHANGED wDone
  /\ UNCHANGED <<hubVars, wQueue, wUnits, wBook, wBurns, fileVars, wClosed, wRows, wOwned>>

RemapCommit ==
  /\ wTool.pc = "commit"
  /\ wOwned' = TRUE
  /\ wTool' = [wTool EXCEPT !.pc = "verify"]
  /\ UNCHANGED <<hubVars, wQueue, wUnits, wBook, wBurns, fileVars, wClosed, wRows, wClaim, wLegs, wDone>>

RemapVerify ==
  /\ wTool.pc = "verify"
  /\ Ended(wClaim = 0 /\ AnchorHolds)
  /\ UNCHANGED <<hubVars, wQueue, wUnits, wBook, wBurns, fileVars, wClosed, wRows, remapVars>>

-----------------------------------------------------------------------------
(* close-share-accounts: what the imported file lists leaves the ledger.    *)

\* A file that can be closed: a maintenance cut, whole, drained, and with
\* nothing resting in the book.
Readable(file) == ~file.live /\ file.readOnly /\ file.clean /\ \A h \in WinHolders : file.book[h] = 0

\* The file is the one whose digest the operator got from invest.
DigestMatches(f) == f = wImported

Listed(file) == {a \in Accounts : file.units[a] > 0}

StartClose(f) ==
  /\ Start("close")
  /\ f \in DOMAIN wFiles /\ Readable(wFiles[f]) /\ DigestMatches(f)
  /\ WinAnchored => \A h \in WinHolders : wFiles[f].units[h] = WinHeld[h]
  /\ wReadOnly /\ Drained
  /\ wTool' = [Run("close", "classify") EXCEPT !.file = f]
  /\ UNCHANGED <<hubVars, wQueue, wUnits, wBook, wBurns, fileVars, wClosed, wRows, remapVars, wDone>>

\* An account is as the file has it, or closed with what the file has.
StillOpen(a, n) == wUnits[a] = n /\ wClosed[a] = 0
AlreadyClosed(a, n) == wUnits[a] = 0 /\ wClosed[a] = n

\* Every listed account is classified, and the ledger must hold no units the
\* file does not list.
Classify ==
  /\ wTool.pc = "classify"
  /\ LET units == wFiles[wTool.file].units
         listed == Listed(wFiles[wTool.file])
         open == {a \in listed : StillOpen(a, units[a])} IN
     IF /\ \A a \in listed \ open : AlreadyClosed(a, units[a])
        /\ \A a \in Accounts \ listed : wUnits[a] = 0
        /\ \A h \in WinHolders : wBook[h] = 0
       THEN wTool' = [wTool EXCEPT !.pc = "missing", !.open = open] /\ UNCHANGED wDone
       ELSE Ended(FALSE)
  /\ UNCHANGED <<hubVars, wQueue, wUnits, wBook, wBurns, fileVars, wClosed, wRows, remapVars>>

\* A row is written from the ledger's transfer, which must be the file's.
RecordClosed(a) ==
  /\ wTool.pc \in {"missing", "record"}
  /\ a \in Listed(wFiles[wTool.file]) /\ wRows[a] = 0
  /\ wTool.pc = "missing" => a \notin wTool.open
  /\ IF wTool.pc = "record" /\ wClosed[a] # wFiles[wTool.file].units[a]
       THEN Ended(FALSE) /\ UNCHANGED wRows
       ELSE wRows' = [wRows EXCEPT ![a] = wClosed[a]] /\ UNCHANGED <<wTool, wDone>>
  /\ UNCHANGED <<hubVars, wQueue, wUnits, wBook, wBurns, fileVars, wClosed, remapVars>>

\* The rows an earlier run did not get to come before the anchor is read:
\* without them the closed holders would be missing from it.
CloseAnchored ==
  /\ wTool.pc = "missing"
  /\ \A a \in Listed(wFiles[wTool.file]) \ wTool.open : wRows[a] # 0
  /\ IF AnchorHolds
       THEN wTool' = [wTool EXCEPT !.pc = "post"] /\ UNCHANGED wDone
       ELSE Ended(FALSE)
  /\ UNCHANGED <<hubVars, wQueue, wUnits, wBook, wBurns, fileVars, wClosed, wRows, remapVars>>

\* One chain closes the accounts still open; an account that no longer
\* covers its leg refuses all of it.
PostClosing ==
  /\ wTool.pc = "post"
  /\ LET units == wFiles[wTool.file].units IN
     IF \A a \in wTool.open : wUnits[a] >= units[a]
       THEN /\ wUnits' = [a \in Accounts |-> IF a \in wTool.open THEN wUnits[a] - units[a] ELSE wUnits[a]]
            /\ wClosed' = [a \in Accounts |-> IF a \in wTool.open THEN units[a] ELSE wClosed[a]]
            /\ wTool' = [wTool EXCEPT !.pc = "record"]
            /\ UNCHANGED wDone
       ELSE Ended(FALSE) /\ UNCHANGED <<wUnits, wClosed>>
  /\ UNCHANGED <<hubVars, wQueue, wBook, wBurns, fileVars, wRows, remapVars>>

EndClose ==
  /\ wTool.pc = "record"
  /\ \A a \in Listed(wFiles[wTool.file]) : wRows[a] # 0
  /\ Ended(/\ \A a \in Accounts : wUnits[a] = 0
           /\ \A h \in WinHolders : wBook[h] = 0
           /\ AnchorHolds)
  /\ UNCHANGED <<hubVars, wQueue, wUnits, wBook, wBurns, fileVars, wClosed, wRows, remapVars>>

-----------------------------------------------------------------------------
WinInit ==
  /\ wReadOnly = FALSE
  /\ wCalls = {} /\ wWrites = 0 /\ wQueue = <<>> /\ wOrders = {}
  /\ wUnits = WinHeld /\ wBook = [h \in WinHolders |-> 0] /\ wBurns = {}
  /\ wExport = <<>> /\ wFiles = <<>> /\ wImported = NoFile
  /\ wClosed = [a \in Accounts |-> 0] /\ wRows = [a \in Accounts |-> 0]
  /\ wClaim = WinCash /\ wLegs = {} /\ wOwned = FALSE
  /\ wTool = NoRun /\ wDone = {}

HubStep ==
  \/ \E op \in {"mint", "sell"}, h \in WinHolders : Admit(op, h) \/ WriteCall(op, h)
  \/ AccrueFee \/ Relay
  \/ \E on \in BOOLEAN : SetReadOnly(on)

FileStep ==
  \/ \E live \in BOOLEAN : ExportSnapshot(live)
  \/ ExportRead
  \/ \E f \in 1 .. WinMaxFiles : Import(f)

ToolStep ==
  \/ StartDrain \/ EndDrain \/ StartBurn \/ RetireUnits \/ EndBurn
  \/ \E h \in WinHolders : CancelOrder(h)
  \/ RemapPlan \/ RemapApply \/ RemapCommit \/ RemapVerify
  \/ \E f \in 1 .. WinMaxFiles : StartClose(f)
  \/ Classify \/ CloseAnchored \/ PostClosing \/ EndClose
  \/ \E a \in Accounts : RecordClosed(a)
  \/ StopRun

WinNext == HubStep \/ FileStep \/ ToolStep
WinSpec == WinInit /\ [][WinNext]_wvars

-----------------------------------------------------------------------------
(* Every register has its type.  *)
WinTypeOK ==
  /\ wReadOnly \in BOOLEAN /\ wOwned \in BOOLEAN
  /\ wCalls \subseteq {"mint", "sell"} \X WinHolders /\ wWrites \in 0 .. WinMaxOps
  /\ \A i \in DOMAIN wQueue : wQueue[i].kind \in {"mint", "escrow", "release", "burn"} /\ wQueue[i].who \in Accounts
  /\ wOrders \subseteq WinHolders
  /\ wUnits \in [Accounts -> Nat] /\ wBook \in [WinHolders -> Nat] /\ wBurns \subseteq Nat
  /\ wFiles \in Seq(File) /\ wImported \in 0 .. Len(wFiles)
  /\ wClosed \in [Accounts -> Nat] /\ wRows \in [Accounts -> Nat]
  /\ wClaim \in Nat
  /\ wTool.cmd \in Commands \cup {"none"} /\ wDone \subseteq Commands

(* What left the share ledger is what invest imported: every closing        *)
(* transfer moved exactly the units the imported file lists, and that file  *)
(* was a clean cut taken in maintenance (close.rs: parse_export, the digest *)
(* check, classify), whatever the hub wrote late and whichever run died.    *)
ClosedIsImported ==
  \A a \in Accounts : wClosed[a] # 0 =>
    /\ wImported # NoFile
    /\ Readable(wFiles[wImported])
    /\ wClosed[a] = wFiles[wImported].units[a]

(* A closure on record is a transfer on the ledger of the same units, and a *)
(* close that reported success left nothing of the file unrecorded          *)
(* (record_closed, run).                                                    *)
RowsFollowLedger ==
  /\ \A a \in Accounts : wRows[a] # 0 => wRows[a] = wClosed[a]
  /\ "close" \in wDone => \A a \in Accounts : wRows[a] = wFiles[wImported].units[a]

(* Cash that reaches the claim after a remap can be remapped too: the chain *)
(* the next plan computes is not one already on the ledger (Step::legs), and*)
(* what a finished remap moved has a registered owner (open_row).           *)
RemapStaysOpen ==
  /\ wClaim > 0 => \A l \in wLegs : l.id # LegId([Run("remap", "apply") EXCEPT !.debits = TotalDebits])
  /\ "remap" \in wDone => wOwned

(* The window keeps its promise to both sides.  *)
WindowSafe == ClosedIsImported /\ RowsFollowLedger /\ RemapStaysOpen
=============================================================================
