------------------------ MODULE ScopePostingsProofs ------------------------
(***************************************************************************)
(* Proofs about ScopePostings, for any postings of any kinds and amounts   *)
(* over any accounts, any number of relay replicas and reapers, and every  *)
(* fault but the loss of the relay's lock under its holder.                *)
(***************************************************************************)
EXTENDS ScopePostings, SequenceTheorems, Sums

\* The advisory lock is not lost under its holder (see README).
LockKept == "lock_drop" \notin Faults

\* The row still waits for this very attempt.
Pend(t) == row[t[1]] = "pending" /\ ver[t[1]] = t[2]

Working == {"applied", "window", "leg", "step", "event", "posted", "failed",
            "park", "park_row", "park_unrecorded"}
Before  == {"window", "leg", "failed", "park", "park_row"}
After   == {"step", "event", "posted", "park_unrecorded"}

\* An invoice keeps room under the bound for the versions ahead of it.
VersionFits(p) ==
    /\ row[p] = "open" => p \in Invoices
    /\ p \in Invoices /\ row[p] = "open" => ver[p] < MaxVersion
    /\ p \in Invoices /\ row[p] = "pending" => ver[p] + 1 < MaxVersion

\* A request in progress is for a row no one else decides.
ClaimFits(a) ==
    claim[a].stage # "free" =>
        /\ claim[a].for \in Postings \ Routes
        /\ From[claim[a].for] = a
        /\ row[claim[a].for] = IF claim[a].for \in Invoices THEN "open" ELSE "none"
        /\ claim[a].for \in Invoices => ver[claim[a].for] + 2 < MaxVersion

\* What the ledger holds of an attempt agrees with its row, its steps and its
\* money event.
AttemptAgrees(t) ==
    /\ OnLedger(t) => row[t[1]] \in {"pending", "posted"} /\ ver[t[1]] = t[2]
    /\ (\E s \in steps : s[2] = t) => OnLedger(t)
    /\ row[t[1]] = "posted" /\ ver[t[1]] = t[2] => OnLedger(t) /\ (Announced(t) => t \in money)

\* What the relay read still holds when it acts on it.
RelayFits(r) ==
    /\ at[r] # "acquire" => lock = {r}
    /\ at[r] \notin {"acquire", "ready"} => cur[r] \in DOMAIN outbox
    /\ at[r] \in Working => Pend(Attempt(r))
    /\ at[r] \in Before => ~OnLedger(Attempt(r))
    /\ at[r] \in After => OnLedger(Attempt(r))
    /\ at[r] = "step" => \A s \in steps : s[2] # Attempt(r)
    /\ at[r] = "posted" /\ Announced(Attempt(r)) => Attempt(r) \in money

\* The inductive invariant.
IInv ==
    /\ TypeOK
    /\ \A p \in Postings : VersionFits(p)
    /\ \A a \in Accounts : ClaimFits(a)
    /\ \A t \in Attempts : AttemptAgrees(t)
    /\ \A r \in Relays : RelayFits(r)

-----------------------------------------------------------------------------
(***************************************************************************)
(* The queue and the ledger only grow.                                     *)
(***************************************************************************)
QueueKept ==
    /\ outbox' \in Seq(Attempts) /\ tries' \in Seq(0..MaxTries) /\ Len(tries') = Len(outbox')
    /\ DOMAIN outbox \subseteq DOMAIN outbox'
    /\ \A i \in DOMAIN outbox : outbox'[i] = outbox[i]

\* Enqueueing an attempt leaves the rows of the queue as they are.
LEMMA EnqueueKeeps ==
    ASSUME TypeOK, NEW t \in Attempts, Enqueue(t)
    PROVE  QueueKept
<1>1. outbox \in Seq(Attempts) /\ tries \in Seq(0..MaxTries) /\ Len(tries) = Len(outbox)
  BY DEF TypeOK
<1>2. outbox' = Append(outbox, t) /\ tries' = Append(tries, 0)
  BY DEF Enqueue
<1>3. 0 \in 0..MaxTries
  BY PostingBounds
<1>4. outbox' \in Seq(Attempts) /\ Len(outbox') = Len(outbox) + 1
  BY <1>1, <1>2
<1>5. tries' \in Seq(0..MaxTries) /\ Len(tries') = Len(tries) + 1
  BY <1>1, <1>2, <1>3
<1>6. DOMAIN outbox = 1..Len(outbox) /\ DOMAIN outbox' = 1..(Len(outbox) + 1)
  BY <1>1, <1>4
<1>7. \A i \in DOMAIN outbox : outbox'[i] = outbox[i]
  BY <1>1, <1>2, <1>6
<1> QED BY <1>1, <1>4, <1>5, <1>6, <1>7 DEF QueueKept

\* A queue that does not change is kept.
LEMMA StillKeeps ==
    ASSUME TypeOK, UNCHANGED <<outbox, tries>>
    PROVE  QueueKept
BY DEF TypeOK, QueueKept

\* Counting a row's tries leaves the sequence of counts one per row.
LEMMA TriesKept ==
    ASSUME TypeOK, NEW i \in DOMAIN outbox, NEW n \in 0..MaxTries,
           tries' = [tries EXCEPT ![i] = n]
    PROVE  tries' \in Seq(0..MaxTries) /\ Len(tries') = Len(tries)
<1>1. tries \in Seq(0..MaxTries) /\ outbox \in Seq(Attempts) /\ Len(tries) = Len(outbox)
  BY DEF TypeOK
<1>2. i \in 1..Len(tries)
  BY <1>1
<1> QED BY <1>1, <1>2, ExceptSeq

\* A leg the ledger creates is the only new one there.
LEMMA LedgerGrows ==
    ASSUME TypeOK, NEW t \in Attempts, ledger' = Append(ledger, t)
    PROVE  /\ ledger' \in Seq(Attempts)
           /\ \A u \in Attempts : OnLedger(u)' <=> OnLedger(u) \/ u = t
<1>1. ledger \in Seq(Attempts)
  BY DEF TypeOK
<1>2. ledger' \in Seq(Attempts) /\ Len(ledger') = Len(ledger) + 1
  BY <1>1
<1>3. DOMAIN ledger = 1..Len(ledger) /\ DOMAIN ledger' = 1..(Len(ledger) + 1)
  BY <1>1, <1>2
<1>4. Len(ledger) \in Nat /\ ledger'[Len(ledger) + 1] = t
  BY <1>1
<1>5. \A i \in DOMAIN ledger : ledger'[i] = ledger[i]
  BY <1>1, <1>3
<1>6. ASSUME NEW u \in Attempts PROVE OnLedger(u)' <=> OnLedger(u) \/ u = t
  <2>1. OnLedger(u)' <=> \E i \in DOMAIN ledger' : ledger'[i] = u
    BY DEF OnLedger
  <2>2. \A i \in DOMAIN ledger' : i \in DOMAIN ledger \/ i = Len(ledger) + 1
    BY <1>3, <1>4
  <2>3. DOMAIN ledger \subseteq DOMAIN ledger' /\ Len(ledger) + 1 \in DOMAIN ledger'
    BY <1>3, <1>4
  <2> QED BY <2>1, <2>2, <2>3, <1>4, <1>5 DEF OnLedger
<1> QED BY <1>2, <1>6

\* TigerBeetle answers Exists exactly for a leg it holds.
LEMMA Answers ==
    ASSUME NEW t \in Attempts
    PROVE  /\ OnLedger(t) => Answer(t) = "exists"
           /\ ~OnLedger(t) => Answer(t) \in {"created", "insufficient", "already_failed"}
BY DEF Answer

\* The attempt in a working relay's hand, and the parts of an attempt.
LEMMA InHand ==
    ASSUME TypeOK, NEW r \in Relays, cur[r] \in DOMAIN outbox
    PROVE  Attempt(r) \in Attempts /\ Attempt(r)[1] \in Postings /\ Attempt(r)[2] \in 1..MaxVersion
<1>1. outbox \in Seq(Attempts)
  BY DEF TypeOK
<1>2. outbox[cur[r]] \in Attempts
  BY <1>1
<1> QED BY <1>2 DEF Attempt, Attempts

-----------------------------------------------------------------------------
(***************************************************************************)
(* What a step that is not the relay's leaves alone.                       *)
(***************************************************************************)
RowsKept ==
    \A p \in Postings :
        /\ row[p] \in {"pending", "posted"} => row'[p] = row[p] /\ ver'[p] = ver[p]
        /\ row'[p] = "posted" => row[p] = "posted"

\* A relay at a label keeps what it read when rows waiting and posted are kept.
LEMMA RelaysKept ==
    ASSUME IInv, RowsKept, QueueKept, UNCHANGED <<lock, at, cur, steps, ledger, money>>
    PROVE  \A r \in Relays : RelayFits(r)'
<1> SUFFICES ASSUME NEW r \in Relays PROVE RelayFits(r)'
  OBVIOUS
<1>1. RelayFits(r) /\ TypeOK
  BY DEF IInv
<1>2. CASE at[r] \in {"acquire", "ready"}
  BY <1>1, <1>2 DEF RelayFits, Working, Before, After
<1>3. CASE at[r] \notin {"acquire", "ready"}
  <2>1. cur[r] \in DOMAIN outbox
    BY <1>1, <1>3 DEF RelayFits
  <2>2. Attempt(r)' = Attempt(r) /\ cur'[r] \in DOMAIN outbox'
    BY <2>1 DEF QueueKept, Attempt
  <2>3. Attempt(r)[1] \in Postings
    BY <2>1, <1>1, InHand
  <2>4. Pend(Attempt(r)) => Pend(Attempt(r))'
    BY <2>2, <2>3 DEF Pend, RowsKept
  <2>5. OnLedger(Attempt(r))' <=> OnLedger(Attempt(r))
    BY <2>2 DEF OnLedger
  <2>6. Announced(Attempt(r))' <=> Announced(Attempt(r))
    BY <2>2 DEF Announced
  <2> QED BY <1>1, <2>2, <2>4, <2>5, <2>6 DEF RelayFits
<1> QED BY <1>2, <1>3

\* The ledger agrees with rows that are kept.
LEMMA AttemptsKept ==
    ASSUME IInv, RowsKept, UNCHANGED <<steps, ledger, money>>
    PROVE  \A t \in Attempts : AttemptAgrees(t)'
<1> SUFFICES ASSUME NEW t \in Attempts PROVE AttemptAgrees(t)'
  OBVIOUS
<1>1. AttemptAgrees(t)
  BY DEF IInv
<1>2. t[1] \in Postings
  BY DEF Attempts
<1>3. OnLedger(t)' <=> OnLedger(t)
  BY DEF OnLedger
<1>4. Announced(t)' <=> Announced(t)
  BY DEF Announced
<1> QED BY <1>1, <1>2, <1>3, <1>4 DEF AttemptAgrees, RowsKept

\* A claim stands while the rows no one has decided are kept.
LEMMA ClaimsKept ==
    ASSUME IInv, UNCHANGED claim,
           \A p \in Postings \ Routes :
               row[p] \in {"none", "open"} => row'[p] = row[p] /\ ver'[p] = ver[p]
    PROVE  \A a \in Accounts : ClaimFits(a)'
<1> SUFFICES ASSUME NEW a \in Accounts PROVE ClaimFits(a)'
  OBVIOUS
<1>1. ClaimFits(a)
  BY DEF IInv
<1> QED BY <1>1 DEF ClaimFits

\* Versions fit while rows and versions are as they were.
LEMMA VersionsKept ==
    ASSUME IInv, UNCHANGED <<row, ver>>
    PROVE  \A p \in Postings : VersionFits(p)'
<1> SUFFICES ASSUME NEW p \in Postings PROVE VersionFits(p)'
  OBVIOUS
<1> QED BY DEF IInv, VersionFits

\* The invariant after a step that leaves every row alone.
LEMMA Quiet ==
    ASSUME IInv, TypeOK', QueueKept, UNCHANGED <<row, ver, claim, steps, ledger, money>>,
           \A r \in Relays : RelayFits(r)'
    PROVE  IInv'
<1>1. RowsKept
  BY DEF RowsKept
<1>2. \A t \in Attempts : AttemptAgrees(t)'
  BY <1>1, AttemptsKept
<1>3. \A a \in Accounts : ClaimFits(a)'
  BY ClaimsKept
<1> QED BY <1>2, <1>3, VersionsKept DEF IInv

\* The invariant after a step that leaves the rows and the relays alone.
LEMMA QuietClient ==
    ASSUME IInv, TypeOK', QueueKept,
           UNCHANGED <<row, ver, claim, lock, at, cur, steps, ledger, money>>
    PROVE  IInv'
<1>1. RowsKept
  BY DEF RowsKept
<1> QED BY <1>1, RelaysKept, Quiet

-----------------------------------------------------------------------------
(***************************************************************************)
(* Requests, the environment, the reaper.                                  *)
(***************************************************************************)
\* LockClaim takes a claim for a row no one has decided.
LEMMA LockClaimStep ==
    ASSUME IInv, NEW p \in Postings, LockClaim(p)
    PROVE  IInv'
<1>1. TypeOK /\ Requestable(p) /\ From[p] \in Accounts
  BY PostingAssumption DEF IInv, LockClaim
<1>2. claim' = [claim EXCEPT ![From[p]] =
                   [stage |-> "locked", for |-> p, counted |-> Unapplied(From[p])]]
  BY DEF LockClaim
<1>3. UNCHANGED <<row, ver, late, opened, outbox, dispatched, parked, tries, steps, ledger, refused,
                  deposited, foreign, money, lock, at, cur, batch, scan>>
  BY DEF LockClaim, rowVars, tbVars, relayVars
<1>4. Unapplied(From[p]) \subseteq Postings
  BY DEF Unapplied
<1>5. claim' \in [Accounts -> [stage : {"free", "locked", "admitted"},
                               for : Postings \cup {NoPosting}, counted : SUBSET Postings]]
  BY <1>1, <1>2, <1>4 DEF TypeOK
<1>6. TypeOK'
  BY <1>1, <1>3, <1>5 DEF TypeOK
<1>7. QueueKept
  BY <1>1, <1>3, StillKeeps
<1>8. RowsKept
  BY <1>3 DEF RowsKept
<1>9. p \notin Routes /\ row[p] = (IF p \in Invoices THEN "open" ELSE "none")
                      /\ (p \in Invoices => ver[p] + 2 < MaxVersion)
  BY <1>1 DEF Requestable, Routes, Invoices
<1>10. ASSUME NEW a \in Accounts PROVE ClaimFits(a)'
  <2>1. ClaimFits(a)
    BY DEF IInv
  <2>2. CASE a = From[p]
    <3>1. claim'[a].for = p
      BY <1>1, <1>2, <2>2 DEF TypeOK
    <3> QED BY <1>3, <1>9, <2>2, <3>1 DEF ClaimFits
  <2>3. CASE a # From[p]
    <3>1. claim'[a] = claim[a]
      BY <1>1, <1>2, <2>3 DEF TypeOK
    <3> QED BY <1>3, <2>1, <3>1 DEF ClaimFits
  <2> QED BY <2>2, <2>3
<1> QED BY <1>3, <1>6, <1>7, <1>8, <1>10, VersionsKept, AttemptsKept, RelaysKept DEF IInv

\* ReadLedger and Rollback only move or free the claim.
LEMMA ReadLedgerStep ==
    ASSUME IInv, NEW a \in Accounts, ReadLedger(a) \/ Rollback(a)
    PROVE  IInv'
<1>1. TypeOK
  BY DEF IInv
<1>2. UNCHANGED <<row, ver, late, opened, outbox, dispatched, parked, tries, steps, ledger, refused,
                  deposited, foreign, money, lock, at, cur, batch, scan>>
  BY DEF ReadLedger, Rollback, rowVars, tbVars, relayVars
<1>3. claim[a].stage # "free"
  BY DEF ReadLedger, Rollback
<1>4. PICK c \in {[claim[a] EXCEPT !.stage = "admitted"], Free} : claim' = [claim EXCEPT ![a] = c]
  BY DEF ReadLedger, Rollback
<1>5. claim[a] \in [stage : {"free", "locked", "admitted"},
                    for : Postings \cup {NoPosting}, counted : SUBSET Postings]
  BY <1>1 DEF TypeOK
<1>6. c \in [stage : {"free", "locked", "admitted"},
             for : Postings \cup {NoPosting}, counted : SUBSET Postings]
  BY <1>5 DEF Free
<1>7. claim' \in [Accounts -> [stage : {"free", "locked", "admitted"},
                               for : Postings \cup {NoPosting}, counted : SUBSET Postings]]
  BY <1>1, <1>4, <1>6 DEF TypeOK
<1>8. TypeOK'
  BY <1>1, <1>2, <1>7 DEF TypeOK
<1>9. c.stage = "free" \/ c.for = claim[a].for
  BY <1>5 DEF Free
<1>10. ASSUME NEW b \in Accounts PROVE ClaimFits(b)'
  <2>1. ClaimFits(b)
    BY DEF IInv
  <2>2. claim'[b] = claim[b] \/ (b = a /\ claim'[b] = c)
    BY <1>1, <1>4 DEF TypeOK
  <2> QED BY <1>2, <1>3, <1>9, <2>1, <2>2 DEF ClaimFits
<1>11. QueueKept
  BY <1>1, <1>2, StillKeeps
<1>12. RowsKept
  BY <1>2 DEF RowsKept
<1> QED BY <1>2, <1>8, <1>10, <1>11, <1>12, VersionsKept, AttemptsKept, RelaysKept DEF IInv

\* Record makes a row pending that no one else had decided, with its event.
LEMMA RecordStepOK ==
    ASSUME IInv, NEW a \in Accounts, Record(a)
    PROVE  IInv'
<1> DEFINE p == claim[a].for
           v == IF p \in Invoices THEN ver[p] + 1 ELSE ver[p]
<1>1. TypeOK /\ ClaimFits(a) /\ claim[a].stage = "admitted"
  BY DEF IInv, Record
<1>2. p \in Postings \ Routes /\ From[p] = a /\ (p \in Invoices => ver[p] + 2 < MaxVersion)
      /\ row[p] \in {"none", "open"}
  BY <1>1 DEF ClaimFits
<1>3. row' = [row EXCEPT ![p] = "pending"] /\ ver' = [ver EXCEPT ![p] = v] /\ Enqueue(<<p, v>>)
      /\ claim' = [claim EXCEPT ![a] = Free]
  BY DEF Record
<1>4. UNCHANGED <<late, opened, dispatched, parked, steps, ledger, refused, deposited, foreign, money,
                  lock, at, cur, batch, scan>>
  BY DEF Record, tbVars, relayVars
<1>5. ver[p] \in 1..MaxVersion /\ MaxVersion \in Nat
  BY <1>1, <1>2, PostingBounds DEF TypeOK
<1>6. v \in 1..MaxVersion
  BY <1>2, <1>5
<1>7. <<p, v>> \in Attempts
  BY <1>2, <1>6 DEF Attempts
<1> HIDE DEF p, v
<1>8. QueueKept
  BY <1>1, <1>3, <1>7, EnqueueKeeps
<1>9. Free \in [stage : {"free", "locked", "admitted"},
                for : Postings \cup {NoPosting}, counted : SUBSET Postings]
  BY DEF Free
<1>10. row' \in [Postings -> {"none", "open", "pending", "posted", "failed", "missing",
                              "cancelled", "expired"}] /\ ver' \in [Postings -> 1..MaxVersion]
  BY <1>1, <1>3, <1>6 DEF TypeOK
<1>11. claim' \in [Accounts -> [stage : {"free", "locked", "admitted"},
                                for : Postings \cup {NoPosting}, counted : SUBSET Postings]]
  BY <1>1, <1>3, <1>9 DEF TypeOK
<1>12. TypeOK'
  BY <1>1, <1>4, <1>8, <1>10, <1>11 DEF TypeOK, QueueKept
<1>13. \A q \in Postings : q # p => row'[q] = row[q] /\ ver'[q] = ver[q]
  BY <1>1, <1>3 DEF TypeOK
<1>14. row'[p] = "pending" /\ ver'[p] = v
  BY <1>1, <1>2, <1>3 DEF TypeOK
<1>15. RowsKept
  BY <1>2, <1>13, <1>14 DEF RowsKept
<1>16. ASSUME NEW q \in Postings PROVE VersionFits(q)'
  <2>1. VersionFits(q)
    BY DEF IInv
  <2>2. CASE q = p
    <3>1. p \in Invoices => ver'[p] + 1 < MaxVersion
      BY <1>2, <1>5, <1>14 DEF v
    <3> QED BY <1>14, <2>2, <3>1 DEF VersionFits
  <2>3. CASE q # p
    BY <1>13, <2>1, <2>3 DEF VersionFits
  <2> QED BY <2>2, <2>3
<1>17. ASSUME NEW b \in Accounts PROVE ClaimFits(b)'
  <2>1. ClaimFits(b)
    BY DEF IInv
  <2>2. CASE b = a
    <3>1. claim'[b].stage = "free"
      BY <1>1, <1>3, <2>2 DEF TypeOK, Free
    <3> QED BY <3>1 DEF ClaimFits
  <2>3. CASE b # a
    <3>1. claim'[b] = claim[b]
      BY <1>1, <1>3, <2>3 DEF TypeOK
    <3>2. claim[b].stage # "free" => claim[b].for \in Postings /\ claim[b].for # p
      BY <1>2, <2>1, <2>3 DEF ClaimFits
    <3> QED BY <1>13, <2>1, <3>1, <3>2 DEF ClaimFits
  <2> QED BY <2>2, <2>3
<1> QED BY <1>4, <1>8, <1>12, <1>15, <1>16, <1>17, AttemptsKept, RelaysKept DEF IInv

\* An invoice is issued, cancelled or expired only outside a payment of it.
LEMMA InvoiceStepOK ==
    ASSUME IInv, NEW p \in Invoices, IssueInvoice(p) \/ CancelInvoice(p) \/ ExpireInvoice(p)
    PROVE  IInv'
<1>1. TypeOK /\ p \in Postings /\ MaxVersion \in Nat /\ MaxVersion > 1
  BY PostingBounds DEF IInv, Invoices
<1>2. PICK to \in {"open", "cancelled", "expired"}, v \in {1, ver[p] + 1} :
          /\ row' = [row EXCEPT ![p] = to] /\ ver' = [ver EXCEPT ![p] = v]
          /\ to = "open" => v = 1
          /\ v # 1 => row[p] = "open"
  BY DEF IssueInvoice, CancelInvoice, ExpireInvoice, InvoiceStep
<1>3. row[p] \in {"none", "open"} /\ claim[From[p]].for # p
  BY DEF IssueInvoice, CancelInvoice, ExpireInvoice, InvoiceStep
<1>4. UNCHANGED <<late, claim, opened, outbox, dispatched, parked, tries, steps, ledger, refused,
                  deposited, foreign, money, lock, at, cur, batch, scan>>
  BY DEF IssueInvoice, CancelInvoice, ExpireInvoice, InvoiceStep, rowVars, tbVars, relayVars
<1>5. v \in 1..MaxVersion
  <2>1. VersionFits(p) /\ ver[p] \in 1..MaxVersion
    BY <1>1 DEF IInv, TypeOK
  <2> QED BY <1>1, <1>2, <2>1 DEF VersionFits
<1>6. row' \in [Postings -> {"none", "open", "pending", "posted", "failed", "missing",
                             "cancelled", "expired"}] /\ ver' \in [Postings -> 1..MaxVersion]
  BY <1>1, <1>2, <1>5 DEF TypeOK
<1>7. TypeOK'
  BY <1>1, <1>4, <1>6 DEF TypeOK
<1>8. \A q \in Postings : q # p => row'[q] = row[q] /\ ver'[q] = ver[q]
  BY <1>1, <1>2 DEF TypeOK
<1>9. row'[p] = to /\ ver'[p] = v
  BY <1>1, <1>2 DEF TypeOK
<1>10. RowsKept
  BY <1>3, <1>8, <1>9 DEF RowsKept
<1>11. ASSUME NEW q \in Postings PROVE VersionFits(q)'
  <2>1. VersionFits(q)
    BY DEF IInv
  <2> QED BY <1>1, <1>2, <1>8, <1>9, <2>1 DEF VersionFits
<1>12. ASSUME NEW a \in Accounts PROVE ClaimFits(a)'
  <2>1. ClaimFits(a)
    BY DEF IInv
  <2>2. claim[a].stage # "free" => claim[a].for \in Postings /\ claim[a].for # p
    BY <1>3, <2>1 DEF ClaimFits
  <2> QED BY <1>4, <1>8, <2>1, <2>2 DEF ClaimFits
<1>13. QueueKept
  BY <1>1, <1>4, StillKeeps
<1> QED BY <1>4, <1>7, <1>10, <1>11, <1>12, <1>13, AttemptsKept, RelaysKept DEF IInv

\* Deadlines, accounts, deposits, foreign debits and scans touch no row.
LEMMA AroundStep ==
    ASSUME IInv,
           \/ \E p \in Postings : PassDeadline(p)
           \/ \E a \in Accounts : OpenAccount(a) \/ Deposit(a) \/ ForeignDebit(a)
           \/ \E x \in Reapers : Scan(x)
    PROVE  IInv'
<1>1. TypeOK
  BY DEF IInv
<1>2. UNCHANGED <<row, ver, claim, outbox, dispatched, parked, tries, steps, ledger, refused,
                  money, lock, at, cur, batch>>
  BY DEF PassDeadline, OpenAccount, Deposit, ForeignDebit, Scan, apiVars, rowVars, tbVars, relayVars
<1>3. late' \subseteq Postings /\ opened' \subseteq Accounts
      /\ deposited' \in [Accounts -> Nat] /\ foreign' \in [Accounts -> Nat]
      /\ scan' \in [Reapers -> SUBSET Postings]
  <2>1. CASE \E p \in Postings : PassDeadline(p)
    BY <1>1, <2>1 DEF PassDeadline, tbVars, TypeOK
  <2>2. CASE \E a \in Accounts : OpenAccount(a)
    BY <1>1, <2>2 DEF OpenAccount, tbVars, TypeOK
  <2>3. CASE \E a \in Accounts : Deposit(a)
    BY <1>1, <2>3 DEF Deposit, apiVars, TypeOK
  <2>4. CASE \E a \in Accounts : ForeignDebit(a)
    BY <1>1, <2>4 DEF ForeignDebit, apiVars, TypeOK
  <2>5. CASE \E x \in Reapers : Scan(x)
    <3>1. Stale \subseteq Postings
      BY DEF Stale
    <3>2. UNCHANGED <<late, opened, deposited, foreign>>
      BY <2>5 DEF Scan, apiVars, tbVars
    <3>3. scan' \in [Reapers -> SUBSET Postings]
      BY <1>1, <2>5, <3>1 DEF Scan, TypeOK
    <3> QED BY <1>1, <3>2, <3>3 DEF TypeOK
  <2> QED BY <2>1, <2>2, <2>3, <2>4, <2>5
<1>4. TypeOK'
  BY <1>1, <1>2, <1>3 DEF TypeOK
<1> QED BY <1>1, <1>2, <1>4, StillKeeps, QuietClient

\* An operator's unpark touches no row.
LEMMA UnparkStep ==
    ASSUME IInv, NEW i \in parked, Unpark(i)
    PROVE  IInv'
<1>1. TypeOK
  BY DEF IInv
<1>2. UNCHANGED <<row, ver, late, claim, opened, outbox, dispatched, steps, ledger, refused, deposited,
                  foreign, money, lock, at, cur, batch, scan>>
  BY DEF Unpark, apiVars, tbVars, relayVars
<1>3. parked' \subseteq parked /\ tries' = [tries EXCEPT ![i] = 0]
  BY DEF Unpark
<1>4. tries \in Seq(0..MaxTries) /\ Len(tries) = Len(outbox) /\ 0 \in 0..MaxTries
  BY <1>1, PostingBounds DEF TypeOK
<1>5. tries' \in Seq(0..MaxTries) /\ Len(tries') = Len(tries)
  <2>1. i \in DOMAIN outbox
    BY <1>1 DEF TypeOK
  <2> QED BY <1>1, <1>3, <1>4, <2>1, TriesKept
<1>6. TypeOK'
  BY <1>1, <1>2, <1>3, <1>4, <1>5 DEF TypeOK
<1>7. QueueKept
  BY <1>1, <1>2, <1>4, <1>5 DEF QueueKept, TypeOK
<1> QED BY <1>2, <1>6, <1>7, QuietClient

\* The reaper's replay names the attempt its row waits for.
LEMMA RedriveStep ==
    ASSUME IInv, NEW x \in Reapers, NEW p \in Postings, Redrive(x, p)
    PROVE  IInv'
<1>1. TypeOK
  BY DEF IInv
<1>2. UNCHANGED <<row, ver, late, claim, opened, dispatched, parked, steps, ledger, refused, deposited,
                  foreign, money, lock, at, cur, batch>>
  BY DEF Redrive, apiVars, tbVars, relayVars
<1>3. <<p, ver[p]>> \in Attempts
  BY <1>1 DEF TypeOK, Attempts
<1>4. QueueKept
  BY <1>1, <1>3, EnqueueKeeps, StillKeeps DEF Redrive
<1>5. scan' \in [Reapers -> SUBSET Postings]
  BY <1>1 DEF Redrive, TypeOK
<1>6. TypeOK'
  BY <1>1, <1>2, <1>4, <1>5 DEF TypeOK, QueueKept
<1> QED BY <1>2, <1>4, <1>6, QuietClient

\* Making a route, by the relay's stamp or by the reaper.
LEMMA RouteMade ==
    ASSUME IInv, NEW s \in Sweeps, NEW rows, RouteSwept(s, rows),
           rows \in [Postings -> {"none", "open", "pending", "posted", "failed", "missing",
                                  "cancelled", "expired"}],
           rows[RouteOf[s]] = row[RouteOf[s]]
    PROVE  /\ QueueKept
           /\ row' \in [Postings -> {"none", "open", "pending", "posted", "failed", "missing",
                                     "cancelled", "expired"}]
           /\ \A q \in Postings : q # RouteOf[s] \/ row[q] # "none" => row'[q] = rows[q]
           /\ row[RouteOf[s]] = "none" => row'[RouteOf[s]] \in {"pending", "missing"}
           /\ RouteOf[s] \in Routes
<1>1. TypeOK
  BY DEF IInv
<1>2. RouteOf[s] \in Routes /\ RouteOf[s] \in Postings
  BY PostingAssumption DEF Routes
<1>3. <<RouteOf[s], 1>> \in Attempts
  BY <1>2, PostingBounds DEF Attempts
<1>4. RouteState(s) \in {"pending", "missing"}
  BY DEF RouteState
<1>5. CASE row[RouteOf[s]] # "none"
  <2>1. row' = rows /\ UNCHANGED <<outbox, tries>>
    BY <1>5 DEF RouteSwept
  <2> QED BY <1>1, <1>2, <1>5, <2>1, StillKeeps
<1>6. CASE row[RouteOf[s]] = "none"
  <2>1. row' = [rows EXCEPT ![RouteOf[s]] = RouteState(s)]
    BY <1>6 DEF RouteSwept
  <2>2. Enqueue(<<RouteOf[s], 1>>) \/ UNCHANGED <<outbox, tries>>
    BY <1>6 DEF RouteSwept
  <2>3. QueueKept
    BY <1>1, <1>3, <2>2, EnqueueKeeps, StillKeeps
  <2> QED BY <1>2, <1>4, <1>6, <2>1, <2>3
<1> QED BY <1>5, <1>6

\* A route made or revived by the reaper waits for its leg like any other row.
LEMMA RouteRepairStep ==
    ASSUME IInv, RouteRepair
    PROVE  IInv'
<1>1. TypeOK
  BY DEF IInv
<1>2. UNCHANGED <<ver, late, claim, opened, dispatched, parked, steps, ledger, refused, deposited, foreign,
                  money, lock, at, cur, batch, scan>>
  BY DEF RouteRepair, RouteUnrouted, ReviveRoute, tbVars, relayVars
<1>3. PICK q \in Routes :
          /\ QueueKept
          /\ row' \in [Postings -> {"none", "open", "pending", "posted", "failed", "missing",
                                    "cancelled", "expired"}]
          /\ \A o \in Postings : o # q => row'[o] = row[o]
          /\ row[q] \in {"none", "missing"} /\ row'[q] \in {"pending", "missing"}
  <2>1. CASE \E s \in Sweeps : RouteUnrouted(s)
    <3>1. PICK s \in Sweeps : RouteUnrouted(s)
      BY <2>1
    <3>2. RouteSwept(s, row) /\ row[RouteOf[s]] = "none"
      BY <3>1 DEF RouteUnrouted
    <3>3. row \in [Postings -> {"none", "open", "pending", "posted", "failed", "missing",
                                "cancelled", "expired"}]
      BY <1>1 DEF TypeOK
    <3>4. /\ QueueKept
          /\ row' \in [Postings -> {"none", "open", "pending", "posted", "failed", "missing",
                                    "cancelled", "expired"}]
          /\ \A q \in Postings : q # RouteOf[s] \/ row[q] # "none" => row'[q] = row[q]
          /\ row'[RouteOf[s]] \in {"pending", "missing"} /\ RouteOf[s] \in Routes
      BY <3>2, <3>3, RouteMade
    <3> QED BY <3>2, <3>4
  <2>2. CASE \E q \in Routes : ReviveRoute(q)
    <3>1. PICK q \in Routes : ReviveRoute(q)
      BY <2>2
    <3>2. q \in Postings /\ row[q] = "missing" /\ row' = [row EXCEPT ![q] = "pending"]
          /\ Enqueue(<<q, 1>>)
      BY <3>1 DEF ReviveRoute, Routes
    <3>3. <<q, 1>> \in Attempts
      BY <3>2, PostingBounds DEF Attempts
    <3>4. QueueKept
      BY <1>1, <3>2, <3>3, EnqueueKeeps
    <3> QED BY <1>1, <3>2, <3>4 DEF TypeOK
  <2> QED BY <2>1, <2>2 DEF RouteRepair
<1>4. TypeOK'
  BY <1>1, <1>2, <1>3 DEF TypeOK, QueueKept
<1>5. RowsKept
  BY <1>2, <1>3 DEF RowsKept
<1>6. \A p \in Postings \ Routes : row[p] \in {"none", "open"} => row'[p] = row[p] /\ ver'[p] = ver[p]
  BY <1>2, <1>3
<1>7. \A a \in Accounts : ClaimFits(a)'
  BY <1>2, <1>6, ClaimsKept
<1>8. q \notin Invoices
  BY DEF Routes, Invoices
<1>9. ASSUME NEW p \in Postings PROVE VersionFits(p)'
  <2>1. VersionFits(p)
    BY DEF IInv
  <2> QED BY <1>2, <1>3, <1>8, <2>1 DEF VersionFits
<1> QED BY <1>2, <1>3, <1>4, <1>5, <1>7, <1>9, AttemptsKept, RelaysKept DEF IInv

-----------------------------------------------------------------------------
(***************************************************************************)
(* The relay.  Whoever is past the lock is alone there.                    *)
(***************************************************************************)
\* The invariant of the replicas waiting for the lock is about nothing else.
LEMMA Alone ==
    ASSUME IInv, NEW r \in Relays, at[r] # "acquire", NEW l, at' = [at EXCEPT ![r] = l],
           RelayFits(r)'
    PROVE  \A q \in Relays : RelayFits(q)'
<1> SUFFICES ASSUME NEW q \in Relays, q # r PROVE RelayFits(q)'
  OBVIOUS
<1>1. at \in [Relays -> Labels]
  BY DEF IInv, TypeOK
<1>2. lock = {r}
  BY DEF IInv, RelayFits
<1>3. at[q] # "acquire" => lock = {q}
  BY DEF IInv, RelayFits
<1>4. at'[q] = "acquire"
  BY <1>1, <1>2, <1>3
<1> QED BY <1>4 DEF RelayFits, Working, Before, After

\* A relay back at the start or between two rows.
LEMMA Resting ==
    ASSUME IInv, NEW r \in Relays, at[r] # "acquire",
           at'[r] = "acquire" \/ (at'[r] = "ready" /\ lock' = lock)
    PROVE  RelayFits(r)'
<1>1. lock = {r}
  BY DEF IInv, RelayFits
<1> QED BY <1>1 DEF RelayFits, Working, Before, After

\* What a label asks of the attempt in hand.
Fits(t, l) ==
    /\ l \in Working => Pend(t)
    /\ l \in Before => ~OnLedger(t)
    /\ l \in After => OnLedger(t)
    /\ l = "step" => \A s \in steps : s[2] # t
    /\ l = "posted" /\ Announced(t) => t \in money

\* What a relay at work relies on.
LEMMA AtWork ==
    ASSUME IInv, NEW r \in Relays, at[r] \notin {"acquire", "ready"}
    PROVE  /\ lock = {r} /\ cur[r] \in DOMAIN outbox
           /\ Attempt(r) \in Attempts /\ Attempt(r)[1] \in Postings
           /\ Attempt(r)[2] \in 1..MaxVersion
           /\ Fits(Attempt(r), at[r]) /\ AttemptAgrees(Attempt(r))
<1>1. TypeOK /\ RelayFits(r)
  BY DEF IInv
<1>2. lock = {r} /\ cur[r] \in DOMAIN outbox /\ Fits(Attempt(r), at[r])
  BY <1>1 DEF RelayFits, Fits
<1>3. Attempt(r) \in Attempts /\ Attempt(r)[1] \in Postings /\ Attempt(r)[2] \in 1..MaxVersion
  BY <1>1, <1>2, InHand
<1> QED BY <1>2, <1>3 DEF IInv

\* A relay that moves on to a label whose demands are met.
LEMMA MovesOn ==
    ASSUME IInv, NEW r \in Relays, at[r] \notin {"acquire", "ready"}, NEW l \in Labels,
           at' = [at EXCEPT ![r] = l], Fits(Attempt(r), l),
           UNCHANGED <<row, ver, outbox, steps, ledger, money, lock, cur>>
    PROVE  RelayFits(r)'
<1>1. at'[r] = l
  BY DEF IInv, TypeOK
<1>2. Attempt(r)' = Attempt(r) /\ (Pend(Attempt(r))' <=> Pend(Attempt(r)))
      /\ (OnLedger(Attempt(r))' <=> OnLedger(Attempt(r)))
      /\ (Announced(Attempt(r))' <=> Announced(Attempt(r)))
  BY DEF Attempt, Pend, OnLedger, Announced
<1>3. lock = {r} /\ cur[r] \in DOMAIN outbox
  BY AtWork
<1> QED BY <1>1, <1>2, <1>3 DEF Fits, RelayFits

\* A step of the relay that writes no row, no leg, no step and no event.
Silent(r) ==
    /\ UNCHANGED <<row, ver, late, claim, opened, outbox, steps, ledger, deposited, foreign, money, scan>>
    /\ refused' \subseteq Attempts
    /\ QueueKept
    /\ dispatched' \subseteq DOMAIN outbox /\ parked' \subseteq DOMAIN outbox
    /\ lock' \subseteq Relays
    /\ cur' \in [Relays -> {0} \cup DOMAIN outbox]
    /\ batch' \in [Relays -> SUBSET (DOMAIN outbox)]

\* Such a step keeps the invariant when the relay's next label is met.
LEMMA SilentStep ==
    ASSUME IInv, NEW r \in Relays, at[r] # "acquire", NEW l \in Labels, at' = [at EXCEPT ![r] = l],
           Silent(r), RelayFits(r)'
    PROVE  IInv'
<1>1. TypeOK
  BY DEF IInv
<1>2. at' \in [Relays -> Labels]
  BY <1>1 DEF TypeOK
<1>3. TypeOK'
  BY <1>1, <1>2 DEF TypeOK, Silent, QueueKept
<1>4. \A q \in Relays : RelayFits(q)'
  BY Alone
<1> QED BY <1>3, <1>4, Quiet DEF Silent

\* Rest and NextRow keep the relay's registers in their types.
LEMMA Registers ==
    ASSUME IInv, NEW r \in Relays,
           \/ \E l \in Labels : Rest(r, l)
           \/ NextRow(r)
           \/ UNCHANGED <<cur, batch>>
    PROVE  /\ cur' \in [Relays -> {0} \cup DOMAIN outbox]
           /\ batch' \in [Relays -> SUBSET (DOMAIN outbox)]
<1>1. cur \in [Relays -> {0} \cup DOMAIN outbox] /\ batch \in [Relays -> SUBSET (DOMAIN outbox)]
  BY DEF IInv, TypeOK
<1> QED BY <1>1 DEF Rest, NextRow

\* A row put back for later leaves everything as it was.
LEMMA RetryStep ==
    ASSUME IInv, NEW r \in Relays, at[r] # "acquire", Retry(r)
    PROVE  IInv'
<1>1. TypeOK
  BY DEF IInv
<1>2. "ready" \in Labels /\ Rest(r, "ready") /\ at' = [at EXCEPT ![r] = "ready"]
  BY DEF Retry, Rest, Goto, Labels
<1>3. UNCHANGED <<row, ver, late, claim, opened, outbox, dispatched, parked, tries, steps, ledger, refused,
                  deposited, foreign, money, lock, scan>>
  BY DEF Retry, apiVars, rowVars, tbVars
<1>4. Silent(r)
  BY <1>1, <1>2, <1>3, Registers, StillKeeps DEF Silent, TypeOK
<1>5. at'[r] = "ready"
  BY <1>1, <1>2 DEF TypeOK
<1> QED BY <1>2, <1>3, <1>4, <1>5, Resting, SilentStep

\* A jump to a label whose demands are met leaves everything as it was.
LEMMA JumpStep ==
    ASSUME IInv, NEW r \in Relays, at[r] \notin {"acquire", "ready"}, NEW l \in Labels, Jump(r, l),
           Fits(Attempt(r), l)
    PROVE  IInv'
<1>1. TypeOK
  BY DEF IInv
<1>2. at' = [at EXCEPT ![r] = l]
  BY DEF Jump, Goto
<1>3. UNCHANGED <<row, ver, late, claim, opened, outbox, dispatched, parked, tries, steps, ledger, refused,
                  deposited, foreign, money, lock, cur, batch, scan>>
  BY DEF Jump, apiVars, rowVars, tbVars
<1>4. Silent(r)
  BY <1>1, <1>3, Registers, StillKeeps DEF Silent, TypeOK
<1>5. RelayFits(r)'
  BY <1>2, <1>3, MovesOn
<1> QED BY <1>2, <1>4, <1>5, SilentStep

\* The lock, the batch and the row taken from it.
LEMMA DrainStep ==
    ASSUME IInv, NEW r \in Relays,
           AcquireLock(r) \/ NextBatch(r) \/ (\E i \in batch[r] : TakeRow(r, i)) \/ LostLock(r)
    PROVE  IInv'
<1>1. TypeOK
  BY DEF IInv
<1>2. CASE AcquireLock(r)
  <2>1. at[r] = "acquire" /\ lock = {} /\ lock' = {r} /\ at' = [at EXCEPT ![r] = "ready"]
    BY <1>2 DEF AcquireLock, Goto
  <2>2. UNCHANGED <<row, ver, late, claim, opened, outbox, dispatched, parked, tries, steps, ledger, refused,
                    deposited, foreign, money, cur, batch, scan>>
    BY <1>2 DEF AcquireLock, apiVars, rowVars, tbVars
  <2>3. TypeOK'
    BY <1>1, <2>1, <2>2 DEF TypeOK, Labels
  <2>4. ASSUME NEW q \in Relays PROVE RelayFits(q)'
    <3>1. at[q] # "acquire" => lock = {q}
      BY DEF IInv, RelayFits
    <3>2. at'[q] = IF q = r THEN "ready" ELSE "acquire"
      BY <1>1, <2>1, <3>1 DEF TypeOK
    <3> QED BY <2>1, <3>2 DEF RelayFits, Working, Before, After
  <2> QED BY <1>1, <2>2, <2>3, <2>4, StillKeeps, Quiet
<1>3. CASE NextBatch(r)
  <2>1. batch' = [batch EXCEPT ![r] = Queued]
    BY <1>3 DEF NextBatch
  <2>2. UNCHANGED <<row, ver, late, claim, opened, outbox, dispatched, parked, tries, steps, ledger, refused,
                    deposited, foreign, money, lock, at, cur, scan>>
    BY <1>3 DEF NextBatch, apiVars, rowVars, tbVars
  <2>3. Queued \subseteq DOMAIN outbox
    BY DEF Queued
  <2>4. batch' \in [Relays -> SUBSET (DOMAIN outbox)]
    BY <1>1, <2>1, <2>3 DEF TypeOK
  <2>5. TypeOK'
    BY <1>1, <2>2, <2>4 DEF TypeOK
  <2> QED BY <1>1, <2>2, <2>5, StillKeeps, QuietClient
<1>4. CASE \E i \in batch[r] : TakeRow(r, i)
  <2>1. PICK i \in batch[r] : TakeRow(r, i)
    BY <1>4
  <2>2. at[r] = "ready" /\ lock = {r} /\ cur' = [cur EXCEPT ![r] = i]
        /\ at' = [at EXCEPT ![r] = "state"]
    BY <2>1 DEF TakeRow, Goto
  <2>3. UNCHANGED <<row, ver, late, claim, opened, outbox, dispatched, parked, tries, steps, ledger, refused,
                    deposited, foreign, money, lock, batch, scan>>
    BY <2>1 DEF TakeRow, apiVars, rowVars, tbVars
  <2>4. i \in DOMAIN outbox
    BY <1>1 DEF TypeOK
  <2>5. cur' \in [Relays -> {0} \cup DOMAIN outbox] /\ cur'[r] = i
    BY <1>1, <2>2, <2>4 DEF TypeOK
  <2>6. Silent(r)
    BY <1>1, <2>3, <2>5, StillKeeps DEF Silent, TypeOK
  <2>7. at'[r] = "state"
    BY <1>1, <2>2 DEF TypeOK
  <2>8. RelayFits(r)'
    BY <2>2, <2>3, <2>4, <2>5, <2>7 DEF RelayFits, Working, Before, After
  <2>9. "state" \in Labels
    BY DEF Labels
  <2> QED BY <2>2, <2>6, <2>8, <2>9, SilentStep
<1>5. CASE LostLock(r)
  <2>1. at[r] = "ready" /\ lock # {r}
    BY <1>5 DEF LostLock
  <2> QED BY <2>1 DEF IInv, RelayFits
<1> QED BY <1>2, <1>3, <1>4, <1>5

\* The reads that come before the leg.
LEMMA ReadsStep ==
    ASSUME IInv, NEW r \in Relays,
           ReadState(r) \/ AppliedCheck(r) \/ WindowCheck(r) \/ LegRefused(r) \/ OldDispatch(r)
    PROVE  IInv'
<1> DEFINE t == Attempt(r)
<1>1. at[r] \notin {"acquire", "ready"}
  BY DEF ReadState, AppliedCheck, WindowCheck, LegRefused, OldDispatch
<1>2. t \in Attempts /\ Fits(t, at[r])
  BY <1>1, AtWork
<1>3. {"applied", "mark", "event", "window", "leg", "failed", "park"} \subseteq Labels
  BY DEF Labels
<1>4. CASE ReadState(r)
  <2>1. RowState(t) = "pending" => Pend(t)
    BY DEF RowState, Pend
  <2>2. PICK l \in {"applied", "mark"} : Jump(r, l) /\ (l = "applied" => RowState(t) = "pending")
    BY <1>4 DEF ReadState
  <2>3. Fits(t, l)
    BY <2>1, <2>2 DEF Fits, Working, Before, After
  <2> QED BY <1>1, <1>3, <2>2, <2>3, JumpStep
<1>5. CASE AppliedCheck(r)
  <2>1. at[r] = "applied"
    BY <1>5 DEF AppliedCheck
  <2>2. PICK l \in {"event", "window", "leg"} : Jump(r, l) /\ (l = "event" <=> OnLedger(t))
    BY <1>5 DEF AppliedCheck
  <2>3. Fits(t, l)
    BY <1>2, <2>1, <2>2 DEF Fits, Working, Before, After
  <2> QED BY <1>1, <1>3, <2>2, <2>3, JumpStep
<1>6. CASE WindowCheck(r)
  <2>1. at[r] = "window"
    BY <1>6 DEF WindowCheck
  <2>2. PICK l \in {"failed", "leg"} : Jump(r, l)
    BY <1>6 DEF WindowCheck
  <2>3. Fits(t, l)
    BY <1>2, <2>1, <2>2 DEF Fits, Working, Before, After
  <2> QED BY <1>1, <1>3, <2>2, <2>3, JumpStep
<1>7. CASE LegRefused(r)
  <2>1. at[r] = "leg"
    BY <1>7 DEF LegRefused
  <2>2. PICK l \in {"failed", "park"} : at' = [at EXCEPT ![r] = l]
    BY <1>7 DEF LegRefused, Goto
  <2>3. UNCHANGED <<row, ver, late, claim, opened, outbox, dispatched, parked, tries, steps, ledger,
                    deposited, foreign, money, lock, cur, batch, scan>>
    BY <1>7 DEF LegRefused, Post, apiVars, rowVars
  <2>4. TypeOK
    BY DEF IInv
  <2>5. refused' \subseteq Attempts
    BY <1>2, <1>7, <2>4 DEF LegRefused, Post, TypeOK
  <2>6. Silent(r)
    BY <2>3, <2>4, <2>5, Registers, StillKeeps DEF Silent, TypeOK
  <2>7. Fits(t, l) /\ l \in Labels
    BY <1>2, <1>3, <2>1, <2>2 DEF Fits, Working, Before, After
  <2>8. RelayFits(r)'
    BY <1>1, <2>2, <2>3, <2>7, MovesOn
  <2> QED BY <1>1, <2>2, <2>6, <2>7, <2>8, SilentStep
<1>8. CASE OldDispatch(r)
  <2>1. Jump(r, "mark")
    BY <1>8 DEF OldDispatch
  <2>2. Fits(t, "mark")
    BY DEF Fits, Working, Before, After
  <2> QED BY <1>1, <1>3, <2>1, <2>2, JumpStep
<1> QED BY <1>4, <1>5, <1>6, <1>7, <1>8

\* The stamps on the outbox row, and their loss.
LEMMA OutboxStampStep ==
    ASSUME IInv, NEW r \in Relays,
           MarkDispatched(r) \/ Park(r) \/ ParkUnrecorded(r) \/ StampLost(r)
    PROVE  IInv'
<1> DEFINE t == Attempt(r)
<1>1. at[r] \in {"mark", "park", "park_row", "park_unrecorded"}
  BY DEF MarkDispatched, Park, ParkUnrecorded, StampLost
<1>2. TypeOK /\ cur[r] \in DOMAIN outbox /\ Fits(t, at[r])
  BY <1>1, AtWork DEF IInv
<1>3. UNCHANGED <<row, ver, late, claim, opened, outbox, tries, steps, ledger, refused, deposited, foreign,
                  money, lock, scan>>
  BY DEF MarkDispatched, Park, ParkUnrecorded, StampLost, apiVars, rowVars, tbVars
<1>4. dispatched' \subseteq DOMAIN outbox /\ parked' \subseteq DOMAIN outbox
  BY <1>2 DEF MarkDispatched, Park, ParkUnrecorded, StampLost, rowVars, TypeOK
<1>5. \/ NextRow(r)
      \/ at[r] = "park" /\ Goto(r, "park_row") /\ UNCHANGED <<cur, batch>>
  BY DEF MarkDispatched, Park, ParkUnrecorded, StampLost
<1>6. Silent(r)
  BY <1>2, <1>3, <1>4, <1>5, Registers, StillKeeps DEF Silent, TypeOK
<1>7. "ready" \in Labels /\ "park_row" \in Labels
  BY DEF Labels
<1>8. CASE NextRow(r)
  <2>1. at' = [at EXCEPT ![r] = "ready"] /\ at'[r] = "ready"
    BY <1>2, <1>8 DEF NextRow, Goto, TypeOK
  <2> QED BY <1>1, <1>3, <1>6, <1>7, <2>1, Resting, SilentStep
<1>9. CASE at[r] = "park" /\ Goto(r, "park_row") /\ UNCHANGED <<cur, batch>>
  <2>1. at' = [at EXCEPT ![r] = "park_row"]
    BY <1>9 DEF Goto
  <2>2. Fits(t, "park_row")
    BY <1>2, <1>9 DEF Fits, Working, Before, After
  <2>3. RelayFits(r)'
    BY <1>1, <1>3, <1>7, <1>9, <2>1, <2>2, MovesOn
  <2> QED BY <1>1, <1>6, <1>7, <2>1, <2>3, SilentStep
<1> QED BY <1>5, <1>8, <1>9

\* A money event that could not be written is counted, and the row at the
\* bound parked.
LEMMA UnrecordableStep ==
    ASSUME IInv, NEW r \in Relays, EventUnrecordable(r)
    PROVE  IInv'
<1> DEFINE t == Attempt(r)
<1>1. at[r] = "event"
  BY DEF EventUnrecordable
<1>2. TypeOK /\ cur[r] \in DOMAIN outbox /\ Fits(t, "event")
  BY <1>1, AtWork DEF IInv
<1>3. UNCHANGED <<row, ver, late, claim, opened, outbox, dispatched, parked, steps, ledger, refused,
                  deposited, foreign, money, lock, scan>>
  BY DEF EventUnrecordable, apiVars, tbVars
<1>4. tries[cur[r]] \in 0..MaxTries /\ MaxTries \in Nat
  BY <1>2, PostingBounds DEF TypeOK
<1> DEFINE n == IF tries[cur[r]] < MaxTries THEN tries[cur[r]] + 1 ELSE tries[cur[r]]
<1>5. n \in 0..MaxTries /\ tries' = [tries EXCEPT ![cur[r]] = n]
  BY <1>4 DEF EventUnrecordable
<1> HIDE DEF n
<1>6. tries' \in Seq(0..MaxTries) /\ Len(tries') = Len(tries)
  BY <1>2, <1>5, TriesKept
<1>7. QueueKept
  BY <1>2, <1>3, <1>6 DEF QueueKept, TypeOK
<1>8. "ready" \in Labels /\ "park_unrecorded" \in Labels
  BY DEF Labels
<1>9. \/ Goto(r, "park_unrecorded") /\ UNCHANGED <<cur, batch>>
      \/ Rest(r, "ready")
  BY DEF EventUnrecordable
<1>10. Silent(r)
  BY <1>2, <1>3, <1>7, <1>8, <1>9, Registers DEF Silent, TypeOK
<1>11. CASE Goto(r, "park_unrecorded") /\ UNCHANGED <<cur, batch>>
  <2>1. at' = [at EXCEPT ![r] = "park_unrecorded"]
    BY <1>11 DEF Goto
  <2>2. Fits(t, "park_unrecorded")
    BY <1>2 DEF Fits, Working, Before, After
  <2>3. RelayFits(r)'
    BY <1>1, <1>3, <1>8, <1>11, <2>1, <2>2, MovesOn
  <2> QED BY <1>1, <1>8, <1>10, <2>1, <2>3, SilentStep
<1>12. CASE Rest(r, "ready")
  <2>1. at' = [at EXCEPT ![r] = "ready"] /\ at'[r] = "ready"
    BY <1>2, <1>12 DEF Rest, Goto, TypeOK
  <2> QED BY <1>1, <1>3, <1>8, <1>10, <2>1, Resting, SilentStep
<1> QED BY <1>9, <1>11, <1>12

\* A crash frees the lock and forgets the row in hand.
LEMMA CrashStep ==
    ASSUME IInv, NEW r \in Relays, Crash(r)
    PROVE  IInv'
<1>1. TypeOK /\ at[r] # "acquire" /\ "acquire" \in Labels
  BY DEF IInv, Crash, Labels
<1>2. lock' \subseteq Relays /\ Rest(r, "acquire") /\ at' = [at EXCEPT ![r] = "acquire"]
  BY <1>1 DEF Crash, Rest, Goto, TypeOK
<1>3. UNCHANGED <<row, ver, late, claim, opened, outbox, dispatched, parked, tries, steps, ledger, refused,
                  deposited, foreign, money, scan>>
  BY DEF Crash, apiVars, rowVars, tbVars
<1>4. Silent(r)
  BY <1>1, <1>2, <1>3, Registers, StillKeeps DEF Silent, TypeOK
<1>5. at'[r] = "acquire"
  BY <1>1, <1>2 DEF TypeOK
<1> QED BY <1>1, <1>2, <1>4, <1>5, Resting, SilentStep

\* Two attempts of one posting with one version are the same.
LEMMA SameAttempt ==
    ASSUME NEW t \in Attempts, NEW u \in Attempts, t[1] = u[1], t[2] = u[2]
    PROVE  t = u
BY DEF Attempts

\* The leg is posted only for the attempt its row waits for.
LEMMA LegStep ==
    ASSUME IInv, NEW r \in Relays, LegTaken(r) \/ LegUnanswered(r)
    PROVE  IInv'
<1>0. at[r] = "leg" /\ Post(Attempt(r))
  BY DEF LegTaken, LegUnanswered
<1>1. PICK t \in Attempts : t = Attempt(r)
  BY <1>0, AtWork
<1>2. TypeOK /\ lock = {r} /\ cur[r] \in DOMAIN outbox /\ t \in Attempts /\ Fits(t, "leg")
      /\ AttemptAgrees(t)
  BY <1>0, <1>1, AtWork DEF IInv
<1>3. UNCHANGED <<row, ver, late, claim, opened, outbox, dispatched, parked, tries, steps,
                  deposited, foreign, money, lock, scan>>
  BY DEF LegTaken, LegUnanswered, apiVars, rowVars
<1>4. Pend(t) /\ ~OnLedger(t) /\ \A s \in steps : s[2] # t
  BY <1>2 DEF Fits, Working, Before, AttemptAgrees
<1>5. /\ ledger' \in Seq(Attempts)
      /\ \A u \in Attempts : OnLedger(u)' => OnLedger(u) \/ u = t
      /\ \A u \in Attempts : OnLedger(u) => OnLedger(u)'
      /\ Answer(t) = "created" => OnLedger(t)'
  <2>1. CASE Answer(t) = "created"
    <3>1. ledger' = Append(ledger, t)
      BY <1>0, <1>1, <2>1 DEF Post
    <3> QED BY <1>2, <3>1, LedgerGrows
  <2>2. CASE Answer(t) # "created"
    <3>1. ledger' = ledger
      BY <1>0, <1>1, <2>2 DEF Post
    <3>2. \A u \in Attempts : OnLedger(u)' <=> OnLedger(u)
      BY <3>1 DEF OnLedger
    <3> QED BY <1>2, <2>2, <3>1, <3>2 DEF TypeOK
  <2> QED BY <2>1, <2>2
<1>6. \/ at' = [at EXCEPT ![r] = "step"] /\ Answer(t) = "created" /\ UNCHANGED <<cur, batch>>
      \/ Rest(r, "ready")
  <2>1. Answer(t) # "exists"
    BY <1>2, <1>4, Answers
  <2> QED BY <1>1, <2>1 DEF LegTaken, LegUnanswered, Goto
<1>7. "ready" \in Labels /\ "step" \in Labels
  BY DEF Labels
<1>8. cur' \in [Relays -> {0} \cup DOMAIN outbox] /\ batch' \in [Relays -> SUBSET (DOMAIN outbox)]
  BY <1>6, <1>7, Registers
<1>9. PICK l \in {"ready", "step"} :
          /\ at' = [at EXCEPT ![r] = l]
          /\ l = "step" => Answer(t) = "created" /\ UNCHANGED <<cur, batch>>
  BY <1>6 DEF Rest, Goto
<1>10. at' \in [Relays -> Labels] /\ at'[r] = l
  BY <1>2, <1>7, <1>9 DEF TypeOK
<1>11. TypeOK'
  <2>1. refused' \subseteq Attempts
    BY <1>0, <1>1, <1>2 DEF Post, TypeOK
  <2> QED BY <1>2, <1>3, <1>5, <1>8, <1>10, <2>1 DEF TypeOK
<1>12. RelayFits(r)'
  <2>1. CASE l = "ready"
    BY <1>0, <1>3, <1>10, <2>1, Resting
  <2>2. CASE l = "step"
    <3>1. Attempt(r)' = t
      BY <1>1, <1>3, <1>9, <2>2 DEF Attempt
    <3>2. Pend(Attempt(r))'
      BY <1>3, <1>4, <3>1 DEF Pend
    <3>3. OnLedger(Attempt(r))'
      <4>1. OnLedger(t)'
        BY <1>5, <1>9, <2>2
      <4> QED BY <4>1, <3>1 DEF OnLedger
    <3>4. cur'[r] \in DOMAIN outbox' /\ lock' = {r}
      BY <1>2, <1>3, <1>9, <2>2
    <3>5. \A s \in steps' : s[2] # Attempt(r)'
      BY <1>3, <1>4, <3>1
    <3>6. at'[r] = "step"
      BY <1>10, <2>2
    <3> QED BY <3>2, <3>3, <3>4, <3>5, <3>6 DEF RelayFits, Working, Before, After
  <2> QED BY <2>1, <2>2
<1>13. \A q \in Relays : RelayFits(q)'
  BY <1>0, <1>9, <1>12, Alone
<1>14. ASSUME NEW u \in Attempts PROVE AttemptAgrees(u)'
  <2>1. AttemptAgrees(u)
    BY DEF IInv
  <2>2. (OnLedger(u)' => OnLedger(u) \/ u = t) /\ (OnLedger(u) => OnLedger(u)')
    BY <1>5
  <2>3. Announced(u)' <=> Announced(u)
    BY DEF Announced
  <2>4. u = t => row[u[1]] = "pending" /\ ver[u[1]] = u[2]
    BY <1>4 DEF Pend
  <2> QED BY <1>3, <2>1, <2>2, <2>3, <2>4 DEF AttemptAgrees
<1>15. \A a \in Accounts : ClaimFits(a)'
  BY <1>3, ClaimsKept
<1> QED BY <1>3, <1>11, <1>13, <1>14, <1>15, VersionsKept DEF IInv

\* The saga step is the leg's first, and the money event follows the leg.
LEMMA RecordsStep ==
    ASSUME IInv, NEW r \in Relays, RecordStep(r) \/ RecordEvent(r)
    PROVE  IInv'
<1> DEFINE t == Attempt(r)
<1>1. at[r] \in {"step", "event"}
  BY DEF RecordStep, RecordEvent
<1>2. TypeOK /\ lock = {r} /\ cur[r] \in DOMAIN outbox /\ t \in Attempts /\ Fits(t, at[r])
  BY <1>1, AtWork DEF IInv
<1>3. Pend(t) /\ OnLedger(t)
  BY <1>1, <1>2 DEF Fits, Working, After
<1>4. CASE Retry(r)
  BY <1>1, <1>4, RetryStep
<1>5. CASE ~Retry(r)
  <2>1. UNCHANGED <<row, ver, late, claim, opened, outbox, dispatched, parked, tries, ledger, refused,
                    deposited, foreign, lock, cur, batch, scan>>
    BY <1>5 DEF RecordStep, RecordEvent, apiVars, rowVars, tbVars
  <2>2. PICK l \in {"event", "posted"} :
            /\ at' = [at EXCEPT ![r] = l]
            /\ l = "posted" /\ Announced(t) => t \in money'
    BY <1>5 DEF RecordStep, RecordEvent, Goto
  <2>3. /\ steps \subseteq steps' /\ steps' \subseteq steps \cup {<<cur[r], t>>}
        /\ money \subseteq money' /\ money' \subseteq money \cup {t}
    BY <1>5 DEF RecordStep, RecordEvent
  <2>4. at' \in [Relays -> Labels] /\ at'[r] = l
    BY <1>2, <2>2 DEF TypeOK, Labels
  <2>5. TypeOK'
    BY <1>2, <2>1, <2>3, <2>4 DEF TypeOK
  <2>6. Attempt(r)' = t /\ (OnLedger(t)' <=> OnLedger(t)) /\ (Pend(t)' <=> Pend(t))
    BY <2>1 DEF Attempt, OnLedger, Pend
  <2>7. RelayFits(r)'
    <3>1. Pend(Attempt(r))'
      BY <1>3, <2>1, <2>6 DEF Pend
    <3>2. OnLedger(Attempt(r))'
      BY <1>3, <2>1, <2>6 DEF OnLedger
    <3>3. l = "posted" /\ Announced(Attempt(r))' => Attempt(r)' \in money'
      BY <2>2, <2>6 DEF Announced
    <3> HIDE DEF t
    <3> QED BY <1>2, <2>1, <2>4, <3>1, <3>2, <3>3 DEF RelayFits, Working, Before, After
  <2>8. \A q \in Relays : RelayFits(q)'
    BY <1>1, <2>2, <2>7, Alone
  <2>9. ASSUME NEW u \in Attempts PROVE AttemptAgrees(u)'
    <3>1. AttemptAgrees(u)
      BY DEF IInv
    <3>2. (OnLedger(u)' <=> OnLedger(u)) /\ (Announced(u)' <=> Announced(u))
      BY <2>1 DEF OnLedger, Announced
    <3>3. (\E s \in steps' : s[2] = u) => OnLedger(u)
      BY <1>3, <2>3, <3>1 DEF AttemptAgrees
    <3> QED BY <2>1, <2>3, <3>1, <3>2, <3>3 DEF AttemptAgrees
  <2>10. \A a \in Accounts : ClaimFits(a)'
    BY <2>1, ClaimsKept
  <2> QED BY <2>1, <2>5, <2>8, <2>9, <2>10, VersionsKept DEF IInv
<1> QED BY <1>4, <1>5

\* The posted stamp, with the route of a sweep or without it.
LEMMA PostedStep ==
    ASSUME IInv, NEW r \in Relays, StampPosted(r) \/ StampPostedUnrouted(r)
    PROVE  IInv'
<1>0. at[r] = "posted"
  BY DEF StampPosted, StampPostedUnrouted
<1>1. PICK t \in Attempts : t = Attempt(r)
  BY <1>0, AtWork
<1>2. TypeOK /\ lock = {r} /\ cur[r] \in DOMAIN outbox /\ Fits(t, "posted") /\ t[1] \in Postings
  BY <1>0, <1>1, AtWork DEF IInv
<1>3. Pend(t) /\ OnLedger(t) /\ (Announced(t) => t \in money)
  BY <1>2 DEF Fits, Working, After
<1>4. UNCHANGED <<ver, late, claim, opened, dispatched, parked, steps, ledger, refused, deposited, foreign,
                  money, lock, cur, batch, scan>> /\ at' = [at EXCEPT ![r] = "mark"]
  BY DEF StampPosted, StampPostedUnrouted, rowVars, tbVars, Goto
<1> DEFINE rows == [row EXCEPT ![t[1]] = "posted"]
<1>5. rows \in [Postings -> {"none", "open", "pending", "posted", "failed", "missing",
                             "cancelled", "expired"}]
      /\ rows[t[1]] = "posted" /\ \A q \in Postings : q # t[1] => rows[q] = row[q]
  BY <1>2 DEF TypeOK
<1>6. \/ row' = rows /\ UNCHANGED <<outbox, tries>>
      \/ t[1] \in Sweeps /\ RouteSwept(t[1], rows)
  <2>1. RowState(t) = "pending"
    BY <1>3 DEF RowState, Pend
  <2>2. CASE StampPosted(r)
    BY <1>1, <2>1, <2>2 DEF StampPosted, MarkPosted
  <2>3. CASE StampPostedUnrouted(r)
    BY <1>1, <2>3 DEF StampPostedUnrouted, rowVars
  <2> QED BY <2>2, <2>3
<1> HIDE DEF rows
<1>7. /\ QueueKept
      /\ row' \in [Postings -> {"none", "open", "pending", "posted", "failed", "missing",
                                "cancelled", "expired"}]
      /\ row'[t[1]] = "posted"
      /\ \A q \in Postings : q # t[1] =>
            \/ row'[q] = row[q]
            \/ q \in Routes /\ row[q] = "none" /\ row'[q] \in {"pending", "missing"}
  <2>1. CASE row' = rows /\ UNCHANGED <<outbox, tries>>
    BY <1>2, <1>5, <2>1, StillKeeps
  <2>2. CASE t[1] \in Sweeps /\ RouteSwept(t[1], rows)
    <3>1. RouteOf[t[1]] \in Routes /\ RouteOf[t[1]] # t[1] /\ RouteOf[t[1]] \in Postings
      BY <2>2, PostingAssumption DEF Sweeps, Routes
    <3>2. rows[RouteOf[t[1]]] = row[RouteOf[t[1]]]
      BY <1>5, <3>1
    <3>3. /\ QueueKept
          /\ row' \in [Postings -> {"none", "open", "pending", "posted", "failed", "missing",
                                    "cancelled", "expired"}]
          /\ \A q \in Postings : q # RouteOf[t[1]] \/ row[q] # "none" => row'[q] = rows[q]
          /\ row[RouteOf[t[1]]] = "none" => row'[RouteOf[t[1]]] \in {"pending", "missing"}
      BY <1>5, <2>2, <3>2, RouteMade
    <3> QED BY <1>2, <1>5, <3>1, <3>3
  <2> QED BY <1>6, <2>1, <2>2
<1>8. at' \in [Relays -> Labels] /\ at'[r] = "mark"
  BY <1>2, <1>4 DEF TypeOK, Labels
<1>9. TypeOK'
  BY <1>2, <1>4, <1>7, <1>8 DEF TypeOK, QueueKept
<1>10. RelayFits(r)'
  BY <1>2, <1>4, <1>7, <1>8 DEF RelayFits, QueueKept, Working, Before, After
<1>11. \A q \in Relays : RelayFits(q)'
  BY <1>0, <1>4, <1>10, Alone
<1>12. ASSUME NEW u \in Attempts PROVE AttemptAgrees(u)'
  <2>1. AttemptAgrees(u) /\ u[1] \in Postings
    BY DEF IInv, Attempts
  <2>2. (OnLedger(u)' <=> OnLedger(u)) /\ (Announced(u)' <=> Announced(u))
    BY <1>4 DEF OnLedger, Announced
  <2>3. CASE u[1] = t[1]
    <3>1. ver[t[1]] = t[2]
      BY <1>3 DEF Pend
    <3>2. ver[u[1]] = u[2] => u = t
      BY <2>3, <3>1, SameAttempt
    <3> QED BY <1>3, <1>4, <1>7, <2>1, <2>2, <2>3, <3>2 DEF AttemptAgrees
  <2>4. CASE u[1] # t[1]
    BY <1>4, <1>7, <2>1, <2>2, <2>4 DEF AttemptAgrees
  <2> QED BY <2>3, <2>4
<1>13. row[t[1]] = "pending"
  BY <1>3 DEF Pend
<1>14. \A p \in Postings \ Routes :
           row[p] \in {"none", "open"} => row'[p] = row[p] /\ ver'[p] = ver[p]
  BY <1>4, <1>7, <1>13
<1>15. \A a \in Accounts : ClaimFits(a)'
  BY <1>4, <1>14, ClaimsKept
<1>16. ASSUME NEW p \in Postings PROVE VersionFits(p)'
  <2>1. VersionFits(p) /\ (p \in Routes => p \notin Invoices)
    BY DEF IInv, Routes, Invoices
  <2> QED BY <1>4, <1>7, <2>1 DEF VersionFits
<1> QED BY <1>9, <1>11, <1>12, <1>15, <1>16 DEF IInv

\* The failed stamp, after a refusal or a park.
LEMMA FailedStep ==
    ASSUME IInv, NEW r \in Relays, StampFailed(r) \/ ParkRow(r)
    PROVE  IInv'
<1>0. at[r] \in {"failed", "park_row"} /\ MarkFailed(Attempt(r))
  BY DEF StampFailed, ParkRow
<1>1. PICK t \in Attempts : t = Attempt(r)
  BY <1>0, AtWork
<1>2. TypeOK /\ lock = {r} /\ cur[r] \in DOMAIN outbox /\ Fits(t, at[r]) /\ t[1] \in Postings
  BY <1>0, <1>1, AtWork DEF IInv
<1>3. Pend(t) /\ ~OnLedger(t)
  BY <1>0, <1>2 DEF Fits, Working, Before
<1>4. UNCHANGED <<late, claim, opened, outbox, dispatched, parked, tries, steps, ledger, refused, deposited,
                  foreign, money, lock, scan>>
  BY DEF StampFailed, ParkRow, rowVars, tbVars
<1>5. PICK l \in {"mark", "ready"} :
          at' = [at EXCEPT ![r] = l] /\ (l = "mark" => UNCHANGED <<cur, batch>>)
  BY DEF StampFailed, ParkRow, NextRow, Goto
<1>6. cur' \in [Relays -> {0} \cup DOMAIN outbox] /\ batch' \in [Relays -> SUBSET (DOMAIN outbox)]
  <2>1. NextRow(r) \/ UNCHANGED <<cur, batch>>
    BY DEF StampFailed, ParkRow
  <2> QED BY <2>1, Registers
<1>7. PICK to \in {"open", "failed"}, v \in {ver[t[1]], ver[t[1]] + 1} :
          /\ row' = [row EXCEPT ![t[1]] = to] /\ ver' = [ver EXCEPT ![t[1]] = v]
          /\ t[1] \in Invoices => to = "open" /\ v = ver[t[1]] + 1
          /\ t[1] \notin Invoices => to = "failed" /\ v = ver[t[1]]
  <2>1. RowState(t) = "pending"
    BY <1>3 DEF RowState, Pend
  <2>2. CASE t[1] \in Invoices
    BY <1>0, <1>1, <2>1, <2>2 DEF MarkFailed
  <2>3. CASE t[1] \notin Invoices
    <3>1. row' = [row EXCEPT ![t[1]] = "failed"] /\ ver' = ver
      BY <1>0, <1>1, <2>1, <2>3 DEF MarkFailed
    <3>2. ver' = [ver EXCEPT ![t[1]] = ver[t[1]]]
      BY <1>2, <3>1 DEF TypeOK
    <3> QED BY <2>3, <3>1, <3>2
  <2> QED BY <2>2, <2>3
<1>8. v \in 1..MaxVersion /\ (t[1] \in Invoices => v < MaxVersion)
  <2>1. VersionFits(t[1]) /\ ver[t[1]] \in 1..MaxVersion /\ MaxVersion \in Nat
    BY <1>2, PostingBounds DEF IInv, TypeOK
  <2>2. row[t[1]] = "pending"
    BY <1>3 DEF Pend
  <2> QED BY <1>7, <2>1, <2>2 DEF VersionFits
<1>9. /\ row' \in [Postings -> {"none", "open", "pending", "posted", "failed", "missing",
                                "cancelled", "expired"}] /\ ver' \in [Postings -> 1..MaxVersion]
      /\ row'[t[1]] = to /\ ver'[t[1]] = v
      /\ \A q \in Postings : q # t[1] => row'[q] = row[q] /\ ver'[q] = ver[q]
  BY <1>2, <1>7, <1>8 DEF TypeOK
<1>10. at' \in [Relays -> Labels] /\ at'[r] = l
  BY <1>2, <1>5 DEF TypeOK, Labels
<1>11. TypeOK'
  BY <1>2, <1>4, <1>6, <1>9, <1>10 DEF TypeOK
<1>12. RelayFits(r)'
  BY <1>2, <1>4, <1>5, <1>10 DEF RelayFits, Working, Before, After
<1>13. \A q \in Relays : RelayFits(q)'
  BY <1>0, <1>5, <1>12, Alone
<1>14. ASSUME NEW u \in Attempts PROVE AttemptAgrees(u)'
  <2>1. AttemptAgrees(u) /\ u[1] \in Postings
    BY DEF IInv, Attempts
  <2>2. (OnLedger(u)' <=> OnLedger(u)) /\ (Announced(u)' <=> Announced(u))
    BY <1>4 DEF OnLedger, Announced
  <2>3. CASE u[1] = t[1]
    <3>1. ver[t[1]] = t[2]
      BY <1>3 DEF Pend
    <3>2. ~OnLedger(u)
      BY <1>3, <2>1, <2>3, <3>1, SameAttempt DEF AttemptAgrees
    <3>3. row'[u[1]] # "posted"
      BY <1>7, <1>9, <2>3
    <3> QED BY <1>4, <2>1, <2>2, <3>2, <3>3 DEF AttemptAgrees
  <2>4. CASE u[1] # t[1]
    BY <1>4, <1>9, <2>1, <2>2, <2>4 DEF AttemptAgrees
  <2> QED BY <2>3, <2>4
<1>15. row[t[1]] = "pending"
  BY <1>3 DEF Pend
<1>16. \A p \in Postings \ Routes :
           row[p] \in {"none", "open"} => row'[p] = row[p] /\ ver'[p] = ver[p]
  BY <1>9, <1>15
<1>17. \A a \in Accounts : ClaimFits(a)'
  BY <1>4, <1>16, ClaimsKept
<1>18. ASSUME NEW p \in Postings PROVE VersionFits(p)'
  <2>1. VersionFits(p)
    BY DEF IInv
  <2> QED BY <1>7, <1>8, <1>9, <2>1 DEF VersionFits
<1> QED BY <1>11, <1>13, <1>14, <1>17, <1>18 DEF IInv

-----------------------------------------------------------------------------
\* The initial states.
LEMMA InitOK == Init => IInv
<1> SUFFICES ASSUME Init PROVE IInv
  OBVIOUS
<1>1. Free \in [stage : {"free", "locked", "admitted"},
                for : Postings \cup {NoPosting}, counted : SUBSET Postings]
  BY DEF Free
<1>2. TypeOK
  BY <1>1, PostingBounds, LedgerAssumption DEF Init, TypeOK, Labels
<1>3. ASSUME NEW p \in Postings PROVE VersionFits(p)
  BY DEF Init, VersionFits
<1>4. ASSUME NEW a \in Accounts PROVE ClaimFits(a)
  <2>1. claim[a].stage = "free"
    BY DEF Init, Free
  <2> QED BY <2>1 DEF ClaimFits
<1>5. ASSUME NEW t \in Attempts PROVE AttemptAgrees(t)
  <2>1. t[1] \in Postings
    BY DEF Attempts
  <2>2. row[t[1]] = "none" /\ steps = {}
    BY <2>1 DEF Init
  <2>3. ~OnLedger(t)
    BY DEF Init, OnLedger
  <2> QED BY <2>2, <2>3 DEF AttemptAgrees
<1>6. ASSUME NEW r \in Relays PROVE RelayFits(r)
  <2>1. at[r] = "acquire"
    BY DEF Init
  <2> QED BY <2>1 DEF RelayFits, Working, Before, After
<1> QED BY <1>2, <1>3, <1>4, <1>5, <1>6 DEF IInv

\* Every step keeps the invariant.
LEMMA StepOK ==
    ASSUME LockKept, IInv, [Next]_vars
    PROVE  IInv'
<1>1. CASE Request
  <2>1. CASE \E p \in Postings : LockClaim(p)
    BY <2>1, LockClaimStep
  <2>2. CASE \E p \in Postings : PassDeadline(p)
    BY <2>2, AroundStep
  <2>3. CASE \E a \in Accounts : ReadLedger(a) \/ Rollback(a)
    BY <2>3, ReadLedgerStep
  <2>4. CASE \E a \in Accounts : Record(a)
    BY <2>4, RecordStepOK
  <2>5. CASE \E p \in Invoices : IssueInvoice(p) \/ CancelInvoice(p) \/ ExpireInvoice(p)
    BY <2>5, InvoiceStepOK
  <2> QED BY <1>1, <2>1, <2>2, <2>3, <2>4, <2>5 DEF Request
<1>2. CASE Environment
  <2>1. \A q \in Routes : To[q] \in Accounts
    BY PostingAssumption DEF Routes
  <2>2. \E a \in Accounts : OpenAccount(a) \/ Deposit(a) \/ ForeignDebit(a)
    BY <1>2, <2>1 DEF Environment
  <2> QED BY <2>2, AroundStep
<1>3. CASE RouteRepair
  BY <1>3, RouteRepairStep
<1>4. ASSUME NEW r \in Relays, RelayStep(r) PROVE IInv'
  BY <1>4, DrainStep, ReadsStep, LegStep, RecordsStep, PostedStep, FailedStep, OutboxStampStep
     DEF RelayStep
<1>5. ASSUME NEW r \in Relays, RelayFault(r) PROVE IInv'
  <2>1. CASE Unavailable(r)
    <3>1. Retry(r) /\ at[r] # "acquire"
      BY <2>1 DEF Unavailable
    <3> QED BY <3>1, RetryStep
  <2>2. ~DropLock(r)
    BY DEF LockKept, DropLock
  <2> QED BY <1>5, <2>1, <2>2, LegStep, OutboxStampStep, ReadsStep, UnrecordableStep, PostedStep,
             CrashStep DEF RelayFault
<1>6. ASSUME NEW x \in Reapers, ReaperStep(x) PROVE IInv'
  BY <1>6, AroundStep, RedriveStep DEF ReaperStep
<1>7. CASE \E i \in parked : Unpark(i)
  BY <1>7, UnparkStep
<1>8. CASE UNCHANGED vars
  <2>1. UNCHANGED <<row, ver, late, claim, opened, outbox, dispatched, parked, tries, steps, ledger, refused,
                    deposited, foreign, money, lock, at, cur, batch, scan>>
    BY <1>8 DEF vars, apiVars, rowVars, tbVars, relayVars
  <2>2. TypeOK /\ TypeOK'
    BY <2>1 DEF IInv, TypeOK
  <2> QED BY <2>1, <2>2, StillKeeps, QuietClient
<1> QED BY <1>1, <1>2, <1>3, <1>4, <1>5, <1>6, <1>7, <1>8 DEF Next

\* The inductive invariant holds in every behaviour: rows, ledger, saga steps
\* and money events agree, and what the relay read before a call still holds
\* when it acts on the answer.
THEOREM PostingInvariant == ASSUME LockKept PROVE Spec => []IInv
<1>1. IInv /\ [Next]_vars => IInv'
  BY StepOK
<1> QED BY <1>1, InitOK, PTL DEF Spec

\* Types of every table, register and transfer.
THEOREM PostingTypes == ASSUME LockKept PROVE Spec => []TypeOK
<1>1. IInv => TypeOK
  BY DEF IInv
<1> QED BY <1>1, PostingInvariant, PTL

\* A row stamped failed has no leg on the ledger, then or ever after: not when
\* its event is retried, replayed by the reaper or unparked by an operator.
THEOREM RefusedStaysRefused == ASSUME LockKept PROVE Spec => []RefusedNeverMoves
<1>1. IInv => RefusedNeverMoves
  BY DEF IInv, AttemptAgrees, RefusedNeverMoves
<1> QED BY <1>1, PostingInvariant, PTL

\* An invoice is paid at most once, by the attempt its row was stamped with.
THEOREM PaidOnce == ASSUME LockKept PROVE Spec => []InvoicePaidOnce
<1>1. IInv => InvoicePaidOnce
  BY DEF IInv, AttemptAgrees, InvoicePaidOnce
<1> QED BY <1>1, PostingInvariant, PTL

\* A row reads posted only with its leg on the ledger and its money event
\* recorded.
THEOREM PostedIsAnnounced == ASSUME LockKept PROVE Spec => []PostedIsMovedAndAnnounced
<1>1. IInv => PostedIsMovedAndAnnounced
  BY DEF IInv, AttemptAgrees, PostedIsMovedAndAnnounced
<1> QED BY <1>1, PostingInvariant, PTL

\* No replay collides with an earlier event's saga step, so no posting can
\* hold up the queue that way.
THEOREM NoWedge == ASSUME LockKept PROVE Spec => []NeverWedged
<1>1. IInv => NeverWedged
  <2> SUFFICES ASSUME IInv, NEW r \in Relays, at[r] = "step" PROVE ~Collides(r)
    BY DEF NeverWedged
  <2>1. \A s \in steps : s[2] # Attempt(r)
    BY DEF IInv, RelayFits
  <2> QED BY <2>1 DEF Collides
<1> QED BY <1>1, PostingInvariant, PTL

-----------------------------------------------------------------------------
(***************************************************************************)
(* Coverage.  What an account has beyond what it owes never shrinks except *)
(* when a request is recorded, and a request is recorded only within it.   *)
(***************************************************************************)
\* What the account holds, foreign debits left out.
Bank(a) == InitBalance[a] + deposited[a] + Moved(To, a) - Moved(From, a)

Landed(p) == OnLedger(<<p, ver[p]>>)

\* The debits to come: what is recorded and not moved, and of a fee collector
\* the routes of the sweeps that reached it, made or not.
Due(a) ==
    {p \in Postings :
        /\ From[p] = a /\ ~Landed(p)
        /\ IF p \in Routes THEN \E s \in Sweeps : RouteOf[s] = p /\ Landed(s)
                           ELSE row[p] = "pending"}

Slack(a) == Bank(a) - Total(Due(a))

\* The claim's holder has counted all that is due, and then has room for its own.
ClaimCovered(a) ==
    /\ claim[a].stage = "locked" => Due(a) \subseteq claim[a].counted
    /\ claim[a].stage = "admitted" => Slack(a) >= Amount[claim[a].for]

\* A route exists only of a sweep that reached the collector.
RouteBacked(q) == row[q] # "none" => \E s \in Sweeps : RouteOf[s] = q /\ Landed(s)

Covered ==
    /\ \A a \in Accounts : Slack(a) >= 0
    /\ \A a \in Accounts : ClaimCovered(a)
    /\ \A q \in Routes : RouteBacked(q)


-----------------------------------------------------------------------------
(***************************************************************************)
(* Totals and balances as sums.                                            *)
(***************************************************************************)
LEMMA TotalIs ==
    ASSUME NEW S \in SUBSET Postings
    PROVE  Total(S) = SumOver(Amount, S) /\ Total(S) \in Nat /\ IsFiniteSet(S)
<1>1. Total(S) = SumOver(Amount, S)
  BY DEF Total, MapThenSumSet, MapThenFoldSet, SumOver, SumFn, IsSum
<1>2. IsFiniteSet(S) /\ \A x \in S : Amount[x] \in Nat
  BY PostingAssumption, FS_Subset
<1> QED BY <1>1, <1>2, SumNat

\* What each leg on the ledger moved, and the legs that credit or debit an account.
Worth == [i \in DOMAIN ledger |-> Amount[ledger[i][1]]]
Legs(side, a) == {i \in DOMAIN ledger : side[ledger[i][1]] = a}

LEMMA LegsFit ==
    ASSUME TypeOK, NEW side, NEW a
    PROVE  /\ Legs(side, a) \subseteq DOMAIN ledger
           /\ IsFiniteSet(DOMAIN ledger) /\ IsFiniteSet(Legs(side, a))
           /\ \A i \in DOMAIN ledger : Worth[i] \in Nat /\ Worth[i] \in Int
<1>1. ledger \in Seq(Attempts)
  BY DEF TypeOK
<1>2. DOMAIN ledger = 1..Len(ledger) /\ Len(ledger) \in Nat
  BY <1>1
<1>3. IsFiniteSet(DOMAIN ledger)
  BY <1>2, FS_Interval
<1>4. \A i \in DOMAIN ledger : ledger[i] \in Attempts
  BY <1>1, <1>2
<1>5. \A i \in DOMAIN ledger : Worth[i] \in Nat
  BY <1>4, PostingAssumption DEF Worth, Attempts
<1>6. Legs(side, a) \subseteq DOMAIN ledger
  BY DEF Legs
<1> QED BY <1>3, <1>5, <1>6, FS_Subset

LEMMA MovedIs ==
    ASSUME TypeOK, NEW side, NEW a
    PROVE  Moved(side, a) = SumOver(Worth, Legs(side, a)) /\ Moved(side, a) \in Nat
<1> DEFINE D == Legs(side, a)
           Rec(f) == f = [S \in SUBSET D |-> IF S = {} THEN 0
                            ELSE Amount[ledger[CHOOSE x \in S : TRUE][1]] + f[S \ {CHOOSE x \in S : TRUE}]]
           it == CHOOSE f : Rec(f)
<1>1. IsFiniteSet(D) /\ D \subseteq DOMAIN ledger
  BY LegsFit
<1>2. \A S \in SUBSET D : S # {} => Worth[CHOOSE x \in S : TRUE] = Amount[ledger[CHOOSE x \in S : TRUE][1]]
  BY <1>1 DEF Worth
<1>3. \A f : Rec(f) <=> IsSum(f, Worth, D)
  BY <1>2 DEF IsSum
<1>4. Rec(it)
  <2>1. \E f : IsSum(f, Worth, D)
    BY <1>1, SumExists
  <2> HIDE DEF Rec
  <2> QED BY <2>1, <1>3
<1>5. it[D] = SumOver(Worth, D)
  <2>1. IsSum(it, Worth, D)
    BY <1>3, <1>4
  <2> HIDE DEF it
  <2> QED BY <1>1, <2>1, SumUnique
<1>6. Moved(side, a) = it[D]
  BY DEF Moved, MapThenSumSet, MapThenFoldSet, Legs
<1>7. SumOver(Worth, D) \in Nat
  BY <1>1, LegsFit, SumNat
<1> QED BY <1>5, <1>6, <1>7


\* The facts above, which hold before a step and after it.
SumsOfLegs ==
    \A side, a :
        /\ Moved(side, a) = SumOver(Worth, Legs(side, a)) /\ Moved(side, a) \in Nat
        /\ Legs(side, a) \subseteq DOMAIN ledger
        /\ IsFiniteSet(DOMAIN ledger) /\ IsFiniteSet(Legs(side, a))
        /\ \A i \in DOMAIN ledger : Worth[i] \in Nat /\ Worth[i] \in Int

LEMMA LegsAddUp == TypeOK => SumsOfLegs
BY MovedIs, LegsFit DEF SumsOfLegs

LEMMA LegsStillAddUp == TypeOK' => SumsOfLegs'
BY LegsAddUp, PTL


\* A leg more moves its amount, on either side of it.
LEMMA MovedGrows ==
    ASSUME TypeOK, TypeOK', NEW t \in Attempts, ledger' = Append(ledger, t), NEW side, NEW a
    PROVE  Moved(side, a)' = Moved(side, a) + (IF side[t[1]] = a THEN Amount[t[1]] ELSE 0)
<1> DEFINE n == Len(ledger) + 1
           D == Legs(side, a)
<1>1. ledger \in Seq(Attempts) /\ Amount[t[1]] \in Nat
  BY PostingAssumption DEF TypeOK, Attempts
<1>2. /\ DOMAIN ledger' = DOMAIN ledger \cup {n} /\ n \notin DOMAIN ledger
      /\ ledger'[n] = t /\ \A i \in DOMAIN ledger : ledger'[i] = ledger[i]
  BY <1>1
<1>3. Worth'[n] = Amount[t[1]] /\ \A i \in DOMAIN ledger : Worth'[i] = Worth[i]
  BY <1>2 DEF Worth
<1>4. SumsOfLegs /\ SumsOfLegs'
  BY LegsAddUp, LegsStillAddUp
<1>5. Moved(side, a) = SumOver(Worth, D) /\ Moved(side, a) \in Nat /\ D \subseteq DOMAIN ledger /\ IsFiniteSet(D)
  BY <1>4 DEF SumsOfLegs
<1>6. Moved(side, a)' = SumOver(Worth', Legs(side, a)')
  BY <1>4 DEF SumsOfLegs
<1>7. \A i \in DOMAIN ledger' : Worth'[i] \in Int
  BY <1>4 DEF SumsOfLegs
<1>8. SumOver(Worth', D) = SumOver(Worth, D)
  BY <1>3, <1>5, SumSame
<1>9. CASE side[t[1]] = a
  <2>1. Legs(side, a)' = D \cup {n} /\ n \notin D
    BY <1>2, <1>5, <1>9 DEF Legs
  <2>2. \A i \in D \cup {n} : Worth'[i] \in Int
    BY <1>2, <1>5, <1>7
  <2> HIDE DEF n, D
  <2>3. SumOver(Worth', D \cup {n}) = SumOver(Worth', D) + Worth'[n]
    <3>1. PICK w, E, i : w = Worth' /\ E = D /\ i = n
      OBVIOUS
    <3>2. IsFiniteSet(E) /\ i \notin E /\ \A x \in E \cup {i} : w[x] \in Int
      BY <1>5, <2>1, <2>2, <3>1
    <3>3. SumOver(w, E \cup {i}) = SumOver(w, E) + w[i]
      BY <3>2, SumAdd
    <3> QED BY <3>1, <3>3
  <2> QED BY <1>3, <1>5, <1>6, <1>8, <1>9, <2>1, <2>3
<1>10. CASE side[t[1]] # a
  <2>1. Legs(side, a)' = D
    BY <1>2, <1>10 DEF Legs
  <2> QED BY <1>5, <1>6, <1>8, <1>10, <2>1
<1> QED BY <1>9, <1>10

\* A leg that is not created moves nothing.
LEMMA MovedStays ==
    ASSUME UNCHANGED ledger, NEW side, NEW a
    PROVE  Moved(side, a)' = Moved(side, a)
BY DEF Moved, MapThenSumSet, MapThenFoldSet

LEMMA BankIs ==
    ASSUME TypeOK, NEW a \in Accounts
    PROVE  Bank(a) \in Int /\ Balance(a) \in Int /\ Bank(a) = Balance(a) + foreign[a] /\ Balance(a) <= Bank(a)
<1>1. Moved(To, a) \in Nat /\ Moved(From, a) \in Nat
  BY LegsAddUp DEF SumsOfLegs
<1>2. InitBalance[a] \in Nat /\ deposited[a] \in Nat /\ foreign[a] \in Nat
  BY LedgerAssumption DEF TypeOK
<1> QED BY <1>1, <1>2 DEF Bank, Balance

LEMMA DueIs ==
    ASSUME NEW a
    PROVE  Due(a) \in SUBSET Postings
BY DEF Due


\* What an account has beyond what it owes is an integer.
SlackTyped == \A a \in Accounts :
    Bank(a) \in Int /\ Total(Due(a)) \in Nat /\ Slack(a) \in Int /\ IsFiniteSet(Due(a)) /\ Due(a) \subseteq Postings

LEMMA SlackNow == TypeOK => SlackTyped
<1> SUFFICES ASSUME TypeOK, NEW a \in Accounts
             PROVE  /\ Bank(a) \in Int /\ Total(Due(a)) \in Nat /\ Slack(a) \in Int
                    /\ IsFiniteSet(Due(a)) /\ Due(a) \subseteq Postings
  BY DEF SlackTyped
<1>1. Bank(a) \in Int
  BY BankIs
<1>2. Total(Due(a)) \in Nat /\ IsFiniteSet(Due(a)) /\ Due(a) \subseteq Postings
  BY DueIs, TotalIs
<1> QED BY <1>1, <1>2 DEF Slack

LEMMA SlackThen == TypeOK' => SlackTyped'
BY SlackNow, PTL

\* Fewer debits to come are a smaller total.
LEMMA TotalPart ==
    ASSUME NEW S \in SUBSET Postings, NEW E \in SUBSET S
    PROVE  Total(E) <= Total(S)
<1>1. IsFiniteSet(S) /\ \A x \in S : Amount[x] \in Nat
  BY TotalIs, PostingAssumption
<1>2. SumOver(Amount, E) <= SumOver(Amount, S)
  BY <1>1, SumPart
<1> QED BY <1>2, TotalIs

\* One debit more or less changes the total by its amount.
LEMMA TotalWithout ==
    ASSUME NEW S \in SUBSET Postings, NEW p \in S
    PROVE  Total(S) = Amount[p] + Total(S \ {p})
<1>1. IsFiniteSet(S) /\ \A x \in S : Amount[x] \in Int
  BY TotalIs, PostingAssumption
<1>2. SumOver(Amount, S) = Amount[p] + SumOver(Amount, S \ {p})
  BY <1>1, SumRemove
<1>3. S \ {p} \in SUBSET Postings
  OBVIOUS
<1> QED BY <1>2, <1>3, TotalIs

LEMMA TotalWith ==
    ASSUME NEW S \in SUBSET Postings, NEW p \in Postings
    PROVE  Total(S \cup {p}) <= Total(S) + Amount[p]
<1> DEFINE U == S \cup {p}
<1>1. U \in SUBSET Postings /\ p \in U /\ U \ {p} \in SUBSET S /\ Amount[p] \in Nat
  BY PostingAssumption
<1>2. Total(U) = Amount[p] + Total(U \ {p})
  BY <1>1, TotalWithout
<1>3. Total(U \ {p}) <= Total(S)
  BY <1>1, TotalPart
<1>4. Total(U) \in Nat /\ Total(U \ {p}) \in Nat /\ Total(S) \in Nat
  <2>1. U \ {p} \in SUBSET Postings
    BY <1>1
  <2> HIDE DEF U
  <2> QED BY <1>1, <2>1, TotalIs
<1> QED BY <1>1, <1>2, <1>3, <1>4

-----------------------------------------------------------------------------
(***************************************************************************)
(* What a step may do to an account's slack.                               *)
(***************************************************************************)
\* No route debits the account: what it owes is admitted under its claim's lock.
NoCollector(a) == \A q \in Routes : From[q] # a

Eases(a) ==
    /\ Slack(a)' >= Slack(a)
    /\ NoCollector(a) => Due(a)' \subseteq Due(a)

LEMMA EasesWhenLess ==
    ASSUME TypeOK, TypeOK', NEW a \in Accounts, Bank(a)' >= Bank(a), Due(a)' \subseteq Due(a)
    PROVE  Eases(a)
<1>1. PICK S, E, b, c : S = Due(a) /\ E = Due(a)' /\ b = Bank(a) /\ c = Bank(a)'
  OBVIOUS
<1>2. SlackTyped /\ SlackTyped'
  BY SlackNow, SlackThen
<1>3. S \in SUBSET Postings /\ E \in SUBSET S /\ b \in Int /\ c \in Int /\ c >= b
  BY <1>1, <1>2 DEF SlackTyped
<1>4. Total(E) <= Total(S) /\ Total(E) \in Nat /\ Total(S) \in Nat
  BY <1>3, TotalPart, TotalIs
<1>5. Slack(a) = b - Total(S) /\ Slack(a)' = c - Total(E)
  BY <1>1 DEF Slack
<1>6. Slack(a)' >= Slack(a)
  BY <1>3, <1>4, <1>5
<1> QED BY <1>6 DEF Eases

\* A claim is held by a request, and a request debits no collector.
LEMMA ClaimedIsNoCollector ==
    ASSUME IInv, NEW a \in Accounts, claim[a].stage # "free"
    PROVE  NoCollector(a)
<1>1. claim[a].for \in Postings \ Routes /\ From[claim[a].for] = a
  BY DEF IInv, ClaimFits
<1> QED BY <1>1, CollectorAssumption DEF NoCollector

LEMMA EasedCovered ==
    ASSUME IInv, TypeOK', Covered, UNCHANGED claim, \A a \in Accounts : Eases(a),
           \A q \in Routes : RouteBacked(q)'
    PROVE  Covered'
<1>0. SlackTyped /\ SlackTyped' /\ TypeOK
  BY SlackNow, SlackThen DEF IInv
<1>1. ASSUME NEW a \in Accounts PROVE Slack(a)' >= 0 /\ ClaimCovered(a)'
  <2>1. Slack(a) \in Int /\ Slack(a)' \in Int /\ Slack(a)' >= Slack(a) /\ Slack(a) >= 0
    BY <1>0 DEF SlackTyped, Eases, Covered
  <2>2. ClaimCovered(a) /\ claim'[a] = claim[a]
    BY DEF Covered
  <2>3. claim[a].stage = "locked" => Due(a)' \subseteq claim[a].counted
    BY <2>2, ClaimedIsNoCollector DEF ClaimCovered, Eases
  <2>4. claim[a].stage = "admitted" => Slack(a)' >= Amount[claim[a].for]
    <3>1. claim[a].stage = "admitted" => Amount[claim[a].for] \in Nat /\ Slack(a) >= Amount[claim[a].for]
      BY <2>2, PostingAssumption DEF IInv, ClaimFits, ClaimCovered
    <3> QED BY <2>1, <3>1
  <2> QED BY <2>1, <2>2, <2>3, <2>4 DEF ClaimCovered
<1> QED BY <1>1 DEF Covered


\* A step that decides rows and makes routes of landed sweeps, but posts nothing
\* and records no request.
RowsSettle ==
    \A p \in Postings :
        /\ p \notin Invoices => ver'[p] = ver[p]
        /\ p \notin Routes /\ row'[p] = "pending" => row[p] = "pending" /\ ver'[p] = ver[p]
        /\ p \in Routes /\ row'[p] # "none" =>
              row[p] # "none" \/ \E s \in Sweeps : RouteOf[s] = p /\ Landed(s)

LEMMA KindsApart ==
    /\ Routes \subseteq Postings /\ Sweeps \subseteq Postings
    /\ Routes \cap Invoices = {} /\ Sweeps \cap Invoices = {} /\ Sweeps \cap Routes = {}
BY DEF Routes, Sweeps, Invoices

LEMMA LandedStays ==
    ASSUME UNCHANGED ledger, NEW p, ver'[p] = ver[p]
    PROVE  Landed(p)' <=> Landed(p)
BY DEF Landed, OnLedger

LEMMA SettlingCovered ==
    ASSUME IInv, TypeOK', Covered, UNCHANGED <<claim, ledger>>, RowsSettle,
           \A a \in Accounts : deposited'[a] >= deposited[a]
    PROVE  Covered'
<1>1. TypeOK
  BY DEF IInv
<1>2. ASSUME NEW p \in Postings \ Invoices PROVE Landed(p)' <=> Landed(p)
  BY LandedStays DEF RowsSettle
<1>3. ASSUME NEW a \in Accounts PROVE Eases(a)
  <2>1. ASSUME NEW x \in Due(a)' PROVE x \in Due(a)
    <3>1. x \in Postings /\ From[x] = a /\ ~Landed(x)'
      BY <2>1 DEF Due
    <3>2. CASE x \in Routes
      <4>1. ~Landed(x)
        BY <1>2, <3>1, <3>2, KindsApart
      <4>2. PICK s \in Sweeps : RouteOf[s] = x /\ Landed(s)'
        BY <2>1, <3>2 DEF Due
      <4>3. Landed(s)
        BY <1>2, <4>2, KindsApart
      <4> QED BY <3>1, <3>2, <4>1, <4>2, <4>3 DEF Due
    <3>3. CASE x \notin Routes
      <4>1. row'[x] = "pending"
        BY <2>1, <3>3 DEF Due
      <4>2. row[x] = "pending" /\ ver'[x] = ver[x]
        BY <3>1, <3>3, <4>1 DEF RowsSettle
      <4>3. ~Landed(x)
        BY <3>1, <4>2, LandedStays
      <4> QED BY <3>1, <3>3, <4>2, <4>3 DEF Due
    <3> QED BY <3>2, <3>3
  <2>2. Bank(a)' >= Bank(a)
    <3>1. Moved(To, a)' = Moved(To, a) /\ Moved(From, a)' = Moved(From, a)
      BY MovedStays
    <3>2. Moved(To, a) \in Nat /\ Moved(From, a) \in Nat
      BY <1>1, LegsAddUp DEF SumsOfLegs
    <3>3. InitBalance[a] \in Nat /\ deposited[a] \in Nat /\ deposited'[a] \in Nat
      BY <1>1, LedgerAssumption DEF TypeOK
    <3> QED BY <3>1, <3>2, <3>3 DEF Bank
  <2> QED BY <1>1, <2>1, <2>2, EasesWhenLess
<1>4. ASSUME NEW q \in Routes PROVE RouteBacked(q)'
  <2>1. SUFFICES ASSUME row'[q] # "none" PROVE \E s \in Sweeps : RouteOf[s] = q /\ Landed(s)'
    BY DEF RouteBacked
  <2>2. row[q] # "none" \/ \E s \in Sweeps : RouteOf[s] = q /\ Landed(s)
    BY <2>1, KindsApart DEF RowsSettle
  <2>3. PICK s \in Sweeps : RouteOf[s] = q /\ Landed(s)
    BY <2>2 DEF Covered, RouteBacked
  <2>4. Landed(s)'
    BY <1>2, <2>3, KindsApart
  <2> QED BY <2>3, <2>4
<1> QED BY <1>3, <1>4, EasedCovered

\* Nothing but the relay's and the reaper's own registers and the queue moves.
LEMMA QuietCovered ==
    ASSUME IInv, TypeOK', Covered, UNCHANGED <<row, ver, claim, ledger>>,
           \A a \in Accounts : deposited'[a] >= deposited[a]
    PROVE  Covered'
<1>1. RowsSettle
  BY DEF RowsSettle
<1> QED BY <1>1, SettlingCovered

-----------------------------------------------------------------------------
(***************************************************************************)
(* Requests.                                                               *)
(***************************************************************************)
\* A request counts what is due under the claim's lock, then reads the ledger.
LEMMA ClaimingCovered ==
    ASSUME IInv, TypeOK', Covered,
           (\E p \in Postings : LockClaim(p)) \/ (\E a \in Accounts : ReadLedger(a) \/ Rollback(a))
    PROVE  Covered'
<1>0. TypeOK /\ SlackTyped /\ SlackTyped'
  BY SlackNow, SlackThen DEF IInv
<1>1. UNCHANGED <<row, ver, ledger, deposited, foreign>>
  BY DEF LockClaim, ReadLedger, Rollback, tbVars
<1>2. ASSUME NEW a \in Accounts PROVE Due(a)' = Due(a) /\ Bank(a)' = Bank(a) /\ Slack(a)' = Slack(a)
  <2>1. Due(a)' = Due(a)
    BY <1>1 DEF Due, Landed, OnLedger
  <2>2. Bank(a)' = Bank(a)
    BY <1>1, MovedStays DEF Bank
  <2> QED BY <2>1, <2>2 DEF Slack
<1>3. \A q \in Routes : RouteBacked(q)'
  BY <1>1 DEF Covered, RouteBacked, Landed, OnLedger
<1>4. ASSUME NEW a \in Accounts PROVE ClaimCovered(a)'
  <2>1. ClaimCovered(a)
    BY DEF Covered
  <2>2. CASE claim'[a] = claim[a]
    BY <1>2, <2>1, <2>2 DEF ClaimCovered
  <2>3. CASE claim'[a].stage = "free"
    BY <2>3 DEF ClaimCovered
  <2>4. CASE \E p \in Postings : LockClaim(p) /\ From[p] = a
    <3>1. PICK p \in Postings : LockClaim(p) /\ From[p] = a
      BY <2>4
    <3>2. claim'[a].stage = "locked" /\ claim'[a].counted = Unapplied(a)
      BY <1>0, <3>1 DEF LockClaim, TypeOK
    <3>3. NoCollector(a)
      <4>1. p \notin Routes
        BY <3>1 DEF LockClaim, Requestable, Routes
      <4> QED BY <3>1, <4>1, CollectorAssumption DEF NoCollector
    <3>4. Due(a) \subseteq Unapplied(a)
      BY <3>3 DEF Due, Unapplied, NoCollector
    <3> QED BY <1>2, <3>2, <3>4 DEF ClaimCovered
  <2>5. CASE ReadLedger(a) /\ claim'[a].stage # "free"
    <3>1. claim[a].stage = "locked" /\ claim[a].counted \in SUBSET Postings /\ claim[a].for \in Postings
      BY <2>5 DEF ReadLedger, IInv, TypeOK, ClaimFits
    <3>2. /\ claim'[a] = [claim[a] EXCEPT !.stage = "admitted"]
          /\ Balance(a) - Total(claim[a].counted) >= Amount[claim[a].for]
      BY <1>0, <2>5 DEF ReadLedger, TypeOK, Free
    <3>3. claim'[a].stage = "admitted" /\ claim'[a].for = claim[a].for
      BY <1>0, <3>2 DEF TypeOK
    <3>4. Total(Due(a)) <= Total(claim[a].counted) /\ Total(claim[a].counted) \in Nat
      BY <2>1, <3>1, TotalPart, TotalIs DEF ClaimCovered
    <3>5. Balance(a) <= Bank(a) /\ Balance(a) \in Int /\ Bank(a) \in Int /\ Total(Due(a)) \in Nat
      BY <1>0, BankIs DEF SlackTyped
    <3>6. Amount[claim[a].for] \in Nat
      BY <3>1, PostingAssumption
    <3>7. Slack(a) >= Amount[claim[a].for]
      BY <3>2, <3>4, <3>5, <3>6 DEF Slack
    <3> QED BY <1>2, <3>3, <3>7 DEF ClaimCovered
  <2>6. claim'[a] = claim[a] \/ claim'[a].stage = "free" \/ (\E p \in Postings : LockClaim(p) /\ From[p] = a)
                             \/ ReadLedger(a)
    <3>1. ASSUME NEW p \in Postings, LockClaim(p) PROVE claim'[a] = claim[a] \/ From[p] = a
      BY <1>0, <3>1 DEF LockClaim, TypeOK
    <3>2. ASSUME NEW b \in Accounts, ReadLedger(b) PROVE claim'[a] = claim[a] \/ b = a
      BY <1>0, <3>2 DEF ReadLedger, TypeOK
    <3>3. ASSUME NEW b \in Accounts, Rollback(b) PROVE claim'[a] = claim[a] \/ claim'[a].stage = "free"
      BY <1>0, <3>3 DEF Rollback, TypeOK, Free
    <3> QED BY <3>1, <3>2, <3>3
  <2> QED BY <2>2, <2>3, <2>4, <2>5, <2>6
<1> QED BY <1>2, <1>3, <1>4 DEF Covered


\* What is recorded was admitted within the slack the claim's holder has kept.
LEMMA RecordCovered ==
    ASSUME IInv, TypeOK', Covered, NEW a \in Accounts, Record(a)
    PROVE  Covered'
<1>0. TypeOK /\ SlackTyped /\ SlackTyped'
  BY SlackNow, SlackThen DEF IInv
<1>1. PICK p : p = claim[a].for
  OBVIOUS
<1>2. /\ p \in Postings \ Routes /\ From[p] = a /\ claim[a].stage = "admitted"
      /\ Slack(a) >= Amount[p] /\ Amount[p] \in Nat
  BY <1>1, PostingAssumption DEF IInv, ClaimFits, Record, Covered, ClaimCovered
<1>3. /\ row' = [row EXCEPT ![p] = "pending"] /\ claim' = [claim EXCEPT ![a] = Free]
      /\ UNCHANGED <<ledger, deposited>>
      /\ \A x \in Postings : x # p \/ x \notin Invoices => ver'[x] = ver[x]
  BY <1>0, <1>1 DEF Record, tbVars, TypeOK
<1>4. \A x \in Postings : x # p => row'[x] = row[x]
  BY <1>0, <1>3 DEF TypeOK
<1>5. ASSUME NEW x \in Postings, x # p \/ x \notin Invoices PROVE Landed(x)' <=> Landed(x)
  BY <1>3, <1>5, LandedStays
<1>6. ASSUME NEW b \in Accounts, NEW x \in Due(b)', x # p PROVE x \in Due(b)
  <2>1. x \in Postings /\ From[x] = b /\ ~Landed(x)' /\ ~Landed(x)
    BY <1>5, <1>6 DEF Due
  <2>2. CASE x \in Routes
    <3>1. PICK s \in Sweeps : RouteOf[s] = x /\ Landed(s)'
      BY <1>6, <2>2 DEF Due
    <3>2. Landed(s)
      BY <1>5, <3>1, KindsApart
    <3> QED BY <2>1, <2>2, <3>1, <3>2 DEF Due
  <2>3. CASE x \notin Routes
    <3>1. row'[x] = "pending" /\ row'[x] = row[x]
      BY <1>4, <1>6, <2>1, <2>3 DEF Due
    <3> QED BY <2>1, <2>3, <3>1 DEF Due
  <2> QED BY <2>2, <2>3
<1>7. ASSUME NEW b \in Accounts PROVE Bank(b)' = Bank(b)
  BY <1>3, MovedStays DEF Bank
<1>8. ASSUME NEW b \in Accounts, b # a PROVE Eases(b)
  <2>1. Due(b)' \subseteq Due(b)
    BY <1>2, <1>6, <1>8 DEF Due
  <2>2. Bank(b)' >= Bank(b)
    BY <1>0, <1>7 DEF SlackTyped
  <2> QED BY <1>0, <2>1, <2>2, EasesWhenLess
<1>9. Slack(a)' >= 0
  <2>1. PICK S, E, b : S = Due(a) /\ E = Due(a)' /\ b = Bank(a)
    OBVIOUS
  <2>2. S \in SUBSET Postings /\ E \in SUBSET Postings /\ b \in Int
    BY <1>0, <2>1 DEF SlackTyped
  <2>3. E \in SUBSET (S \cup {p})
    BY <1>6, <2>1
  <2>4. Total(E) <= Total(S \cup {p}) /\ Total(S \cup {p}) <= Total(S) + Amount[p]
    BY <1>2, <2>2, <2>3, TotalPart, TotalWith
  <2>5. Total(E) \in Nat /\ Total(S) \in Nat /\ Total(S \cup {p}) \in Nat
    BY <1>2, <2>2, TotalIs
  <2>6. Slack(a) = b - Total(S) /\ Slack(a)' = b - Total(E)
    BY <1>7, <2>1 DEF Slack
  <2> QED BY <1>2, <2>2, <2>4, <2>5, <2>6
<1>10. ASSUME NEW b \in Accounts PROVE Slack(b)' >= 0 /\ ClaimCovered(b)'
  <2>1. CASE b = a
    <3>1. claim'[b].stage = "free"
      BY <1>0, <1>3, <2>1 DEF TypeOK, Free
    <3> QED BY <1>9, <2>1, <3>1 DEF ClaimCovered
  <2>2. CASE b # a
    <3>1. claim'[b] = claim[b] /\ ClaimCovered(b) /\ Slack(b) >= 0
      BY <1>0, <1>3, <2>2 DEF TypeOK, Covered
    <3>2. Slack(b) \in Int /\ Slack(b)' \in Int /\ Slack(b)' >= Slack(b)
      BY <1>0, <1>8, <2>2 DEF SlackTyped, Eases
    <3>3. claim[b].stage = "locked" => Due(b)' \subseteq claim[b].counted
      BY <1>8, <2>2, <3>1, ClaimedIsNoCollector DEF ClaimCovered, Eases
    <3>4. claim[b].stage = "admitted" => Amount[claim[b].for] \in Nat /\ Slack(b) >= Amount[claim[b].for]
      BY <3>1, PostingAssumption DEF IInv, ClaimFits, ClaimCovered
    <3> QED BY <3>1, <3>2, <3>3, <3>4 DEF ClaimCovered
  <2> QED BY <2>1, <2>2
<1>11. ASSUME NEW q \in Routes PROVE RouteBacked(q)'
  <2>1. RouteBacked(q) /\ row'[q] = row[q]
    BY <1>2, <1>4, KindsApart DEF Covered
  <2>2. \A s \in Sweeps : Landed(s)' <=> Landed(s)
    BY <1>5, KindsApart
  <2> QED BY <2>1, <2>2 DEF RouteBacked
<1> QED BY <1>10, <1>11 DEF Covered

-----------------------------------------------------------------------------
(***************************************************************************)
(* The relay posts.                                                        *)
(***************************************************************************)
\* A leg takes its amount from where it was due; a sweep's makes its route due
\* where it brings as much.
LEMMA PostCovered ==
    ASSUME IInv, TypeOK', Covered, NEW r \in Relays, at[r] = "leg", Post(Attempt(r)),
           UNCHANGED <<row, ver, claim, deposited>>
    PROVE  Covered'
<1>0. TypeOK /\ SlackTyped /\ SlackTyped'
  BY SlackNow, SlackThen DEF IInv
<1>1. PICK t : t = Attempt(r)
  OBVIOUS
<1>2. PICK p : p = t[1]
  OBVIOUS
<1>3. /\ t \in Attempts /\ p \in Postings /\ t = <<p, ver[p]>>
      /\ row[p] = "pending" /\ ~OnLedger(t)
  <2>1. cur[r] \in DOMAIN outbox /\ Pend(Attempt(r)) /\ ~OnLedger(Attempt(r))
    BY DEF IInv, RelayFits, Working, Before
  <2>2. Attempt(r) \in Attempts
    BY <1>0, <2>1, InHand
  <2> QED BY <1>1, <1>2, <2>1, <2>2 DEF Pend, Attempts
<1>4. CASE ledger' = ledger
  <2>1. \A a \in Accounts : deposited'[a] >= deposited[a]
    BY <1>0 DEF TypeOK
  <2> QED BY <1>4, <2>1, QuietCovered
<1>5. CASE ledger' = Append(ledger, t)
  <2>1. ASSUME NEW x \in Postings PROVE Landed(x)' <=> (Landed(x) \/ x = p)
    <3>1. <<x, ver[x]>> \in Attempts
      BY <1>0 DEF TypeOK, Attempts
    <3>2. OnLedger(<<x, ver[x]>>)' <=> OnLedger(<<x, ver[x]>>) \/ <<x, ver[x]>> = t
      BY <1>0, <1>3, <1>5, <3>1, LedgerGrows
    <3> QED BY <1>3, <3>2 DEF Landed
  <2>2. ~Landed(p) /\ Amount[p] \in Nat
    BY <1>3, PostingAssumption DEF Landed
  <2>3. ASSUME NEW a \in Accounts, NEW x \in Due(a)'
        PROVE  x # p /\ (x \in Due(a) \/ (p \in Sweeps /\ x = RouteOf[p] /\ a = To[p]))
    <3>1. x \in Postings /\ From[x] = a /\ ~Landed(x)'
      BY <2>3 DEF Due
    <3>2. x # p /\ ~Landed(x)
      BY <2>1, <3>1
    <3>3. CASE x \in Routes
      <4>1. PICK s \in Sweeps : RouteOf[s] = x /\ Landed(s)'
        BY <2>3, <3>3 DEF Due
      <4>2. CASE s = p
        BY <3>1, <3>2, <4>1, <4>2, CollectorAssumption
      <4>3. CASE s # p
        <5>1. Landed(s)
          BY <2>1, <4>1, <4>3, KindsApart
        <5> QED BY <3>1, <3>2, <3>3, <4>1, <5>1 DEF Due
      <4> QED BY <4>2, <4>3
    <3>4. CASE x \notin Routes
      BY <2>3, <3>1, <3>2, <3>4 DEF Due
    <3> QED BY <3>2, <3>3, <3>4
  <2>4. p \in Due(From[p])
    <3>1. CASE p \in Routes
      BY <1>3, <2>2, <3>1 DEF Due, Covered, RouteBacked
    <3>2. CASE p \notin Routes
      BY <1>3, <2>2, <3>2 DEF Due
    <3> QED BY <3>1, <3>2
  <2>5. p \in Sweeps => From[p] # To[p] /\ RouteOf[p] \in Routes
    BY CollectorAssumption, PostingAssumption, KindsApart
  <2>6. ASSUME NEW a \in Accounts
        PROVE  /\ Moved(To, a)' = Moved(To, a) + (IF To[p] = a THEN Amount[p] ELSE 0)
               /\ Moved(From, a)' = Moved(From, a) + (IF From[p] = a THEN Amount[p] ELSE 0)
    BY <1>0, <1>2, <1>3, <1>5, MovedGrows
  <2>7. ASSUME NEW a \in Accounts
        PROVE  Bank(a)' = Bank(a) + (IF To[p] = a THEN Amount[p] ELSE 0) - (IF From[p] = a THEN Amount[p] ELSE 0)
    <3>1. Moved(To, a) \in Nat /\ Moved(From, a) \in Nat
      BY <1>0, LegsAddUp DEF SumsOfLegs
    <3>2. InitBalance[a] \in Nat /\ deposited[a] \in Nat /\ deposited'[a] = deposited[a]
      BY <1>0, LedgerAssumption DEF TypeOK
    <3> QED BY <2>2, <2>6, <3>1, <3>2 DEF Bank
  <2>8. ASSUME NEW a \in Accounts PROVE Eases(a)
    <3>1. PICK S, E, b, c : S = Due(a) /\ E = Due(a)' /\ b = Bank(a) /\ c = Bank(a)'
      OBVIOUS
    <3>2. S \in SUBSET Postings /\ E \in SUBSET Postings /\ b \in Int /\ c \in Int
      BY <1>0, <3>1 DEF SlackTyped
    <3>3. Slack(a) = b - Total(S) /\ Slack(a)' = c - Total(E) /\ Total(S) \in Nat /\ Total(E) \in Nat
      BY <3>1, <3>2, TotalIs DEF Slack
    <3>4. c = b + (IF To[p] = a THEN Amount[p] ELSE 0) - (IF From[p] = a THEN Amount[p] ELSE 0)
      BY <2>7, <3>1
    <3>5. CASE From[p] = a
      <4>1. p \in S /\ E \in SUBSET (S \ {p})
        BY <2>3, <2>4, <2>5, <3>1, <3>5
      <4>2. Total(S) = Amount[p] + Total(S \ {p}) /\ Total(E) <= Total(S \ {p}) /\ Total(S \ {p}) \in Nat
        <5>1. S \ {p} \in SUBSET Postings
          BY <3>2
        <5> QED BY <3>2, <4>1, <5>1, TotalWithout, TotalPart, TotalIs
      <4>3. c >= b - Amount[p]
        BY <2>2, <3>2, <3>4, <3>5
      <4>4. Slack(a)' >= Slack(a)
        BY <2>2, <3>2, <3>3, <4>2, <4>3
      <4> QED BY <3>1, <4>1, <4>4 DEF Eases
    <3>6. CASE From[p] # a /\ p \in Sweeps /\ a = To[p]
      <4>1. RouteOf[p] \in Postings /\ Amount[RouteOf[p]] = Amount[p] /\ E \in SUBSET (S \cup {RouteOf[p]})
        BY <2>3, <2>5, <3>1, <3>6, CollectorAssumption, KindsApart
      <4>2. Total(E) <= Total(S \cup {RouteOf[p]}) /\ Total(S \cup {RouteOf[p]}) <= Total(S) + Amount[p]
        <5>1. S \cup {RouteOf[p]} \in SUBSET Postings
          BY <3>2, <4>1
        <5>2. Total(E) <= Total(S \cup {RouteOf[p]})
          BY <4>1, <5>1, TotalPart
        <5>3. Total(S \cup {RouteOf[p]}) <= Total(S) + Amount[RouteOf[p]]
          BY <3>2, <4>1, TotalWith
        <5> QED BY <4>1, <5>2, <5>3
      <4>3. Total(S \cup {RouteOf[p]}) \in Nat
        <5>1. S \cup {RouteOf[p]} \in SUBSET Postings
          BY <3>2, <4>1
        <5> QED BY <5>1, TotalIs
      <4>4. c = b + Amount[p]
        BY <2>2, <3>2, <3>4, <3>6
      <4>5. Slack(a)' >= Slack(a)
        BY <2>2, <3>2, <3>3, <4>2, <4>3, <4>4
      <4>6. ~NoCollector(a)
        BY <2>5, <3>6, CollectorAssumption DEF NoCollector
      <4> QED BY <4>5, <4>6 DEF Eases
    <3>7. CASE From[p] # a /\ ~(p \in Sweeps /\ a = To[p])
      <4>1. Due(a)' \subseteq Due(a)
        BY <2>3, <3>7
      <4>2. Bank(a)' >= Bank(a)
        BY <2>2, <3>1, <3>2, <3>4, <3>7
      <4> QED BY <1>0, <4>1, <4>2, EasesWhenLess
    <3> QED BY <3>5, <3>6, <3>7
  <2>9. ASSUME NEW q \in Routes PROVE RouteBacked(q)'
    BY <2>1, KindsApart DEF Covered, RouteBacked
  <2> QED BY <2>8, <2>9, EasedCovered
<1> QED BY <1>1, <1>4, <1>5 DEF Post


-----------------------------------------------------------------------------
(***************************************************************************)
(* Stamps, invoices and routes.                                            *)
(***************************************************************************)
\* A route is made of a sweep that landed, whatever state it is made in.
LEMMA RouteSettles ==
    ASSUME IInv, NEW s \in Sweeps, Landed(s), UNCHANGED ver, RouteSwept(s, [row EXCEPT ![s] = "posted"])
    PROVE  RowsSettle
<1>1. row = [p \in Postings |-> row[p]] /\ RouteOf[s] \in Routes /\ RouteOf[s] \in Postings /\ s \in Postings
  BY PostingAssumption, KindsApart DEF IInv, TypeOK
<1>2. PICK q : q = RouteOf[s]
  OBVIOUS
<1>3. PICK state : row' = [row EXCEPT ![s] = "posted"] \/ row' = [row EXCEPT ![s] = "posted", ![q] = state]
  BY <1>2 DEF RouteSwept
<1>4. \A p \in Postings : p # q => row'[p] = row[p] \/ (p = s /\ row'[p] = "posted")
  BY <1>1, <1>2, <1>3
<1>5. s \notin Routes
  BY KindsApart
<1> QED BY <1>1, <1>2, <1>4, <1>5 DEF RowsSettle

\* A posted stamp needs its leg on the ledger, so the route it makes is backed.
LEMMA StampsSettle ==
    ASSUME IInv, NEW r \in Relays, StampPosted(r) \/ StampPostedUnrouted(r)
    PROVE  RowsSettle
<1>1. at[r] = "posted" /\ UNCHANGED ver /\ TypeOK
  BY DEF StampPosted, StampPostedUnrouted, IInv
<1>2. PICK t : t = Attempt(r)
  OBVIOUS
<1>3. t \in Attempts /\ t[1] \in Postings /\ OnLedger(t) /\ Pend(t) /\ t = <<t[1], ver[t[1]]>>
  <2>1. cur[r] \in DOMAIN outbox /\ Pend(Attempt(r)) /\ OnLedger(Attempt(r))
    BY <1>1 DEF IInv, RelayFits, Working, After
  <2>2. Attempt(r) \in Attempts
    BY <1>1, <2>1, InHand
  <2> QED BY <1>2, <2>1, <2>2 DEF Pend, Attempts
<1>4. CASE row' = [row EXCEPT ![t[1]] = "posted"]
  <2>1. \A p \in Postings : row'[p] = row[p] \/ (p = t[1] /\ row'[p] = "posted")
    BY <1>1, <1>4 DEF TypeOK
  <2>2. row[t[1]] = "pending"
    BY <1>3 DEF Pend
  <2> QED BY <1>1, <2>1, <2>2 DEF RowsSettle
<1>5. CASE t[1] \in Sweeps /\ RouteSwept(t[1], [row EXCEPT ![t[1]] = "posted"])
  <2>1. Landed(t[1])
    BY <1>3 DEF Landed
  <2> QED BY <1>1, <1>5, <2>1, RouteSettles
<1>6. RowState(t) = "pending"
  BY <1>3 DEF RowState, Pend
<1> QED BY <1>2, <1>4, <1>5, <1>6 DEF StampPosted, StampPostedUnrouted, MarkPosted

\* A refusal takes a debit away and never makes one.
LEMMA RefusalsSettle ==
    ASSUME IInv, NEW r \in Relays, StampFailed(r) \/ ParkRow(r)
    PROVE  RowsSettle
<1>1. MarkFailed(Attempt(r)) /\ TypeOK
  BY DEF StampFailed, ParkRow, IInv
<1>2. PICK t : t = Attempt(r)
  OBVIOUS
<1>3. t \in Attempts /\ t[1] \in Postings
  <2>1. cur[r] \in DOMAIN outbox
    BY DEF IInv, RelayFits, StampFailed, ParkRow
  <2> QED BY <1>1, <1>2, <2>1, InHand
<1>4. CASE UNCHANGED <<row, ver>>
  BY <1>4 DEF RowsSettle
<1>5. CASE RowState(t) = "pending" /\ row' = [row EXCEPT ![t[1]] = "failed"] /\ UNCHANGED ver
  <2>1. \A p \in Postings : row'[p] = row[p] \/ (p = t[1] /\ row'[p] = "failed")
    BY <1>1, <1>5 DEF TypeOK
  <2>2. row[t[1]] = "pending"
    BY <1>5 DEF RowState
  <2> QED BY <1>5, <2>1, <2>2 DEF RowsSettle
<1>6. CASE t[1] \in Invoices /\ row' = [row EXCEPT ![t[1]] = "open"] /\ ver' = [ver EXCEPT ![t[1]] = @ + 1]
  <2>1. \A p \in Postings : (row'[p] = row[p] /\ ver'[p] = ver[p]) \/ (p = t[1] /\ row'[p] = "open")
    BY <1>1, <1>6 DEF TypeOK
  <2> QED BY <1>6, <2>1, KindsApart DEF RowsSettle
<1> QED BY <1>1, <1>2, <1>4, <1>5, <1>6 DEF MarkFailed

\* An invoice's own steps never make it pending.
LEMMA InvoicesSettle ==
    ASSUME IInv, NEW p \in Invoices, IssueInvoice(p) \/ CancelInvoice(p) \/ ExpireInvoice(p)
    PROVE  RowsSettle
<1>1. TypeOK /\ p \in Postings /\ p \notin Routes
  BY KindsApart DEF IInv, Invoices
<1>2. PICK to, v : to # "pending" /\ row' = [row EXCEPT ![p] = to] /\ ver' = [ver EXCEPT ![p] = v]
  BY DEF IssueInvoice, CancelInvoice, ExpireInvoice, InvoiceStep
<1>3. \A x \in Postings : (row'[x] = row[x] /\ ver'[x] = ver[x]) \/ (x = p /\ row'[x] # "pending")
  BY <1>1, <1>2 DEF TypeOK
<1> QED BY <1>1, <1>3 DEF RowsSettle

\* The reaper routes posted sweeps, and revives routes that were made before.
LEMMA RepairsSettle ==
    ASSUME IInv, RouteRepair
    PROVE  RowsSettle
<1>1. TypeOK
  BY DEF IInv
<1>2. ASSUME NEW s \in Sweeps, RouteUnrouted(s) PROVE RowsSettle
  <2>1. row[s] = "posted" /\ RouteSwept(s, row) /\ UNCHANGED ver
    BY <1>2 DEF RouteUnrouted
  <2>2. [row EXCEPT ![s] = "posted"] = row
    BY <1>1, <2>1 DEF TypeOK
  <2>3. Landed(s)
    <3>1. <<s, ver[s]>> \in Attempts
      BY <1>1, KindsApart DEF TypeOK, Attempts
    <3>2. AttemptAgrees(<<s, ver[s]>>)
      BY <3>1 DEF IInv
    <3> QED BY <2>1, <3>2 DEF AttemptAgrees, Landed
  <2> QED BY <2>1, <2>2, <2>3, RouteSettles
<1>3. ASSUME NEW q \in Routes, ReviveRoute(q) PROVE RowsSettle
  <2>1. row[q] = "missing" /\ row' = [row EXCEPT ![q] = "pending"] /\ UNCHANGED ver
    BY <1>3 DEF ReviveRoute
  <2>2. \A p \in Postings : row'[p] = row[p] \/ p = q
    BY <1>1, <2>1 DEF TypeOK
  <2> QED BY <2>1, <2>2 DEF RowsSettle
<1> QED BY <1>2, <1>3 DEF RouteRepair


-----------------------------------------------------------------------------
LEMMA InitCovered == Init => Covered
<1> SUFFICES ASSUME Init PROVE Covered
  OBVIOUS
<1>1. TypeOK
  BY InitOK DEF IInv
<1>2. ASSUME NEW a \in Accounts PROVE Slack(a) >= 0
  <2>1. Due(a) = {}
    <3>1. \A p \in Postings : row[p] # "pending" /\ ~Landed(p)
      BY DEF Init, Landed, OnLedger
    <3>2. \A s \in Sweeps : ~Landed(s)
      BY <3>1, KindsApart
    <3> QED BY <3>1, <3>2 DEF Due
  <2>2. Total({}) = 0
    BY TotalIs, SumChosen, FS_EmptySet
  <2>3. ledger = <<>> /\ deposited[a] = 0
    BY DEF Init
  <2>4. \A side, b : Legs(side, b) = {}
    BY <2>3 DEF Legs
  <2>5. \A side, b : Moved(side, b) = 0
    BY <1>1, <2>4, MovedIs, SumChosen, FS_EmptySet
  <2>6. Bank(a) = InitBalance[a] /\ InitBalance[a] \in Nat
    BY <2>3, <2>5, LedgerAssumption DEF Bank
  <2> QED BY <2>1, <2>2, <2>6 DEF Slack
<1>3. ASSUME NEW a \in Accounts PROVE ClaimCovered(a)
  BY DEF Init, ClaimCovered, Free
<1>4. ASSUME NEW q \in Routes PROVE RouteBacked(q)
  BY KindsApart DEF Init, RouteBacked
<1> QED BY <1>2, <1>3, <1>4 DEF Covered

\* Every step keeps the accounts covered.
LEMMA StepCovered ==
    ASSUME LockKept, IInv, Covered, [Next]_vars
    PROVE  Covered'
<1>1. TypeOK /\ TypeOK'
  BY StepOK DEF IInv
<1>2. UNCHANGED deposited => \A a \in Accounts : deposited'[a] >= deposited[a]
  BY <1>1 DEF TypeOK
<1>3. UNCHANGED <<row, ver, claim, ledger, deposited>> => Covered'
  BY <1>1, <1>2, QuietCovered
<1>4. UNCHANGED <<claim, ledger, deposited>> /\ RowsSettle => Covered'
  BY <1>1, <1>2, SettlingCovered
<1>5. CASE Request
  <2>1. CASE (\E p \in Postings : LockClaim(p)) \/ (\E a \in Accounts : ReadLedger(a) \/ Rollback(a))
    BY <1>1, <2>1, ClaimingCovered
  <2>2. CASE \E p \in Postings : PassDeadline(p)
    BY <1>3, <2>2 DEF PassDeadline, tbVars
  <2>3. CASE \E a \in Accounts : Record(a)
    BY <1>1, <2>3, RecordCovered
  <2>4. CASE \E p \in Invoices : IssueInvoice(p) \/ CancelInvoice(p) \/ ExpireInvoice(p)
    <3>1. RowsSettle
      BY <2>4, InvoicesSettle
    <3>2. UNCHANGED <<claim, ledger, deposited>>
      BY <2>4 DEF IssueInvoice, CancelInvoice, ExpireInvoice, InvoiceStep, tbVars
    <3> QED BY <1>4, <3>1, <3>2
  <2> QED BY <1>5, <2>1, <2>2, <2>3, <2>4 DEF Request
<1>6. CASE Environment
  <2>1. CASE \E q \in Routes : OpenAccount(To[q])
    BY <1>3, <2>1 DEF OpenAccount, tbVars
  <2>2. ASSUME NEW a \in Accounts, Deposit(a) PROVE Covered'
    <3>1. UNCHANGED <<row, ver, claim, ledger>> /\ deposited' = [deposited EXCEPT ![a] = @ + 1]
      BY <2>2 DEF Deposit, apiVars
    <3>2. \A b \in Accounts : deposited'[b] >= deposited[b]
      BY <1>1, <3>1 DEF TypeOK
    <3> QED BY <1>1, <3>1, <3>2, QuietCovered
  <2>3. CASE \E a \in Accounts : ForeignDebit(a)
    BY <1>3, <2>3 DEF ForeignDebit, apiVars
  <2> QED BY <1>6, <2>1, <2>2, <2>3 DEF Environment
<1>7. CASE RouteRepair
  <2>1. UNCHANGED <<claim, ledger, deposited>>
    BY <1>7 DEF RouteRepair, RouteUnrouted, ReviveRoute, tbVars
  <2> QED BY <1>4, <1>7, <2>1, RepairsSettle
<1>8. ASSUME NEW r \in Relays, RelayStep(r) \/ RelayFault(r) PROVE Covered'
  <2>1. CASE LegTaken(r) \/ LegUnanswered(r) \/ LegRefused(r)
    <3>1. at[r] = "leg" /\ UNCHANGED <<row, ver, claim, deposited>>
      BY <2>1 DEF LegTaken, LegUnanswered, LegRefused, apiVars, tbVars
    <3>2. Post(Attempt(r)) \/ UNCHANGED ledger
      BY <2>1 DEF LegTaken, LegUnanswered, LegRefused
    <3> QED BY <1>1, <1>3, <3>1, <3>2, PostCovered
  <2>2. CASE StampPosted(r) \/ StampPostedUnrouted(r) \/ StampFailed(r) \/ ParkRow(r)
    <3>1. RowsSettle
      BY <2>2, StampsSettle, RefusalsSettle
    <3>2. UNCHANGED <<claim, ledger, deposited>>
      BY <2>2 DEF StampPosted, StampPostedUnrouted, StampFailed, ParkRow, tbVars
    <3> QED BY <1>4, <3>1, <3>2
  <2>3. CASE \/ AcquireLock(r) \/ NextBatch(r) \/ (\E i \in batch[r] : TakeRow(r, i)) \/ LostLock(r)
             \/ MarkDispatched(r) \/ Park(r) \/ ParkUnrecorded(r) \/ StampLost(r) \/ Crash(r) \/ DropLock(r)
    BY <1>3, <2>3 DEF AcquireLock, NextBatch, TakeRow, LostLock, MarkDispatched, Park, ParkUnrecorded,
                      StampLost, Crash, DropLock, apiVars, tbVars
  <2>4. CASE ReadState(r) \/ AppliedCheck(r) \/ WindowCheck(r) \/ OldDispatch(r) \/ Unavailable(r)
    BY <1>3, <2>4 DEF ReadState, AppliedCheck, WindowCheck, OldDispatch, Unavailable, Jump, Retry, apiVars, tbVars
  <2>5. CASE RecordStep(r) \/ RecordEvent(r) \/ EventUnrecordable(r)
    BY <1>3, <2>5 DEF RecordStep, RecordEvent, EventUnrecordable, Retry, apiVars, tbVars
  <2> QED BY <1>8, <2>1, <2>2, <2>3, <2>4, <2>5 DEF RelayStep, RelayFault
<1>9. ASSUME NEW x \in Reapers, ReaperStep(x) PROVE Covered'
  BY <1>3, <1>9 DEF ReaperStep, Scan, Redrive, apiVars, tbVars
<1>10. CASE \E i \in parked : Unpark(i)
  BY <1>3, <1>10 DEF Unpark, apiVars, tbVars
<1>11. CASE UNCHANGED vars
  BY <1>3, <1>11 DEF vars, apiVars, tbVars
<1> QED BY <1>5, <1>6, <1>7, <1>8, <1>9, <1>10, <1>11 DEF Next

\* Two requests that race for one account, with the relay posting between the
\* guard's two reads, are never both admitted on the same money; and a fee
\* collector always holds what its routes are to take.
THEOREM RecordedCovered == ASSUME LockKept PROVE Spec => []RecordedIsCovered
<1>1. IInv /\ Covered /\ [Next]_vars => Covered'
  BY StepCovered
<1>2. IInv /\ Covered => RecordedIsCovered
  <2> SUFFICES ASSUME IInv, Covered, NEW a \in Accounts PROVE Balance(a) + foreign[a] >= Total(Promised(a))
    BY DEF RecordedIsCovered
  <2>1. TypeOK /\ SlackTyped
    BY SlackNow DEF IInv
  <2>2. PICK S, E, b : S = Due(a) /\ E = Promised(a) /\ b = Bank(a)
    OBVIOUS
  <2>3. E \in SUBSET S /\ S \in SUBSET Postings /\ b \in Int
    <3>1. ASSUME NEW p \in Promised(a) PROVE p \in Due(a)
      <4>1. p \in Postings /\ From[p] = a /\ row[p] = "pending" /\ ~Landed(p)
        BY <3>1 DEF Promised, Unapplied, Landed
      <4>2. p \in Routes => \E s \in Sweeps : RouteOf[s] = p /\ Landed(s)
        BY <4>1 DEF Covered, RouteBacked
      <4> QED BY <4>1, <4>2 DEF Due
    <3> QED BY <2>1, <2>2, <3>1 DEF SlackTyped
  <2>4. Total(E) <= Total(S) /\ Total(E) \in Nat /\ Total(S) \in Nat
    BY <2>3, TotalPart, TotalIs
  <2>5. b - Total(S) >= 0
    BY <2>2 DEF Covered, Slack
  <2>6. b = Balance(a) + foreign[a]
    BY <2>1, <2>2, BankIs
  <2> QED BY <2>2, <2>3, <2>4, <2>5, <2>6
<1> QED BY <1>1, <1>2, InitCovered, PostingInvariant, PTL DEF Spec
=============================================================================
