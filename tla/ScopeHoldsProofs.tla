-------------------------- MODULE ScopeHoldsProofs --------------------------
(***************************************************************************)
(* Proofs about holds, for any number of holds, charges, mandates and      *)
(* concurrent callers, under every fault the model has: the ledger and the *)
(* holds agree once a hold's events are through, a refused reservation     *)
(* moves nothing, a user whose mandates are gone has no hold standing,     *)
(* draws and fills that race stay under the caps together, and the         *)
(* client's stream tells each event of a hold once, and in order but for   *)
(* the events whose rows were parked and put back.                         *)
(***************************************************************************)
EXTENDS ScopeHolds, Sums

-----------------------------------------------------------------------------
(***************************************************************************)
(* What a hold's rows say, one after the other.                            *)
(***************************************************************************)
RowSet == [hold : Holds, kind : {"placed", "captured", "released"}, version : Nat \ {0}, released : Nat,
           held : Nat, amount : Nat, st : {"queued", "parked", "done"}, again : BOOLEAN]

\* What the hold still holds after the row, and what it has captured by then.
Rest(r) == IF r.kind = "placed" THEN r.amount ELSE IF r.kind = "captured" THEN r.held - r.amount ELSE 0
Gone(r) == HoldAmount[r.hold] - IF r.kind = "released" THEN r.held ELSE Rest(r)

RowFits(r) ==
    /\ r.version <= version[r.hold]
    /\ r.kind = "placed" => r.version = 1 /\ r.amount = HoldAmount[r.hold]
    /\ r.kind # "placed" => r.released >= 1 /\ r.version = r.released + 1 /\ r.held \in 1..HoldAmount[r.hold]
    /\ r.kind = "captured" => r.amount \in 1..r.held
    /\ r.kind = "released" => r.amount = 0
    /\ Remaining(r.hold) <= Rest(r)

\* A later row of a hold has a later version and starts from what the one before left.
RowFollows(r, s) ==
    /\ r.version < s.version /\ s.kind # "placed" /\ s.held <= Rest(r)
    /\ s.version = r.version + 1 => s.held = Rest(r)

RowsFit ==
    /\ rows \in Seq(RowSet)
    /\ \A i \in DOMAIN rows : RowFits(rows[i])
    /\ \A i, j \in DOMAIN rows : i < j /\ rows[i].hold = rows[j].hold => RowFollows(rows[i], rows[j])

HoldFits(h) ==
    /\ hstate[h] = "none" <=> version[h] = 0
    /\ hstate[h] = "none" => captured[h] = 0
    /\ hstate[h] = "active" => standing[h] = version[h] /\ captured[h] < HoldAmount[h]
    /\ hstate[h] = "captured" => captured[h] = HoldAmount[h]
    /\ h \in refusedAt => hstate[h] = "voided" /\ captured[h] = 0
    /\ h \notin refusedAt =>
        /\ \A v \in 1..version[h] : \E i \in DOMAIN rows : rows[i].hold = h /\ rows[i].version = v
        /\ \A i \in DOMAIN rows : rows[i].hold = h /\ rows[i].version = version[h] =>
              Remaining(h) = Rest(rows[i]) /\ captured[h] = Gone(rows[i])

HoldTypes ==
    /\ hstate \in [Holds -> HoldStates]
    /\ captured \in [Holds -> Nat] /\ \A h \in Holds : captured[h] <= HoldAmount[h]
    /\ version \in [Holds -> Nat]
    /\ standing \in [Holds -> Nat] /\ \A h \in Holds : standing[h] <= version[h]
    /\ refusedAt \subseteq Holds

Story == HoldTypes /\ RowsFit /\ \A h \in Holds : HoldFits(h)

-----------------------------------------------------------------------------
(***************************************************************************)
(* What the ledger holds of a hold's rows.                                 *)
(***************************************************************************)
\* Whether these books have the row's own legs; Applied asks it of the ledger.
On(r, rsv, vd, tk) ==
    IF r.kind = "placed" THEN 1 \in rsv[r.hold]
    ELSE IF r.kind = "captured" THEN r.version \in DOMAIN tk[r.hold]
    ELSE r.released \in vd[r.hold]

SumOf(f) == SumOver(f, DOMAIN f)

BookTypes ==
    /\ reserved \in [Holds -> SUBSET (Nat \ {0})]
    /\ voided \in [Holds -> SUBSET (Nat \ {0})]
    /\ DOMAIN taken = Holds
    /\ \A h \in Holds : taken[h] \in [DOMAIN taken[h] -> Nat] /\ DOMAIN taken[h] \subseteq Nat \ {0, 1}
    /\ free \in Nat
    /\ ledgerNo \subseteq Holds /\ refusedAt \subseteq ledgerNo

BookFits(h) ==
    /\ voided[h] \subseteq reserved[h]
    /\ \A v \in reserved[h] : \A u \in 1..(v - 1) : u \in voided[h]
    /\ h \in ledgerNo => reserved[h] = {}
    /\ reserved[h] = {} => taken[h] = <<>>
    /\ \A v \in DOMAIN taken[h] :
        /\ v - 1 \in voided[h]
        /\ \E i \in DOMAIN rows : rows[i].hold = h /\ rows[i].version = v /\ rows[i].kind = "captured"
    /\ \A v \in reserved[h] : \E i \in DOMAIN rows :
          rows[i].hold = h /\ rows[i].version = v /\ On(rows[i], reserved, voided, taken) /\ Rest(rows[i]) > 0
    /\ \A v \in voided[h] : \E i \in DOMAIN rows :
          rows[i].hold = h /\ rows[i].version = v + 1 /\ On(rows[i], reserved, voided, taken)

\* The relay has come past the row: carried, parked, or put back by an operator.
Passed(r) == r.st # "queued" \/ r.again

RowOnBooks(i) ==
    /\ rows[i].st = "done" => On(rows[i], reserved, voided, taken) \/ rows[i].hold \in refusedAt
    /\ On(rows[i], reserved, voided, taken) =>
        /\ Rest(rows[i]) > 0 => rows[i].version \in reserved[rows[i].hold]
        /\ \A j \in DOMAIN rows : j < i /\ rows[j].hold = rows[i].hold => Passed(rows[j])
        \* The last one the ledger has seen tells what it has moved.
        /\ rows[i].version \notin voided[rows[i].hold] => SumOf(taken[rows[i].hold]) = Gone(rows[i])

Books == BookTypes /\ (\A h \in Holds : BookFits(h)) /\ (\A i \in DOMAIN rows : RowOnBooks(i))

-----------------------------------------------------------------------------
\* Every event the client was sent is of a row the ledger has, or is the refusal.
FeedFits(h) ==
    /\ feed[h] \in Seq([version : Nat, remaining : Nat])
    /\ h \in refusedAt => Len(feed[h]) <= 1
    /\ h \notin refusedAt => \A n \in DOMAIN feed[h] : \E i \in DOMAIN rows :
          /\ rows[i].hold = h /\ On(rows[i], reserved, voided, taken)
          /\ feed[h][n].version = rows[i].version /\ feed[h][n].remaining = Rest(rows[i])

Told == DOMAIN feed = Holds /\ (\A h \in Holds : FeedFits(h)) /\ FeedInOrder

-----------------------------------------------------------------------------
(***************************************************************************)
(* Mandates, the requests that draw on them, and what they add up to.      *)
(***************************************************************************)
TaskSet ==
    {NoTask}
    \union [kind : {"reserve"}, hold : Holds, mandate : Mandates]
    \union [kind : {"charge"}, charge : ChargeIds, mandate : Mandates]
    \union [kind : {"revoke"}, mandate : Mandates]
    \union [kind : {"fill"}, hold : Holds, amount : Nat \ {0}]

DrawTypes ==
    /\ charge \in [ChargeIds -> {"none", "pending", "posted", "failed"}]
    /\ mandate \in [Mandates -> {"none", "current", "revoked", "replaced"}]
    /\ under \in [Holds -> Mandates]
    /\ task \in [Callers -> TaskSet]
    /\ IsFiniteSet(capRows)
    /\ capRows \subseteq [hold : Holds, version : Nat, amount : Nat, fill : BOOLEAN]
    /\ \A r \in capRows : r.hold \notin refusedAt

LocksMandate(c) == task[c].kind \in {"reserve", "charge", "revoke"}

LocksFit ==
    /\ \A m, n \in Mandates : mandate[m] = "current" /\ mandate[n] = "current" => m = n
    /\ \A c, d \in Callers : LocksMandate(c) /\ LocksMandate(d) => c = d
    /\ \A c \in Callers : LocksMandate(c) => mandate[task[c].mandate] = "current"
    /\ \A c, d \in Callers : task[c].kind = "fill" /\ task[d].kind = "fill" => c = d
    /\ \A h \in Holds : hstate[h] = "active" => \E m \in Mandates : mandate[m] = "current"

\* What a request read before its commit still holds when it commits.
DrawFits(c) ==
    /\ task[c].kind = "reserve" =>
        /\ Outstanding + HoldAmount[task[c].hold] <= Caps[task[c].mandate].outstanding
        /\ DrawnNew + HoldAmount[task[c].hold] <= Caps[task[c].mandate].day
    /\ task[c].kind = "charge" => DrawnNew + ChargeAmount[task[c].charge] <= Caps[task[c].mandate].day
    /\ task[c].kind = "fill" =>
        /\ hstate[task[c].hold] = "active" /\ task[c].amount <= Remaining(task[c].hold)
        /\ Filled + task[c].amount <= Caps[under[task[c].hold]].fill

Drawing == DrawTypes /\ LocksFit /\ \A c \in Callers : DrawFits(c)

HoldsInv == Story /\ Books /\ Told /\ DoneIsTold /\ Drawing

-----------------------------------------------------------------------------
(***************************************************************************)
(* How a step changes the story: it adds rows for the holds it moves, or   *)
(* it stamps a row, or the ledger's refusal closes a hold.                 *)
(***************************************************************************)
LEMMA Consts ==
    /\ IsFiniteSet(Holds) /\ IsFiniteSet(ChargeIds) /\ Balance \in Nat
    /\ \A h \in Holds : HoldAmount[h] \in Nat \ {0}
    /\ \A k \in ChargeIds : ChargeAmount[k] \in Nat \ {0}
    /\ \A m \in Mandates : Caps[m].day \in Nat /\ Caps[m].outstanding \in Nat /\ Caps[m].fill \in Nat
BY HoldsAssumption

NewRow(r) ==
    /\ r.st = "queued" /\ r.version = version[r.hold] + 1
    /\ IF version[r.hold] = 0
       THEN r.kind = "placed" /\ r.amount = HoldAmount[r.hold]
       ELSE /\ r.kind \in {"captured", "released"}
            /\ r.released = version[r.hold] /\ r.held = Remaining(r.hold) /\ r.held > 0
            /\ r.kind = "captured" => r.amount \in 1..r.held
            /\ r.kind = "released" => r.amount = 0

\* The holds of S each get one row more, and stand as it says.
Adds(s, S) ==
    /\ s \in Seq(RowSet) /\ rows' = rows \o s /\ S \subseteq Holds /\ S \cap refusedAt = {}
    /\ HoldTypes'
    /\ UNCHANGED <<refusedAt, reserved, voided, taken, free, ledgerNo, feed>>
    /\ \A h \in Holds \ S : /\ hstate'[h] = hstate[h] /\ captured'[h] = captured[h]
                            /\ version'[h] = version[h] /\ standing'[h] = standing[h]
    /\ \A h \in S :
        /\ version'[h] = version[h] + 1 /\ hstate'[h] # "none"
        /\ hstate'[h] = "active" => standing'[h] = version'[h] /\ captured'[h] < HoldAmount[h]
        /\ hstate'[h] = "captured" => captured'[h] = HoldAmount[h]
        /\ \E k \in DOMAIN s : s[k].hold = h
    /\ \A k \in DOMAIN s :
        /\ s[k].hold \in S /\ NewRow(s[k])
        /\ Rest(s[k]) = IF hstate'[s[k].hold] = "active" THEN HoldAmount[s[k].hold] - captured'[s[k].hold] ELSE 0
        /\ Gone(s[k]) = captured'[s[k].hold]
    /\ \A k, l \in DOMAIN s : s[k].hold = s[l].hold => k = l

LEMMA AddsRows ==
    ASSUME rows \in Seq(RowSet), NEW s \in Seq(RowSet), rows' = rows \o s
    PROVE  /\ rows' \in Seq(RowSet)
           /\ \A i \in DOMAIN rows : i \in DOMAIN rows' /\ rows'[i] = rows[i]
           /\ \A k \in DOMAIN s : Len(rows) + k \in DOMAIN rows' /\ rows'[Len(rows) + k] = s[k]
           /\ \A i \in DOMAIN rows' : i \in DOMAIN rows \/ \E k \in DOMAIN s : i = Len(rows) + k /\ rows'[i] = s[k]
           /\ \A i \in DOMAIN rows, k \in DOMAIN s : i < Len(rows) + k
           /\ DOMAIN rows = 1..Len(rows) /\ Len(rows) \in Nat /\ DOMAIN rows' \subseteq Nat
<1>1. Len(s) \in Nat /\ Len(rows) \in Nat /\ DOMAIN rows = 1..Len(rows) /\ DOMAIN s = 1..Len(s)
  OBVIOUS
<1>2. rows' \in Seq(RowSet) /\ Len(rows') = Len(rows) + Len(s) /\ DOMAIN rows' = 1..(Len(rows) + Len(s))
  OBVIOUS
<1>3. \A i \in 1..(Len(rows) + Len(s)) : rows'[i] = IF i <= Len(rows) THEN rows[i] ELSE s[i - Len(rows)]
  OBVIOUS
<1>4. \A i \in DOMAIN rows' : i \in DOMAIN rows \/ \E k \in DOMAIN s : i = Len(rows) + k /\ rows'[i] = s[k]
  <2> SUFFICES ASSUME NEW i \in DOMAIN rows', i \notin DOMAIN rows
               PROVE  \E k \in DOMAIN s : i = Len(rows) + k /\ rows'[i] = s[k]
    OBVIOUS
  <2>1. i \in 1..(Len(rows) + Len(s)) /\ i > Len(rows) /\ i - Len(rows) \in DOMAIN s
    BY <1>1, <1>2
  <2> QED BY <1>1, <1>3, <2>1
<1> QED BY <1>1, <1>2, <1>3, <1>4

LEMMA RowTypes ==
    ASSUME NEW r \in RowSet
    PROVE  /\ r.hold \in Holds /\ r.kind \in {"placed", "captured", "released"} /\ r.version \in Nat \ {0}
           /\ r.released \in Nat /\ r.held \in Nat /\ r.amount \in Nat
           /\ r.st \in {"queued", "parked", "done"} /\ r.again \in BOOLEAN
BY DEF RowSet

LEMMA StoryFacts ==
    ASSUME Story
    PROVE  /\ \A h \in Holds : /\ version[h] \in Nat /\ captured[h] \in Nat /\ captured[h] <= HoldAmount[h]
                               /\ HoldAmount[h] \in Nat \ {0} /\ Remaining(h) \in Nat
           /\ \A i \in DOMAIN rows : rows[i] \in RowSet /\ RowFits(rows[i]) /\ Rest(rows[i]) \in Nat
<1>1. \A h \in Holds : /\ version[h] \in Nat /\ captured[h] \in Nat /\ captured[h] <= HoldAmount[h]
                       /\ HoldAmount[h] \in Nat \ {0}
  BY Consts DEF Story, HoldTypes
<1>2. \A h \in Holds : Remaining(h) \in Nat
  BY <1>1 DEF Remaining
<1>3. ASSUME NEW i \in DOMAIN rows PROVE rows[i] \in RowSet /\ RowFits(rows[i]) /\ Rest(rows[i]) \in Nat
  <2>1. rows[i] \in RowSet /\ RowFits(rows[i])
    BY DEF Story, RowsFit
  <2> QED BY <2>1, RowTypes DEF RowFits, Rest
<1> QED BY <1>1, <1>2, <1>3

LEMMA AddsRowFits ==
    ASSUME Story, NEW s, NEW S, Adds(s, S), NEW i \in DOMAIN rows', NEW r, r = rows'[i]
    PROVE  RowFits(r)'
<1>1. /\ s \in Seq(RowSet) /\ rows' = rows \o s /\ rows \in Seq(RowSet) /\ S \subseteq Holds
  BY DEF Adds, Story, RowsFit
<1>2. \A h \in Holds : /\ version'[h] \in Nat /\ captured'[h] \in Nat /\ HoldAmount[h] \in Nat \ {0}
                       /\ captured'[h] <= HoldAmount[h]
  BY Consts DEF Adds, HoldTypes
<1>3. CASE i \in DOMAIN rows
  <2>1. rows[i] = r
    BY <1>1, <1>3, AddsRows
  <2>2. r \in RowSet /\ RowFits(r) /\ Rest(r) \in Nat
    BY <1>3, <2>1, StoryFacts
  <2> PICK h \in Holds : h = r.hold
    BY <2>2, RowTypes
  <2>3. version[h] \in Nat /\ version[h] <= version'[h] /\ Remaining(h) \in Nat /\ captured[h] \in Nat
    BY <1>1, StoryFacts DEF Adds
  <2>4. Remaining(h)' <= Remaining(h)
    <3>1. CASE h \notin S
      BY <2>3, <3>1 DEF Adds, Remaining
    <3>2. CASE h \in S
      <4>1. PICK k \in DOMAIN s : s[k].hold = h
        BY <3>2 DEF Adds
      <4>2. NewRow(s[k]) /\ s[k] \in RowSet
        BY <1>1, <4>1 DEF Adds
      <4>3. Rest(s[k]) = Remaining(h)'
        BY <4>1 DEF Adds, Remaining
      <4>4. version[h] # 0
        BY <2>2, <2>3, RowTypes DEF RowFits
      <4>5. /\ s[k].kind \in {"captured", "released"} /\ s[k].held = Remaining(h)
            /\ s[k].kind = "captured" => s[k].amount \in 1..s[k].held
        BY <4>1, <4>2, <4>4 DEF NewRow
      <4> QED BY <2>3, <4>3, <4>5 DEF Rest
    <3> QED BY <3>1, <3>2
  <2>5. Remaining(h)' \in Nat
    BY <1>2 DEF Remaining
  <2>6. r.version <= version[h] /\ Remaining(h) <= Rest(r) /\ r.version \in Nat
    BY <2>2, RowTypes DEF RowFits
  <2>7. r.version <= version'[h] /\ Remaining(h)' <= Rest(r)
    <3>1. version'[h] \in Nat
      BY <1>2
    <3> QED BY <2>2, <2>3, <2>4, <2>5, <2>6, <3>1
  <2> QED BY <2>2, <2>7 DEF RowFits
<1>4. CASE i \notin DOMAIN rows
  <2>1. PICK k \in DOMAIN s : r = s[k]
    BY <1>1, <1>4, AddsRows
  <2> PICK h : h = r.hold
    OBVIOUS
  <2>2. r \in RowSet /\ h \in S /\ NewRow(r) /\ version'[h] = version[h] + 1
    BY <1>1, <2>1 DEF Adds
  <2>3. Rest(r) = Remaining(h)'
    BY <2>1 DEF Adds, Remaining
  <2>4. h \in Holds /\ version[h] \in Nat /\ Remaining(h) \in Nat /\ Remaining(h) <= HoldAmount[h]
    <3>1. h \in Holds
      BY <1>1, <2>2
    <3>2. /\ version[h] \in Nat /\ Remaining(h) \in Nat /\ captured[h] \in Nat /\ HoldAmount[h] \in Nat
          /\ captured[h] <= HoldAmount[h]
      BY <3>1, StoryFacts
    <3>3. Remaining(h) <= HoldAmount[h]
      BY <3>2 DEF Remaining
    <3> QED BY <3>1, <3>2, <3>3
  <2>5. Remaining(h)' \in Nat /\ HoldAmount[h] \in Nat
    BY <1>2, <2>4 DEF Remaining
  <2>6. r.held \in Nat /\ r.released \in Nat
    BY <2>2, RowTypes
  <2> QED BY <2>2, <2>3, <2>4, <2>5, <2>6 DEF RowFits, NewRow
<1> QED BY <1>3, <1>4

LEMMA AddsRowFollows ==
    ASSUME Story, NEW s, NEW S, Adds(s, S), NEW i \in DOMAIN rows', NEW j \in DOMAIN rows', i < j,
           NEW r, NEW t, r = rows'[i], t = rows'[j], r.hold = t.hold
    PROVE  RowFollows(r, t)
<1>1. /\ s \in Seq(RowSet) /\ rows' = rows \o s /\ rows \in Seq(RowSet) /\ S \subseteq Holds
      /\ S \cap refusedAt = {}
  BY DEF Adds, Story, RowsFit
<1>2. CASE i \in DOMAIN rows /\ j \in DOMAIN rows
  <2>1. r = rows[i] /\ t = rows[j]
    BY <1>1, <1>2, AddsRows
  <2> QED BY <1>2, <2>1 DEF Story, RowsFit
<1>3. CASE i \notin DOMAIN rows /\ j \notin DOMAIN rows
  <2>1. PICK k \in DOMAIN s : i = Len(rows) + k /\ r = s[k]
    BY <1>1, <1>3, AddsRows
  <2>2. PICK l \in DOMAIN s : j = Len(rows) + l /\ t = s[l]
    BY <1>1, <1>3, AddsRows
  <2>3. k = l
    BY <2>1, <2>2 DEF Adds
  <2> QED BY <2>1, <2>2, <2>3, <1>1
<1>4. CASE i \in DOMAIN rows /\ j \notin DOMAIN rows
  <2>1. rows[i] = r
    BY <1>1, <1>4, AddsRows
  <2>2. PICK k \in DOMAIN s : t = s[k]
    BY <1>1, <1>4, AddsRows
  <2> PICK h : h = r.hold
    OBVIOUS
  <2>3. t \in RowSet /\ h \in S /\ NewRow(t) /\ t.hold = h
    BY <1>1, <2>2 DEF Adds
  <2>4. h \in Holds /\ h \notin refusedAt
    BY <1>1, <2>3
  <2>5. version[h] \in Nat /\ Remaining(h) \in Nat
    BY <2>4, StoryFacts
  <2>6. r \in RowSet /\ RowFits(r) /\ Rest(r) \in Nat
    BY <1>4, <2>1, StoryFacts
  <2>7. r.version <= version[h] /\ Remaining(h) <= Rest(r) /\ r.version \in Nat \ {0}
    BY <2>6, RowTypes DEF RowFits
  <2>8. t.version = version[h] + 1 /\ t.kind # "placed" /\ t.held = Remaining(h)
    BY <2>3, <2>5, <2>7 DEF NewRow
  <2>9. r.version = version[h] => Remaining(h) = Rest(r)
    <3>1. HoldFits(h)
      BY <2>4 DEF Story
    <3> QED BY <1>4, <2>1, <2>4, <3>1 DEF HoldFits
  <2> QED BY <2>5, <2>6, <2>7, <2>8, <2>9 DEF RowFollows
<1>5. CASE i \notin DOMAIN rows /\ j \in DOMAIN rows
  <2>1. PICK k \in DOMAIN s : i = Len(rows) + k
    BY <1>1, <1>5, AddsRows
  <2>2. j < i /\ i \in Nat /\ j \in Nat
    BY <1>1, <1>5, <2>1, AddsRows
  <2> QED BY <2>2
<1> QED BY <1>2, <1>3, <1>4, <1>5

LEMMA AddsHoldFits ==
    ASSUME Story, NEW s, NEW S, Adds(s, S), NEW h \in Holds
    PROVE  HoldFits(h)'
<1>1. /\ s \in Seq(RowSet) /\ rows' = rows \o s /\ rows \in Seq(RowSet) /\ S \subseteq Holds
      /\ S \cap refusedAt = {} /\ refusedAt' = refusedAt
  BY DEF Adds, Story, RowsFit
<1>2. HoldFits(h)
  BY DEF Story
<1>3. version[h] \in Nat
  BY StoryFacts
<1>4. CASE h \notin S
  <2>1. hstate'[h] = hstate[h] /\ captured'[h] = captured[h] /\ version'[h] = version[h] /\ standing'[h] = standing[h]
    BY <1>4 DEF Adds
  <2>2. Remaining(h)' = Remaining(h)
    BY <2>1 DEF Remaining
  <2>3. \A i \in DOMAIN rows' : rows'[i].hold = h => i \in DOMAIN rows /\ rows'[i] = rows[i]
    BY <1>1, <1>4, AddsRows DEF Adds
  <2>4. \A i \in DOMAIN rows : i \in DOMAIN rows' /\ rows'[i] = rows[i]
    BY <1>1, AddsRows
  <2> QED BY <1>1, <1>2, <2>1, <2>2, <2>3, <2>4 DEF HoldFits
<1>5. CASE h \in S
  <2>1. version'[h] = version[h] + 1 /\ hstate'[h] # "none" /\ h \notin refusedAt'
    BY <1>1, <1>5 DEF Adds
  <2>2. /\ hstate'[h] = "active" => standing'[h] = version'[h] /\ captured'[h] < HoldAmount[h]
        /\ hstate'[h] = "captured" => captured'[h] = HoldAmount[h]
    BY <1>5 DEF Adds
  <2>3. PICK k \in DOMAIN s : s[k].hold = h
    BY <1>5 DEF Adds
  <2>4. s[k].version = version[h] + 1
    BY <2>3 DEF Adds, NewRow
  <2>5. ASSUME NEW v \in 1..version'[h]
        PROVE  \E i \in DOMAIN rows' : rows'[i].hold = h /\ rows'[i].version = v
    <3>1. CASE v = version[h] + 1
      <4>1. Len(rows) + k \in DOMAIN rows' /\ rows'[Len(rows) + k] = s[k]
        BY <1>1, AddsRows
      <4> QED BY <2>3, <2>4, <3>1, <4>1
    <3>2. CASE v # version[h] + 1
      <4>1. v \in 1..version[h] /\ h \notin refusedAt
        BY <1>1, <1>3, <2>1, <3>2
      <4>2. PICK i \in DOMAIN rows : rows[i].hold = h /\ rows[i].version = v
        BY <1>2, <4>1 DEF HoldFits
      <4>3. i \in DOMAIN rows' /\ rows'[i] = rows[i]
        BY <1>1, AddsRows
      <4> QED BY <4>2, <4>3
    <3> QED BY <3>1, <3>2
  <2>6. ASSUME NEW i \in DOMAIN rows', rows'[i].hold = h, rows'[i].version = version'[h]
        PROVE  Remaining(h)' = Rest(rows'[i]) /\ captured'[h] = Gone(rows'[i])
    <3>1. i \notin DOMAIN rows
      <4> SUFFICES ASSUME i \in DOMAIN rows PROVE FALSE
        OBVIOUS
      <4>1. rows'[i] = rows[i]
        BY <1>1, AddsRows
      <4>2. rows[i].hold = h /\ rows[i] \in RowSet /\ RowFits(rows[i])
        BY <2>6, <4>1, StoryFacts
      <4>3. rows[i].version <= version[h] /\ rows[i].version \in Nat
        BY <4>2, RowTypes DEF RowFits
      <4> QED BY <1>3, <2>1, <2>6, <4>1, <4>3
    <3>2. PICK l \in DOMAIN s : rows'[i] = s[l]
      BY <1>1, <3>1, AddsRows
    <3>3. s[l].hold = h
      BY <2>6, <3>2
    <3>4. Rest(s[l]) = Remaining(h)' /\ Gone(s[l]) = captured'[h]
      BY <3>3 DEF Adds, Remaining
    <3> QED BY <3>2, <3>4
  <2>7. version'[h] # 0
    BY <1>3, <2>1
  <2> QED BY <2>1, <2>2, <2>5, <2>6, <2>7 DEF HoldFits, Remaining, Rest, Gone
<1> QED BY <1>4, <1>5

LEMMA AddsStory ==
    ASSUME Story, NEW s, NEW S, Adds(s, S)
    PROVE  Story'
<1>1. rows' \in Seq(RowSet)
  BY AddsRows DEF Adds, Story, RowsFit
<1>2. \A i \in DOMAIN rows' : \A r : r = rows'[i] => RowFits(r)'
  BY AddsRowFits
<1>3. \A i, j \in DOMAIN rows' : i < j /\ rows'[i].hold = rows'[j].hold => RowFollows(rows'[i], rows'[j])
  BY AddsRowFollows
<1>4. \A h \in Holds : HoldFits(h)'
  BY AddsHoldFits
<1>5. HoldTypes'
  BY DEF Adds
<1>6. RowsFit'
  BY <1>1, <1>2, <1>3 DEF RowsFit, RowFits, RowFollows, Rest, Remaining
<1> QED BY <1>4, <1>5, <1>6 DEF Story

\* What the steps that move a hold leave alone.
Aside == UNCHANGED <<refusedAt, reserved, voided, taken, free, ledgerNo, feed>>

LEMMA ActiveFacts ==
    ASSUME Story, NEW h \in Holds, hstate[h] = "active"
    PROVE  /\ h \notin refusedAt /\ standing[h] = version[h] /\ version[h] \in Nat \ {0}
           /\ captured[h] \in Nat /\ HoldAmount[h] \in Nat \ {0}
           /\ Remaining(h) = HoldAmount[h] - captured[h] /\ Remaining(h) \in 1..HoldAmount[h]
<1>1. HoldFits(h)
  BY DEF Story
<1>2. version[h] \in Nat /\ captured[h] \in Nat /\ HoldAmount[h] \in Nat \ {0}
  BY StoryFacts
<1>3. h \notin refusedAt /\ standing[h] = version[h] /\ version[h] # 0 /\ captured[h] < HoldAmount[h]
  BY <1>1 DEF HoldFits
<1> QED BY <1>2, <1>3 DEF Remaining

LEMMA OneRow ==
    ASSUME NEW e \in RowSet
    PROVE  <<e>> \in Seq(RowSet) /\ DOMAIN <<e>> = {1} /\ <<e>>[1] = e
OBVIOUS

LEMMA OpenAdds ==
    ASSUME Story, NEW h \in Holds, hstate[h] = "none", Aside, captured' = captured,
           hstate' = [hstate EXCEPT ![h] = "active"],
           version' = [version EXCEPT ![h] = 1], standing' = [standing EXCEPT ![h] = 1],
           Raise(<<Place(h)>>)
    PROVE  Adds(<<Place(h)>>, {h})
<1>1. HoldTypes /\ HoldFits(h)
  BY DEF Story
<1>2. version[h] = 0 /\ captured[h] = 0 /\ h \notin refusedAt /\ HoldAmount[h] \in Nat \ {0}
  BY <1>1, Consts DEF HoldFits
<1> DEFINE e == Place(h)
<1>3. /\ e.hold = h /\ e.kind = "placed" /\ e.version = 1 /\ e.amount = HoldAmount[h] /\ e.st = "queued"
      /\ e \in RowSet
  BY <1>2 DEF Place, Event, RowSet
<1>4. <<e>> \in Seq(RowSet) /\ DOMAIN <<e>> = {1} /\ <<e>>[1] = e
  BY <1>3, OneRow
<1>5. /\ hstate'[h] = "active" /\ version'[h] = 1 /\ standing'[h] = 1 /\ captured'[h] = 0
      /\ \A x \in Holds \ {h} : hstate'[x] = hstate[x] /\ version'[x] = version[x] /\ standing'[x] = standing[x]
  BY <1>1, <1>2 DEF HoldTypes
<1>6. HoldTypes'
  BY <1>1, <1>5 DEF HoldTypes, HoldStates, Aside
<1>7. NewRow(e)
  BY <1>2, <1>3 DEF NewRow
<1>8. Rest(e) = HoldAmount[h] - captured'[h] /\ Gone(e) = captured'[h]
  BY <1>2, <1>3, <1>5 DEF Rest, Gone
<1> HIDE DEF e
<1>9. rows' = rows \o <<e>>
  BY DEF Raise, e
<1>10. Adds(<<e>>, {h})
  BY <1>2, <1>3, <1>4, <1>5, <1>6, <1>7, <1>8, <1>9 DEF Adds, Aside
<1> QED BY <1>10 DEF e

Taken(h, amount) == Event(h, "captured", version[h] + 1, standing[h], Remaining(h), amount)

LEMMA CaptureAdds ==
    ASSUME Story, NEW h \in Holds, hstate[h] = "active", NEW amount \in 1..Remaining(h),
           CaptureOf(h, amount), Aside
    PROVE  Adds(<<Taken(h, amount)>>, {h})
<1>1. HoldTypes
  BY DEF Story
<1>2. /\ h \notin refusedAt /\ standing[h] = version[h] /\ version[h] \in Nat \ {0}
      /\ captured[h] \in Nat /\ HoldAmount[h] \in Nat \ {0}
      /\ Remaining(h) = HoldAmount[h] - captured[h] /\ Remaining(h) \in 1..HoldAmount[h]
  BY ActiveFacts
<1>3. amount \in Nat /\ 1 <= amount /\ amount <= Remaining(h)
  BY <1>2
<1> DEFINE e == Taken(h, amount)
           n == Remaining(h)
<1>4. /\ e.hold = h /\ e.kind = "captured" /\ e.version = version[h] + 1 /\ e.released = version[h]
      /\ e.held = n /\ e.amount = amount /\ e.st = "queued"
  BY <1>2 DEF Taken, Event
<1>5. e \in RowSet
  BY <1>2, <1>3 DEF Taken, Event, RowSet
<1>6. <<e>> \in Seq(RowSet) /\ DOMAIN <<e>> = {1} /\ <<e>>[1] = e
  BY <1>5, OneRow
<1>7. /\ captured' = [captured EXCEPT ![h] = @ + amount]
      /\ version' = [version EXCEPT ![h] = version[h] + 1]
      /\ amount = n => hstate' = [hstate EXCEPT ![h] = "captured"] /\ standing' = standing
      /\ amount # n => standing' = [standing EXCEPT ![h] = version[h] + 1] /\ hstate' = hstate
      /\ rows' = rows \o <<e>>
  BY DEF CaptureOf, Raise, Taken
<1> HIDE DEF e, n
<1>8. /\ version'[h] = version[h] + 1 /\ captured'[h] = captured[h] + amount
      /\ amount = n => hstate'[h] = "captured" /\ standing'[h] = standing[h]
      /\ amount # n => hstate'[h] = "active" /\ standing'[h] = version[h] + 1
      /\ \A x \in Holds \ {h} : /\ hstate'[x] = hstate[x] /\ version'[x] = version[x]
                                /\ standing'[x] = standing[x] /\ captured'[x] = captured[x]
  BY <1>1, <1>7 DEF HoldTypes
<1>9. captured'[h] <= HoldAmount[h] /\ (amount = n => captured'[h] = HoldAmount[h])
      /\ (amount # n => captured'[h] < HoldAmount[h]) /\ captured'[h] \in Nat
  BY <1>2, <1>3, <1>8 DEF n
<1>10. HoldTypes'
  <2>1. captured' \in [Holds -> Nat] /\ version' \in [Holds -> Nat]
    BY <1>1, <1>2, <1>3, <1>7 DEF HoldTypes
  <2>2. hstate' \in [Holds -> HoldStates] /\ standing' \in [Holds -> Nat]
    <3>1. CASE amount = n
      BY <1>1, <1>7, <3>1 DEF HoldTypes, HoldStates
    <3>2. CASE amount # n
      BY <1>1, <1>2, <1>7, <3>2 DEF HoldTypes, HoldStates
    <3> QED BY <3>1, <3>2
  <2>3. \A x \in Holds : captured'[x] <= HoldAmount[x] /\ standing'[x] <= version'[x]
    <3>1. standing'[h] <= version'[h]
      BY <1>2, <1>8
    <3> QED BY <1>1, <1>8, <1>9, <3>1 DEF HoldTypes
  <2> QED BY <1>1, <2>1, <2>2, <2>3 DEF HoldTypes, Aside
<1>11. NewRow(e)
  BY <1>2, <1>3, <1>4 DEF NewRow, n
<1>12. Rest(e) = n - amount /\ Gone(e) = captured'[h]
  BY <1>2, <1>3, <1>4, <1>8 DEF Rest, Gone, n
<1>13. Rest(e) = IF hstate'[h] = "active" THEN HoldAmount[h] - captured'[h] ELSE 0
  BY <1>2, <1>3, <1>8, <1>12 DEF n
<1>14. Adds(<<e>>, {h})
  <2>1. hstate'[h] # "none" /\ (hstate'[h] = "active" => standing'[h] = version'[h] /\ captured'[h] < HoldAmount[h])
        /\ (hstate'[h] = "captured" => captured'[h] = HoldAmount[h])
    BY <1>8, <1>9
  <2> QED BY <1>2, <1>4, <1>6, <1>7, <1>8, <1>10, <1>11, <1>12, <1>13, <2>1 DEF Adds, Aside
<1> QED BY <1>14 DEF e

\* An ordering without repeats of a finite set names each of its members.
Orders(s, E) == s \in [1..Cardinality(E) -> E] /\ \A i, j \in DOMAIN s : i # j => s[i] # s[j]
Names(s, E)  == s \in Seq(E) /\ \A e \in E : \E k \in DOMAIN s : s[k] = e

LEMMA OrderingNamesAll ==
    ASSUME NEW E, IsFiniteSet(E), NEW s, Orders(s, E)
    PROVE  Names(s, E)
<1> PICK n : n = Cardinality(E)
  OBVIOUS
<1>1. n \in Nat
  BY FS_CardinalityType
<1>2. s \in Seq(E) /\ DOMAIN s = 1..n /\ s \in [1..n -> E]
  BY <1>1 DEF Orders
<1>3. Cardinality(1..n) = Cardinality(E)
  BY <1>1, FS_Interval
<1>4. s \in Injection(1..n, E)
  BY <1>2 DEF Injection, IsInjective, Orders
<1>5. s \in Surjection(1..n, E)
  BY <1>3, <1>4, FS_Injection
<1> QED BY <1>2, <1>5 DEF Surjection, Names

Released(h) == Event(h, "released", version[h] + 1, standing[h], Remaining(h), 0)

LEMMA ReleasesFinite ==
    ASSUME NEW S \in SUBSET Holds
    PROVE  IsFiniteSet({Released(h) : h \in S})
<1>1. IsFiniteSet(S)
  BY Consts, FS_Subset
<1> DEFINE E == {Released(h) : h \in S}
           f == [h \in S |-> Released(h)]
<1>2. f \in Surjection(S, E)
  BY DEF Surjection
<1> HIDE DEF f, E
<1>3. IsFiniteSet(E)
  BY <1>1, <1>2, FS_Surjection
<1> QED BY <1>3 DEF E

LEMMA ReleaseAdds ==
    ASSUME Story, NEW S \in SUBSET Holds, \A h \in S : hstate[h] = "active",
           NEW asked \in {"voided", "expired"}, ReleaseAll(S, asked),
           captured' = captured, standing' = standing, Aside
    PROVE  \E s : Adds(s, S)
<1>1. HoldTypes
  BY DEF Story
<1>2. ASSUME NEW h \in S
      PROVE  /\ h \in Holds /\ h \notin refusedAt /\ standing[h] = version[h] /\ version[h] \in Nat \ {0}
             /\ captured[h] \in Nat /\ HoldAmount[h] \in Nat \ {0}
             /\ Remaining(h) = HoldAmount[h] - captured[h] /\ Remaining(h) \in 1..HoldAmount[h]
  BY ActiveFacts
<1> PICK E : E = {Released(h) : h \in S}
  OBVIOUS
<1>a. IsFiniteSet(E)
  BY ReleasesFinite
<1>3. PICK s : Orders(s, E) /\ Raise(s)
  BY DEF ReleaseAll, Released, Orders
<1>4. s \in Seq(E) /\ \A e \in E : \E k \in DOMAIN s : s[k] = e
  <2>1. Names(s, E)
    BY <1>3, <1>a, OrderingNamesAll, Zenon
  <2> QED BY <2>1 DEF Names
<1>5. ASSUME NEW h \in S
      PROVE  /\ Released(h) \in RowSet /\ Released(h).hold = h /\ NewRow(Released(h))
             /\ Rest(Released(h)) = 0 /\ Gone(Released(h)) = captured[h]
  BY <1>2 DEF Released, Event, RowSet, NewRow, Rest, Gone
<1>6. \A k \in DOMAIN s : \E h \in S : s[k] = Released(h)
  BY <1>4
<1>7. s \in Seq(RowSet)
  <2>1. E \subseteq RowSet
    BY <1>5
  <2> QED BY <1>4, <2>1
<1>8. \A h \in S : \E k \in DOMAIN s : s[k].hold = h
  <2> SUFFICES ASSUME NEW h \in S PROVE \E k \in DOMAIN s : s[k].hold = h
    OBVIOUS
  <2>1. PICK k \in DOMAIN s : s[k] = Released(h)
    BY <1>4
  <2> QED BY <1>5, <2>1
<1>9. /\ \A h \in Holds : hstate'[h] = IF h \notin S THEN hstate[h] ELSE IF IsDue(h) THEN "expired" ELSE asked
      /\ \A h \in Holds : version'[h] = IF h \in S THEN version[h] + 1 ELSE version[h]
      /\ DOMAIN hstate' = Holds /\ DOMAIN version' = Holds
      /\ hstate' = [h \in Holds |-> hstate'[h]] /\ version' = [h \in Holds |-> version'[h]]
  BY DEF ReleaseAll
<1>10. \A h \in S : hstate'[h] \in {"voided", "expired"}
  BY <1>2, <1>9
<1>11. HoldTypes'
  <2>1. \A h \in Holds : hstate'[h] \in HoldStates /\ version'[h] \in Nat /\ standing[h] <= version'[h]
    <3> SUFFICES ASSUME NEW h \in Holds
                 PROVE  hstate'[h] \in HoldStates /\ version'[h] \in Nat /\ standing[h] <= version'[h]
      OBVIOUS
    <3>1. hstate[h] \in HoldStates /\ version[h] \in Nat /\ standing[h] \in Nat /\ standing[h] <= version[h]
      BY <1>1 DEF HoldTypes
    <3>2. CASE h \in S
      BY <1>9, <1>10, <3>1, <3>2 DEF HoldStates
    <3>3. CASE h \notin S
      BY <1>9, <3>1, <3>3
    <3> QED BY <3>2, <3>3
  <2> QED BY <1>1, <1>9, <2>1 DEF HoldTypes, Aside
<1>12. \A k, l \in DOMAIN s : s[k].hold = s[l].hold => k = l
  <2> SUFFICES ASSUME NEW k \in DOMAIN s, NEW l \in DOMAIN s, s[k].hold = s[l].hold PROVE k = l
    OBVIOUS
  <2>1. PICK h \in S : s[k] = Released(h)
    BY <1>6
  <2>2. PICK g \in S : s[l] = Released(g)
    BY <1>6
  <2>3. h = g
    BY <1>5, <2>1, <2>2
  <2> QED BY <1>3, <2>1, <2>2, <2>3 DEF Orders
<1>13. ASSUME NEW k \in DOMAIN s
       PROVE  /\ s[k].hold \in S /\ NewRow(s[k]) /\ Gone(s[k]) = captured'[s[k].hold]
              /\ Rest(s[k]) = IF hstate'[s[k].hold] = "active" THEN HoldAmount[s[k].hold] - captured'[s[k].hold] ELSE 0
  <2>1. PICK h \in S : s[k] = Released(h)
    BY <1>6
  <2>2. s[k].hold = h /\ hstate'[h] # "active"
    BY <1>5, <1>10, <2>1
  <2> QED BY <1>5, <2>1, <2>2
<1>14. S \cap refusedAt = {} /\ rows' = rows \o s
  BY <1>2, <1>3 DEF Raise
<1>15. Adds(s, S)
  <2>1. \A h \in S : version'[h] = version[h] + 1 /\ hstate'[h] # "none" /\ hstate'[h] # "active" /\ hstate'[h] # "captured"
    BY <1>2, <1>9, <1>10
  <2>2. \A h \in Holds \ S : hstate'[h] = hstate[h] /\ version'[h] = version[h]
    BY <1>9
  <2> QED BY <1>7, <1>8, <1>11, <1>12, <1>13, <1>14, <2>1, <2>2 DEF Adds, Aside
<1> QED BY <1>15

\* A stamp on a row, or none.
Stamps ==
    /\ rows' \in Seq(RowSet) /\ DOMAIN rows' = DOMAIN rows
    /\ \A i \in DOMAIN rows :
        /\ rows'[i].hold = rows[i].hold /\ rows'[i].kind = rows[i].kind /\ rows'[i].version = rows[i].version
        /\ rows'[i].released = rows[i].released /\ rows'[i].held = rows[i].held /\ rows'[i].amount = rows[i].amount
        /\ rows[i].again => rows'[i].again

HoldsStand == UNCHANGED <<hstate, captured, version, standing, refusedAt>>

LEMMA StampStamps ==
    ASSUME rows \in Seq(RowSet), NEW i \in DOMAIN rows, NEW st \in {"queued", "parked", "done"}, Stamp(i, st)
    PROVE  Stamps /\ rows'[i].st = st /\ \A j \in DOMAIN rows : j # i => rows'[j] = rows[j]
<1>1. rows[i] \in RowSet /\ DOMAIN rows = 1..Len(rows) /\ Len(rows) \in Nat
  OBVIOUS
<1> PICK r : r = [rows[i] EXCEPT !.st = st]
  OBVIOUS
<1>2. r \in RowSet /\ r.st = st /\ r.hold = rows[i].hold /\ r.kind = rows[i].kind /\ r.version = rows[i].version
      /\ r.released = rows[i].released /\ r.held = rows[i].held /\ r.amount = rows[i].amount
      /\ r.again = rows[i].again
  BY <1>1 DEF RowSet
<1>3. rows' = [rows EXCEPT ![i] = r]
  BY DEF Stamp
<1>4. rows' \in Seq(RowSet) /\ DOMAIN rows' = DOMAIN rows
  BY <1>1, <1>2, <1>3
<1>5. rows'[i] = r /\ \A j \in DOMAIN rows : j # i => rows'[j] = rows[j]
  BY <1>1, <1>3
<1> QED BY <1>2, <1>4, <1>5 DEF Stamps

LEMMA UnparkStamps ==
    ASSUME rows \in Seq(RowSet), NEW i, UnparkRow(i)
    PROVE  Stamps /\ i \in DOMAIN rows /\ rows'[i].st = "queued" /\ rows'[i].again /\ \A j \in DOMAIN rows : j # i => rows'[j] = rows[j]
<1>1. i \in DOMAIN rows /\ rows[i] \in RowSet /\ DOMAIN rows = 1..Len(rows) /\ Len(rows) \in Nat
  BY DEF UnparkRow
<1> PICK r : r = [rows[i] EXCEPT !.st = "queued", !.again = TRUE]
  OBVIOUS
<1>2. r \in RowSet /\ r.st = "queued" /\ r.again /\ r.hold = rows[i].hold /\ r.kind = rows[i].kind /\ r.version = rows[i].version
      /\ r.released = rows[i].released /\ r.held = rows[i].held /\ r.amount = rows[i].amount
  BY <1>1 DEF RowSet
<1>3. rows' = [rows EXCEPT ![i] = r]
  <2>1. rows' = [rows EXCEPT ![i].st = "queued", ![i].again = TRUE]
    BY DEF UnparkRow
  <2> QED BY <1>1, <1>2, <2>1 DEF RowSet
<1>4. rows' \in Seq(RowSet) /\ DOMAIN rows' = DOMAIN rows
  BY <1>1, <1>2, <1>3
<1>5. rows'[i] = r /\ \A j \in DOMAIN rows : j # i => rows'[j] = rows[j]
  BY <1>1, <1>3
<1> QED BY <1>1, <1>2, <1>4, <1>5 DEF Stamps

LEMMA UnchangedStamps ==
    ASSUME rows \in Seq(RowSet), UNCHANGED rows
    PROVE  Stamps
BY DEF Stamps

LEMMA StampsKeep ==
    ASSUME rows \in Seq(RowSet), Stamps, NEW i \in DOMAIN rows
    PROVE  rows'[i].hold = rows[i].hold /\ Rest(rows'[i]) = Rest(rows[i]) /\ Gone(rows'[i]) = Gone(rows[i])
BY DEF Stamps, Rest, Gone

LEMMA StampsFollow ==
    ASSUME Story, Stamps
    PROVE  \A i, j \in DOMAIN rows' : i < j /\ rows'[i].hold = rows'[j].hold => RowFollows(rows'[i], rows'[j])
<1> SUFFICES ASSUME NEW i \in DOMAIN rows', NEW j \in DOMAIN rows', i < j, rows'[i].hold = rows'[j].hold
             PROVE  RowFollows(rows'[i], rows'[j])
  OBVIOUS
<1>1. rows \in Seq(RowSet) /\ i \in DOMAIN rows /\ j \in DOMAIN rows
  BY DEF Story, RowsFit, Stamps
<1>2. RowFollows(rows[i], rows[j])
  <2>1. rows[i].hold = rows[j].hold
    BY <1>1 DEF Stamps
  <2> QED BY <1>1, <2>1 DEF Story, RowsFit
<1>3. Rest(rows'[i]) = Rest(rows[i])
  BY <1>1, StampsKeep
<1> QED BY <1>1, <1>2, <1>3 DEF RowFollows, Stamps

LEMMA StampsStory ==
    ASSUME Story, Stamps, HoldsStand
    PROVE  Story'
<1>1. rows \in Seq(RowSet) /\ rows' \in Seq(RowSet) /\ DOMAIN rows' = DOMAIN rows
  BY DEF Story, RowsFit, Stamps
<1>2. HoldTypes'
  BY DEF Story, HoldTypes, HoldsStand
<1>3. \A h \in Holds : Remaining(h)' = Remaining(h)
  BY DEF Remaining, HoldsStand
<1>4. ASSUME NEW i \in DOMAIN rows', NEW r, r = rows'[i] PROVE RowFits(r)'
  <2>1. i \in DOMAIN rows /\ rows[i] \in RowSet /\ RowFits(rows[i])
    BY <1>1, StoryFacts
  <2>2. Rest(r) = Rest(rows[i])
    BY <1>1, <1>4, StampsKeep
  <2> PICK h \in Holds : h = r.hold /\ h = rows[i].hold
    BY <1>4, <2>1, RowTypes DEF Stamps
  <2>3. Remaining(h) <= Rest(r)
    BY <2>1, <2>2 DEF RowFits
  <2>4. Remaining(h)' <= Rest(r)
    BY <1>3, <2>3
  <2> QED BY <1>4, <2>1, <2>4 DEF RowFits, Stamps, HoldsStand
<1>5. ASSUME NEW h \in Holds PROVE HoldFits(h)'
  <2>1. HoldFits(h) /\ Remaining(h)' = Remaining(h)
    BY <1>3 DEF Story
  <2>2. \A i \in DOMAIN rows : /\ rows'[i].hold = rows[i].hold /\ rows'[i].version = rows[i].version
                               /\ Rest(rows'[i]) = Rest(rows[i]) /\ Gone(rows'[i]) = Gone(rows[i])
    BY <1>1, StampsKeep DEF Stamps
  <2>3. \A v \in 1..version[h] : (\E i \in DOMAIN rows : rows[i].hold = h /\ rows[i].version = v) =>
           \E i \in DOMAIN rows' : rows'[i].hold = h /\ rows'[i].version = v
    BY <1>1, <2>2
  <2>4. hstate' = hstate /\ captured' = captured /\ version' = version /\ standing' = standing /\ refusedAt' = refusedAt
    BY DEF HoldsStand
  <2>5. h \notin refusedAt' =>
           \A i \in DOMAIN rows' : rows'[i].hold = h /\ rows'[i].version = version'[h] =>
              Remaining(h)' = Rest(rows'[i]) /\ captured'[h] = Gone(rows'[i])
    BY <1>1, <2>1, <2>2, <2>4 DEF HoldFits
  <2>6. h \notin refusedAt' =>
           \A v \in 1..version'[h] : \E i \in DOMAIN rows' : rows'[i].hold = h /\ rows'[i].version = v
    BY <2>1, <2>3, <2>4 DEF HoldFits
  <2> HIDE DEF Rest, Gone, Remaining
  <2> QED BY <2>1, <2>4, <2>5, <2>6 DEF HoldFits, Rest, Gone, Remaining
<1>6. RowsFit'
  <2>1. \A i \in DOMAIN rows' : \A r : r = rows'[i] => RowFits(r)'
    BY <1>4
  <2>2. \A i, j \in DOMAIN rows' : i < j /\ rows'[i].hold = rows'[j].hold => RowFollows(rows'[i], rows'[j])
    BY StampsFollow
  <2> QED BY <1>1, <2>1, <2>2 DEF RowsFit, RowFits, RowFollows, Rest, Remaining
<1> QED BY <1>2, <1>5, <1>6 DEF Story

\* The ledger's refusal closes the hold, whatever it had captured by then.
LEMMA RefuseStory ==
    ASSUME Story, NEW i, ParkRefusedReserve(i)
    PROVE  Story' /\ Stamps
<1> PICK h : h = rows[i].hold
  OBVIOUS
<1>1. i \in DOMAIN rows /\ rows \in Seq(RowSet) /\ h \in Holds /\ h \notin refusedAt
  BY StoryFacts, RowTypes DEF ParkRefusedReserve, NextRow, Story, RowsFit
<1>2. Stamps
  BY <1>1, StampStamps DEF ParkRefusedReserve
<1>3. /\ hstate' = [hstate EXCEPT ![h] = "voided"] /\ captured' = [captured EXCEPT ![h] = 0]
      /\ version' = [version EXCEPT ![h] = version[h] + 1] /\ standing' = standing
      /\ refusedAt' = refusedAt \union {h}
  BY DEF ParkRefusedReserve
<1>4. HoldTypes
  BY DEF Story
<1>5. /\ hstate'[h] = "voided" /\ captured'[h] = 0 /\ version'[h] = version[h] + 1 /\ version[h] \in Nat
      /\ \A x \in Holds \ {h} : hstate'[x] = hstate[x] /\ version'[x] = version[x] /\ captured'[x] = captured[x]
  BY <1>1, <1>3, <1>4 DEF HoldTypes
<1>6. HoldTypes'
  <2>1. hstate' \in [Holds -> HoldStates] /\ captured' \in [Holds -> Nat] /\ version' \in [Holds -> Nat]
    BY <1>1, <1>3, <1>4 DEF HoldTypes, HoldStates
  <2>2. \A x \in Holds : captured'[x] <= HoldAmount[x] /\ standing[x] <= version'[x]
    BY <1>1, <1>4, <1>5, Consts DEF HoldTypes
  <2> QED BY <1>1, <1>3, <1>4, <2>1, <2>2 DEF HoldTypes
<1>7. ASSUME NEW j \in DOMAIN rows', NEW r, r = rows'[j] PROVE RowFits(r)'
  <2>1. j \in DOMAIN rows /\ rows[j] \in RowSet /\ RowFits(rows[j]) /\ Rest(rows[j]) \in Nat
    BY <1>2, StoryFacts DEF Stamps
  <2>2. Rest(r) = Rest(rows[j])
    BY <1>1, <1>2, <1>7, <2>1, StampsKeep
  <2> PICK x \in Holds : x = r.hold /\ x = rows[j].hold
    BY <1>2, <1>7, <2>1, RowTypes DEF Stamps
  <2>3. Remaining(x)' <= Rest(r)
    BY <1>5, <2>1, <2>2 DEF RowFits, Remaining
  <2>4. rows[j].version <= version'[x]
    <3>1. rows[j].version \in Nat /\ rows[j].version <= version[x] /\ version[x] \in Nat
      BY <2>1, RowTypes, StoryFacts DEF RowFits
    <3> QED BY <1>5, <3>1
  <2> QED BY <1>2, <1>7, <2>1, <2>3, <2>4 DEF RowFits, Stamps
<1>8. ASSUME NEW x \in Holds PROVE HoldFits(x)'
  <2>1. HoldFits(x)
    BY DEF Story
  <2>2. CASE x = h
    BY <1>1, <1>3, <1>5, <2>2 DEF HoldFits
  <2>3. CASE x # h
    <3>1. /\ hstate'[x] = hstate[x] /\ version'[x] = version[x] /\ captured'[x] = captured[x] /\ standing' = standing
          /\ (x \in refusedAt' <=> x \in refusedAt) /\ Remaining(x)' = Remaining(x)
      BY <1>3, <1>5, <2>3 DEF Remaining
    <3>2. \A j \in DOMAIN rows : /\ rows'[j].hold = rows[j].hold /\ rows'[j].version = rows[j].version
                                 /\ Rest(rows'[j]) = Rest(rows[j]) /\ Gone(rows'[j]) = Gone(rows[j])
      BY <1>1, <1>2, StampsKeep DEF Stamps
    <3>3. DOMAIN rows' = DOMAIN rows
      BY <1>2 DEF Stamps
    <3>4. x \notin refusedAt' =>
             \A j \in DOMAIN rows' : rows'[j].hold = x /\ rows'[j].version = version'[x] =>
                Remaining(x)' = Rest(rows'[j]) /\ captured'[x] = Gone(rows'[j])
      BY <2>1, <3>1, <3>2, <3>3 DEF HoldFits
    <3>5. x \notin refusedAt' =>
             \A v \in 1..version'[x] : \E j \in DOMAIN rows' : rows'[j].hold = x /\ rows'[j].version = v
      BY <2>1, <3>1, <3>2, <3>3 DEF HoldFits
    <3> QED BY <2>1, <3>1, <3>4, <3>5 DEF HoldFits, Rest, Gone, Remaining
  <2> QED BY <2>2, <2>3
<1>9. RowsFit'
  <2>1. \A j \in DOMAIN rows' : \A r : r = rows'[j] => RowFits(r)'
    BY <1>7
  <2>2. \A j, k \in DOMAIN rows' : j < k /\ rows'[j].hold = rows'[k].hold => RowFollows(rows'[j], rows'[k])
    BY <1>2, StampsFollow
  <2>3. rows' \in Seq(RowSet)
    BY <1>2 DEF Stamps
  <2> QED BY <2>1, <2>2, <2>3 DEF RowsFit, RowFits, RowFollows, Rest, Remaining
<1> QED BY <1>2, <1>6, <1>8, <1>9 DEF Story

-----------------------------------------------------------------------------
(***************************************************************************)
(* Every step moves holds, is one of the relay's on a row, or leaves holds *)
(* and rows as they are.                                                   *)
(***************************************************************************)
Quiet == HoldsStand /\ UNCHANGED <<rows, reserved, voided, taken, ledgerNo, feed>> /\ free' \in Nat

RowStep(i) ==
    \/ RelayReserve(i) \/ ParkRefusedReserve(i) \/ RelayCapture(i) \/ RelayRelease(i)
    \/ RelayAnnounce(i) \/ ParkUnreserved(i) \/ ParkConflict(i) \/ ParkUnrecorded(i) \/ UnparkRow(i)

LEMMA TaskFacts ==
    ASSUME DrawTypes, NEW c \in Callers
    PROVE  /\ task[c].kind \in {"idle", "reserve", "charge", "revoke", "fill"}
           /\ task[c].kind = "reserve" => task[c].hold \in Holds /\ task[c].mandate \in Mandates
           /\ task[c].kind = "charge" => task[c].charge \in ChargeIds /\ task[c].mandate \in Mandates
           /\ task[c].kind = "revoke" => task[c].mandate \in Mandates
           /\ task[c].kind = "fill" => task[c].hold \in Holds /\ task[c].amount \in Nat \ {0}
<1>1. task[c] \in TaskSet
  BY DEF DrawTypes
<1> QED BY <1>1 DEF TaskSet, NoTask

\* A capture, with or without the request that read before it.
LEMMA CaptureShape ==
    ASSUME Story, NEW h \in Holds, hstate[h] = "active", NEW amount \in 1..Remaining(h),
           CaptureOf(h, amount), UNCHANGED <<refusedAt, booksVars, feed>>
    PROVE  Adds(<<Taken(h, amount)>>, {h})
<1>1. Aside
  BY DEF Aside, booksVars
<1> QED BY <1>1, CaptureAdds

LEMMA ReserveCommitsShape ==
    ASSUME Story, Drawing, NEW c \in Callers, ReserveCommits(c)
    PROVE  Adds(<<Place(task[c].hold)>>, {task[c].hold})
<1> PICK h : h = task[c].hold
  OBVIOUS
<1>1. h \in Holds
  BY TaskFacts DEF Drawing, ReserveCommits
<1>2. /\ hstate[h] = "none" /\ captured' = captured
      /\ hstate' = [hstate EXCEPT ![h] = "active"]
      /\ version' = [version EXCEPT ![h] = 1] /\ standing' = [standing EXCEPT ![h] = 1]
      /\ Raise(<<Place(h)>>)
  BY DEF ReserveCommits
<1>3. Aside
  BY DEF ReserveCommits, Aside, booksVars
<1>4. Adds(<<Place(h)>>, {h})
  BY <1>1, <1>2, <1>3, OpenAdds
<1> QED BY <1>4

LEMMA FillCommitsShape ==
    ASSUME Story, Drawing, NEW c \in Callers, FillCommits(c)
    PROVE  Adds(<<Taken(task[c].hold, task[c].amount)>>, {task[c].hold})
<1> PICK h, a : h = task[c].hold /\ a = task[c].amount
  OBVIOUS
<1>1. h \in Holds /\ a \in Nat \ {0} /\ hstate[h] = "active" /\ a <= Remaining(h)
  BY TaskFacts DEF Drawing, DrawFits, FillCommits
<1>2. Remaining(h) \in Nat
  BY <1>1, StoryFacts
<1>3. a \in 1..Remaining(h)
  BY <1>1, <1>2
<1>4. CaptureOf(h, a) /\ UNCHANGED <<refusedAt, booksVars, feed>>
  BY DEF FillCommits
<1>5. Adds(<<Taken(h, a)>>, {h})
  BY <1>1, <1>3, <1>4, CaptureShape
<1> QED BY <1>5

LEMMA ReleaseShape ==
    ASSUME Story, NEW S \in SUBSET Holds, \A h \in S : hstate[h] = "active",
           NEW asked \in {"voided", "expired"}, ReleaseAll(S, asked),
           UNCHANGED <<captured, standing, refusedAt, booksVars, feed>>
    PROVE  \E s, T : Adds(s, T)
<1>1. Aside /\ captured' = captured /\ standing' = standing
  BY DEF Aside, booksVars
<1> QED BY <1>1, ReleaseAdds

LEMMA Shapes ==
    ASSUME Story, Books, Drawing, [HoldsNext]_holdsVars
    PROVE  (\E s, S : Adds(s, S)) \/ Quiet \/ (\E i \in DOMAIN rows : RowStep(i))
<1>0. free \in Nat
  BY DEF Books, BookTypes
<1>1. CASE UNCHANGED holdsVars
  BY <1>0, <1>1 DEF holdsVars, holdVars, booksVars, Quiet, HoldsStand
<1>2. CASE HoldsNext
  <2>1. ASSUME NEW c \in Callers, NEW h \in Holds, ReserveReads(c, h) PROVE Quiet
    BY <1>0, <2>1 DEF ReserveReads, Draws, holdVars, booksVars, Quiet, HoldsStand
  <2>2. ASSUME NEW c \in Callers, NEW k \in ChargeIds, ChargeReads(c, k) PROVE Quiet
    BY <1>0, <2>2 DEF ChargeReads, Draws, holdVars, booksVars, Quiet, HoldsStand
  <2>3. ASSUME NEW c \in Callers, NEW h \in Holds, NEW a \in 1..2, FillReads(c, h, a) PROVE Quiet
    BY <1>0, <2>3 DEF FillReads, holdVars, booksVars, Quiet, HoldsStand
  <2>4. ASSUME NEW c \in Callers, NEW m \in Mandates, RevokeLocks(c, m) PROVE Quiet
    BY <1>0, <2>4 DEF RevokeLocks, holdVars, booksVars, Quiet, HoldsStand
  <2>5. ASSUME NEW c \in Callers, ReserveCommits(c) PROVE \E s, S : Adds(s, S)
    BY <2>5, ReserveCommitsShape
  <2>6. ASSUME NEW c \in Callers, ChargeCommits(c) PROVE Quiet
    BY <1>0, <2>6 DEF ChargeCommits, holdVars, booksVars, Quiet, HoldsStand
  <2>7. ASSUME NEW c \in Callers, FillCommits(c) PROVE \E s, S : Adds(s, S)
    BY <2>7, FillCommitsShape
  <2>8. ASSUME NEW c \in Callers, RevokeCommits(c) PROVE \E s, S : Adds(s, S)
    <3> PICK S : S = {h \in Holds : hstate[h] = "active"}
      OBVIOUS
    <3>1. S \in SUBSET Holds /\ \A h \in S : hstate[h] = "active"
      OBVIOUS
    <3>2. ReleaseAll(S, "voided") /\ UNCHANGED <<captured, standing, refusedAt, booksVars, feed>>
      BY <2>8 DEF RevokeCommits
    <3> QED BY <3>1, <3>2, ReleaseShape
  <2>9. ASSUME NEW c \in Callers, RequestDropped(c) PROVE Quiet
    BY <1>0, <2>9 DEF RequestDropped, holdVars, booksVars, Quiet, HoldsStand
  <2>10. ASSUME NEW h \in Holds, NEW a \in 1..2, Capture(h, a) PROVE \E s, S : Adds(s, S)
    <3>1. hstate[h] = "active" /\ a \in 1..Remaining(h) /\ CaptureOf(h, a) /\ UNCHANGED <<refusedAt, booksVars, feed>>
      BY <2>10 DEF Capture
    <3> QED BY <3>1, CaptureShape
  <2>11. ASSUME NEW h \in Holds, Void(h) PROVE \E s, S : Adds(s, S)
    <3>1. \A x \in {h} : hstate[x] = "active"
      BY <2>11 DEF Void
    <3>2. ReleaseAll({h}, "voided") /\ UNCHANGED <<captured, standing, refusedAt, booksVars, feed>>
      BY <2>11 DEF Void
    <3>3. {h} \in SUBSET Holds
      OBVIOUS
    <3> QED BY <3>1, <3>2, <3>3, ReleaseShape
  <2>12. ASSUME NEW h \in Holds, ExpireDueHold(h) PROVE \E s, S : Adds(s, S)
    <3>1. \A x \in {h} : hstate[x] = "active"
      BY <2>12 DEF ExpireDueHold, IsDue
    <3>2. ReleaseAll({h}, "expired") /\ UNCHANGED <<captured, standing, refusedAt, booksVars, feed>>
      BY <2>12 DEF ExpireDueHold
    <3>3. {h} \in SUBSET Holds
      OBVIOUS
    <3> QED BY <3>1, <3>2, <3>3, ReleaseShape
  <2>13. ASSUME NEW h \in Holds, TtlPasses(h) PROVE Quiet
    BY <1>0, <2>13 DEF TtlPasses, booksVars, Quiet, HoldsStand
  <2>14. ASSUME NEW m \in Mandates, Grant(m) PROVE Quiet
    BY <1>0, <2>14 DEF Grant, booksVars, Quiet, HoldsStand
  <2>15. ASSUME NEW m \in Mandates, MandateLapses(m) PROVE Quiet
    BY <1>0, <2>15 DEF MandateLapses, holdVars, booksVars, Quiet, HoldsStand
  <2>16. ASSUME NEW k \in ChargeIds, RelayCharge(k) PROVE Quiet
    <3>1. free' \in Nat
      BY <1>0, <2>16, Consts DEF RelayCharge
    <3> QED BY <2>16, <3>1 DEF RelayCharge, holdVars, Quiet, HoldsStand
  <2>17. DayPasses \/ FreezeOrThaw => Quiet
    BY <1>0 DEF DayPasses, FreezeOrThaw, holdVars, booksVars, Quiet, HoldsStand
  <2>18. ForeignTake => Quiet
    BY DEF ForeignTake, holdVars, Quiet, HoldsStand
  <2>19. RelayHoldStep => \E i \in DOMAIN rows : RowStep(i)
    BY DEF RelayHoldStep, RowStep
  <2>20. (\E i \in DOMAIN rows : ParkConflict(i) \/ ParkUnrecorded(i) \/ UnparkRow(i)) => \E i \in DOMAIN rows : RowStep(i)
    BY DEF RowStep
  <2> QED BY <1>2, <2>1, <2>2, <2>3, <2>4, <2>5, <2>6, <2>7, <2>8, <2>9, <2>10, <2>11, <2>12, <2>13, <2>14,
             <2>15, <2>16, <2>17, <2>18, <2>19, <2>20 DEF HoldsNext
<1> QED BY <1>1, <1>2

LEMMA RowStepStory ==
    ASSUME Story, NEW i \in DOMAIN rows, RowStep(i)
    PROVE  Story' /\ Stamps
<1>0. rows \in Seq(RowSet)
  BY DEF Story, RowsFit
<1>1. CASE ParkRefusedReserve(i)
  BY <1>1, RefuseStory
<1>2. CASE RelayReserve(i) \/ RelayCapture(i) \/ RelayRelease(i)
  <2>1. UNCHANGED rows /\ HoldsStand
    BY <1>2 DEF RelayReserve, RelayCapture, RelayRelease, holdVars, HoldsStand
  <2> QED BY <1>0, <2>1, UnchangedStamps, StampsStory
<1>3. CASE RelayAnnounce(i)
  <2>1. HoldsStand /\ (Stamp(i, "done") \/ UNCHANGED rows)
    BY <1>3 DEF RelayAnnounce, holdVars, HoldsStand
  <2>2. Stamps
    BY <1>0, <2>1, UnchangedStamps, StampStamps
  <2> QED BY <2>1, <2>2, StampsStory
<1>4. CASE ParkUnreserved(i) \/ ParkConflict(i) \/ ParkUnrecorded(i)
  <2>1. HoldsStand /\ Stamp(i, "parked")
    BY <1>4 DEF ParkUnreserved, ParkConflict, ParkUnrecorded, holdVars, HoldsStand
  <2> QED BY <1>0, <2>1, StampStamps, StampsStory
<1>5. CASE UnparkRow(i)
  <2>1. HoldsStand
    BY <1>5 DEF UnparkRow, holdVars, HoldsStand
  <2> QED BY <1>0, <1>5, <2>1, UnparkStamps, StampsStory
<1> QED BY <1>1, <1>2, <1>3, <1>4, <1>5 DEF RowStep

LEMMA StoryKept ==
    ASSUME Story, Books, Drawing, [HoldsNext]_holdsVars
    PROVE  Story'
<1>1. ASSUME NEW s, NEW S, Adds(s, S) PROVE Story'
  BY <1>1, AddsStory
<1>2. CASE Quiet
  <2>1. rows \in Seq(RowSet) /\ UNCHANGED rows /\ HoldsStand
    BY <1>2 DEF Quiet, Story, RowsFit
  <2> QED BY <2>1, UnchangedStamps, StampsStory
<1>3. ASSUME NEW i \in DOMAIN rows, RowStep(i) PROVE Story'
  BY <1>3, RowStepStory
<1> QED BY <1>1, <1>2, <1>3, Shapes

-----------------------------------------------------------------------------
(***************************************************************************)
(* The ledger's books of the rows.                                         *)
(***************************************************************************)
LEMMA OneRowAVersion ==
    ASSUME Story, NEW j \in DOMAIN rows, NEW k \in DOMAIN rows,
           rows[j].hold = rows[k].hold, rows[j].version = rows[k].version
    PROVE  j = k
<1>1. rows \in Seq(RowSet) /\ rows[j].version \in Nat /\ rows[k].version \in Nat /\ j \in Nat /\ k \in Nat
  BY StoryFacts, RowTypes DEF Story, RowsFit
<1>2. CASE j < k
  <2>1. RowFollows(rows[j], rows[k])
    BY <1>2 DEF Story, RowsFit
  <2> QED BY <1>1, <2>1 DEF RowFollows
<1>3. CASE k < j
  <2>1. RowFollows(rows[k], rows[j])
    BY <1>3 DEF Story, RowsFit
  <2> QED BY <1>1, <2>1 DEF RowFollows
<1> QED BY <1>1, <1>2, <1>3

LEMMA BookFacts ==
    ASSUME Story, Books, NEW h \in Holds
    PROVE  /\ reserved[h] \subseteq Nat \ {0} /\ voided[h] \subseteq reserved[h]
           /\ taken[h] \in [DOMAIN taken[h] -> Nat] /\ DOMAIN taken[h] \subseteq 2..version[h]
           /\ \A v \in reserved[h] : v \in 1..version[h] /\ \A u \in 1..(v - 1) : u \in voided[h]
           /\ \A v \in voided[h] : v + 1 \in 1..version[h]
           /\ \A v \in DOMAIN taken[h] : v - 1 \in voided[h]
<1>1. BookTypes /\ BookFits(h)
  BY DEF Books
<1>2. ASSUME NEW i \in DOMAIN rows, rows[i].hold = h PROVE rows[i].version \in 1..version[h]
  <2>1. rows[i] \in RowSet /\ RowFits(rows[i]) /\ version[h] \in Nat
    BY StoryFacts
  <2> QED BY <1>2, <2>1, RowTypes DEF RowFits
<1>3. \A v \in DOMAIN taken[h] : v \in 2..version[h]
  <2> SUFFICES ASSUME NEW v \in DOMAIN taken[h] PROVE v \in 2..version[h]
    OBVIOUS
  <2>1. v \in Nat \ {0, 1} /\ \E i \in DOMAIN rows : rows[i].hold = h /\ rows[i].version = v
    BY <1>1 DEF BookTypes, BookFits
  <2> QED BY <1>2, <2>1
<1>4. \A v \in reserved[h] : v \in 1..version[h]
  BY <1>1, <1>2 DEF BookFits
<1>5. \A v \in voided[h] : v + 1 \in 1..version[h]
  BY <1>1, <1>2 DEF BookFits
<1> QED BY <1>1, <1>3, <1>4, <1>5 DEF BookTypes, BookFits

LEMMA AppliedIsOn ==
    ASSUME NEW r \in RowSet
    PROVE  Applied(r) <=> On(r, reserved, voided, taken)
BY RowTypes DEF Applied, On

LEMMA BooksQuiet ==
    ASSUME Books, Quiet
    PROVE  Books'
<1>1. /\ rows' = rows /\ reserved' = reserved /\ voided' = voided /\ taken' = taken /\ ledgerNo' = ledgerNo
      /\ refusedAt' = refusedAt /\ free' \in Nat
  BY DEF Quiet, HoldsStand
<1>2. BookTypes'
  BY <1>1 DEF Books, BookTypes
<1>3. \A h \in Holds : BookFits(h)'
  BY <1>1 DEF Books, BookFits, Rest
<1>4. \A i \in DOMAIN rows' : RowOnBooks(i)'
  BY <1>1 DEF Books, RowOnBooks, Rest, Gone
<1> QED BY <1>2, <1>3, <1>4 DEF Books

\* A row just raised has not reached the ledger.
LEMMA NewRowUnapplied ==
    ASSUME Story, Books, NEW r \in RowSet, NewRow(r)
    PROVE  ~On(r, reserved, voided, taken)
<1> PICK h \in Holds : h = r.hold
  BY RowTypes
<1>1. version[h] \in Nat /\ DOMAIN taken[h] \subseteq 2..version[h]
      /\ (\A v \in reserved[h] : v \in 1..version[h]) /\ (\A v \in voided[h] : v + 1 \in 1..version[h])
  BY BookFacts, StoryFacts
<1>2. r.version = version[h] + 1
  BY DEF NewRow
<1>3. CASE version[h] = 0
  <2>1. r.kind = "placed"
    BY <1>3 DEF NewRow
  <2> QED BY <1>1, <1>3, <2>1 DEF On
<1>4. CASE version[h] # 0
  <2>1. r.kind \in {"captured", "released"} /\ r.released = version[h]
    BY <1>4 DEF NewRow
  <2>2. version[h] \notin voided[h] /\ r.version \notin DOMAIN taken[h]
    BY <1>1, <1>2
  <2> QED BY <2>1, <2>2 DEF On
<1> QED BY <1>3, <1>4

LEMMA BooksAdds ==
    ASSUME Story, Books, NEW s, NEW S, Adds(s, S)
    PROVE  Books'
<1>1. /\ s \in Seq(RowSet) /\ rows' = rows \o s /\ rows \in Seq(RowSet)
      /\ reserved' = reserved /\ voided' = voided /\ taken' = taken /\ ledgerNo' = ledgerNo
      /\ refusedAt' = refusedAt /\ free' = free
  BY DEF Adds, Story, RowsFit
<1>2. BookTypes'
  BY <1>1 DEF Books, BookTypes
<1>3. \A i \in DOMAIN rows : i \in DOMAIN rows' /\ rows'[i] = rows[i]
  BY <1>1, AddsRows
<1>4. ASSUME NEW h \in Holds PROVE BookFits(h)'
  <2>1. BookFits(h)
    BY DEF Books
  <2>2. \A v \in DOMAIN taken[h] : \E i \in DOMAIN rows' :
           rows'[i].hold = h /\ rows'[i].version = v /\ rows'[i].kind = "captured"
    BY <1>3, <2>1 DEF BookFits
  <2>3. \A v \in reserved[h] : \E i \in DOMAIN rows' :
           rows'[i].hold = h /\ rows'[i].version = v /\ On(rows'[i], reserved, voided, taken) /\ Rest(rows'[i]) > 0
    BY <1>3, <2>1 DEF BookFits
  <2>4. \A v \in voided[h] : \E i \in DOMAIN rows' :
           rows'[i].hold = h /\ rows'[i].version = v + 1 /\ On(rows'[i], reserved, voided, taken)
    BY <1>3, <2>1 DEF BookFits
  <2> QED BY <1>1, <2>1, <2>2, <2>3, <2>4 DEF BookFits
<1>5. ASSUME NEW i \in DOMAIN rows' PROVE RowOnBooks(i)'
  <2>1. CASE i \in DOMAIN rows
    <3>1. RowOnBooks(i) /\ rows'[i] = rows[i]
      BY <1>3, <2>1 DEF Books
    <3>2. \A j \in DOMAIN rows' : j < i => j \in DOMAIN rows /\ rows'[j] = rows[j]
      <4> SUFFICES ASSUME NEW j \in DOMAIN rows', j < i PROVE j \in DOMAIN rows
        BY <1>3
      <4> PICK n \in Nat : n = Len(rows) /\ DOMAIN rows = 1..n
        BY <1>1
      <4>1. i \in 1..n
        BY <2>1
      <4>2. \A x \in DOMAIN rows' : x \in DOMAIN rows \/ \E k \in DOMAIN s : x = Len(rows) + k /\ rows'[x] = s[k]
        BY <1>1, AddsRows
      <4>3. \A k \in DOMAIN s : k \in Nat
        BY <1>1
      <4> QED BY <4>1, <4>2, <4>3
    <3> QED BY <1>1, <3>1, <3>2 DEF RowOnBooks, Rest, Gone
  <2>2. CASE i \notin DOMAIN rows
    <3>1. PICK k \in DOMAIN s : rows'[i] = s[k]
      BY <1>1, <2>2, AddsRows
    <3>2. s[k] \in RowSet /\ NewRow(s[k])
      BY <1>1 DEF Adds
    <3>3. ~On(s[k], reserved, voided, taken) /\ s[k].st = "queued"
      BY <3>2, NewRowUnapplied DEF NewRow
    <3> QED BY <1>1, <3>1, <3>3 DEF RowOnBooks
  <2> QED BY <2>1, <2>2
<1> QED BY <1>2, <1>4, <1>5 DEF Books

\* Stamping a row changes no books; a stamp says done of what the ledger has, and a row the
\* relay has come past stays passed.
LEMMA BooksStamps ==
    ASSUME Story, Books, Stamps,
           UNCHANGED <<reserved, voided, taken, free, ledgerNo>>, refusedAt \subseteq refusedAt', refusedAt' \subseteq ledgerNo,
           \A j \in DOMAIN rows :
              /\ rows'[j].st = "done" => On(rows[j], reserved, voided, taken) \/ rows[j].hold \in refusedAt'
              /\ Passed(rows[j]) => Passed(rows'[j])
    PROVE  Books'
<1>1. rows \in Seq(RowSet) /\ DOMAIN rows' = DOMAIN rows
  BY DEF Story, RowsFit, Stamps
<1>2. ASSUME NEW j \in DOMAIN rows
      PROVE  /\ rows'[j].hold = rows[j].hold /\ rows'[j].version = rows[j].version /\ rows'[j].kind = rows[j].kind
             /\ Rest(rows'[j]) = Rest(rows[j]) /\ Gone(rows'[j]) = Gone(rows[j])
             /\ On(rows'[j], reserved, voided, taken) = On(rows[j], reserved, voided, taken)
  <2>1. /\ rows'[j].hold = rows[j].hold /\ rows'[j].version = rows[j].version /\ rows'[j].kind = rows[j].kind
        /\ rows'[j].released = rows[j].released
    BY DEF Stamps
  <2>2. On(rows'[j], reserved, voided, taken) = On(rows[j], reserved, voided, taken)
    BY <2>1 DEF On
  <2> QED BY <1>1, <2>1, <2>2, StampsKeep
<1>3. reserved' = reserved /\ voided' = voided /\ taken' = taken /\ ledgerNo' = ledgerNo /\ free' = free
  OBVIOUS
<1>4. BookTypes'
  BY <1>3 DEF Books, BookTypes
<1>5. ASSUME NEW h \in Holds PROVE BookFits(h)'
  <2>1. BookFits(h)
    BY DEF Books
  <2>2. \A v \in DOMAIN taken[h] : \E i \in DOMAIN rows' :
           rows'[i].hold = h /\ rows'[i].version = v /\ rows'[i].kind = "captured"
    BY <1>1, <1>2, <2>1 DEF BookFits
  <2>3. \A v \in reserved[h] : \E i \in DOMAIN rows' :
           rows'[i].hold = h /\ rows'[i].version = v /\ On(rows'[i], reserved, voided, taken) /\ Rest(rows'[i]) > 0
    BY <1>1, <1>2, <2>1 DEF BookFits
  <2>4. \A v \in voided[h] : \E i \in DOMAIN rows' :
           rows'[i].hold = h /\ rows'[i].version = v + 1 /\ On(rows'[i], reserved, voided, taken)
    BY <1>1, <1>2, <2>1 DEF BookFits
  <2> QED BY <1>3, <2>1, <2>2, <2>3, <2>4 DEF BookFits
<1>6. ASSUME NEW i \in DOMAIN rows' PROVE RowOnBooks(i)'
  <2>1. i \in DOMAIN rows /\ RowOnBooks(i)
    BY <1>1 DEF Books
  <2>2. \A j \in DOMAIN rows : Passed(rows[j]) => Passed(rows'[j])
    OBVIOUS
  <2>3. rows'[i].st = "done" => On(rows'[i], reserved, voided, taken) \/ rows'[i].hold \in refusedAt'
    BY <1>2, <2>1
  <2>4. On(rows'[i], reserved, voided, taken) =>
          /\ Rest(rows'[i]) > 0 => rows'[i].version \in reserved[rows'[i].hold]
          /\ rows'[i].version \notin voided[rows'[i].hold] => SumOf(taken[rows'[i].hold]) = Gone(rows'[i])
    BY <1>2, <2>1 DEF RowOnBooks
  <2>5. On(rows'[i], reserved, voided, taken) =>
          \A j \in DOMAIN rows' : j < i /\ rows'[j].hold = rows'[i].hold => Passed(rows'[j])
    BY <1>1, <1>2, <2>1, <2>2 DEF RowOnBooks
  <2> QED BY <1>3, <2>3, <2>4, <2>5 DEF RowOnBooks
<1> QED BY <1>4, <1>5, <1>6 DEF Books

LEMMA BooksStampStep ==
    ASSUME Story, Books, NEW i \in DOMAIN rows,
           RelayAnnounce(i) \/ ParkUnreserved(i) \/ ParkConflict(i) \/ ParkUnrecorded(i) \/ UnparkRow(i)
             \/ ParkRefusedReserve(i)
    PROVE  Books'
<1>0. rows \in Seq(RowSet) /\ rows[i] \in RowSet /\ RowOnBooks(i) /\ refusedAt \subseteq ledgerNo
  BY StoryFacts DEF Story, RowsFit, Books, BookTypes
<1> DEFINE OnNow(j) == On(rows[j], reserved, voided, taken)
           Fine(j) == /\ rows'[j].st = "done" => OnNow(j) \/ rows[j].hold \in refusedAt'
                      /\ Passed(rows[j]) => Passed(rows'[j])
<1>1. ASSUME NEW j \in DOMAIN rows, rows'[j] = rows[j], refusedAt \subseteq refusedAt' PROVE Fine(j)
  <2>1. RowOnBooks(j)
    BY DEF Books
  <2> QED BY <1>1, <2>1 DEF RowOnBooks
<1>2. Applied(rows[i]) <=> OnNow(i)
  BY <1>0, AppliedIsOn
<1>3. UNCHANGED <<reserved, voided, taken, free, ledgerNo>>
  BY DEF RelayAnnounce, ParkUnreserved, ParkConflict, ParkUnrecorded, UnparkRow, ParkRefusedReserve, booksVars
<1>4. CASE RelayAnnounce(i)
  <2>1. refusedAt' = refusedAt
    BY <1>4 DEF RelayAnnounce, holdVars
  <2>2. CASE Stamp(i, "done")
    <3>1. Stamps /\ rows'[i].st = "done" /\ \A j \in DOMAIN rows : j # i => rows'[j] = rows[j]
      BY <1>0, <2>2, StampStamps
    <3>2. OnNow(i) \/ rows[i].hold \in refusedAt
      BY <1>2, <1>4 DEF RelayAnnounce
    <3>3. Fine(i)
      BY <2>1, <3>1, <3>2 DEF Passed
    <3>4. \A j \in DOMAIN rows : Fine(j)
      BY <1>1, <2>1, <3>1, <3>3
    <3> QED BY <1>0, <1>3, <2>1, <3>1, <3>4, BooksStamps
  <2>3. CASE UNCHANGED rows
    <3>1. Stamps
      BY <1>0, <2>3, UnchangedStamps
    <3>2. \A j \in DOMAIN rows : Fine(j)
      BY <1>1, <2>1, <2>3
    <3> QED BY <1>0, <1>3, <2>1, <3>1, <3>2, BooksStamps
  <2> QED BY <1>4, <2>2, <2>3 DEF RelayAnnounce
<1>5. CASE ParkUnreserved(i) \/ ParkConflict(i) \/ ParkUnrecorded(i)
  <2>1. refusedAt' = refusedAt /\ Stamp(i, "parked")
    BY <1>5 DEF ParkUnreserved, ParkConflict, ParkUnrecorded, holdVars
  <2>2. Stamps /\ rows'[i].st = "parked" /\ \A j \in DOMAIN rows : j # i => rows'[j] = rows[j]
    BY <1>0, <2>1, StampStamps
  <2>3. Fine(i)
    BY <2>1, <2>2 DEF Passed
  <2>4. \A j \in DOMAIN rows : Fine(j)
    BY <1>1, <2>1, <2>2, <2>3
  <2> QED BY <1>0, <1>3, <2>1, <2>2, <2>4, BooksStamps
<1>6. CASE UnparkRow(i)
  <2>1. refusedAt' = refusedAt
    BY <1>6 DEF UnparkRow, holdVars
  <2>2. Stamps /\ rows'[i].st = "queued" /\ rows'[i].again /\ \A j \in DOMAIN rows : j # i => rows'[j] = rows[j]
    BY <1>0, <1>6, UnparkStamps
  <2>3. Fine(i)
    BY <2>1, <2>2 DEF Passed
  <2>4. \A j \in DOMAIN rows : Fine(j)
    BY <1>1, <2>1, <2>2, <2>3
  <2> QED BY <1>0, <1>3, <2>1, <2>2, <2>4, BooksStamps
<1>7. CASE ParkRefusedReserve(i)
  <2> PICK h : h = rows[i].hold
    OBVIOUS
  <2>1. h \in Holds /\ h \in ledgerNo /\ rows[i].kind = "placed" /\ rows[i].st = "queued" /\ Stamp(i, "parked")
        /\ refusedAt' = refusedAt \union {h}
    BY <1>0, <1>7, RowTypes DEF ParkRefusedReserve, NextRow
  <2>4. Stamps /\ rows'[i].st = "parked" /\ \A j \in DOMAIN rows : j # i => rows'[j] = rows[j]
    BY <1>0, <2>1, StampStamps
  <2>5. Fine(i)
    BY <2>4 DEF Passed
  <2>6. \A j \in DOMAIN rows : Fine(j)
    BY <1>1, <2>1, <2>4, <2>5
  <2>7. refusedAt \subseteq refusedAt' /\ refusedAt' \subseteq ledgerNo
    BY <1>0, <2>1
  <2> QED BY <1>0, <1>3, <2>4, <2>6, <2>7, BooksStamps
<1> QED BY <1>4, <1>5, <1>6, <1>7

LEMMA NothingTaken == SumOf(<<>>) = 0
<1>1. DOMAIN <<>> = {}
  OBVIOUS
<1>2. SumOver(<<>>, {}) = 0
  BY SumChosen, FS_EmptySet
<1> QED BY <1>1, <1>2 DEF SumOf

\* The first row of a hold reserves it on the ledger, or finds its id refused for good.
LEMMA BooksRelayReserve ==
    ASSUME Story, Books, NEW i \in DOMAIN rows, RelayReserve(i)
    PROVE  Books'
<1> PICK r : r = rows[i]
  OBVIOUS
<1>0. r \in RowSet /\ RowFits(r) /\ RowOnBooks(i)
  BY StoryFacts DEF Books
<1> PICK h \in Holds : h = r.hold
  BY <1>0, RowTypes
<1>1. BookTypes /\ BookFits(h)
  BY DEF Books
<1>2. r.kind = "placed" /\ h \notin refusedAt /\ ~Applied(r) /\ r.st = "queued" /\ r.version = 1
      /\ r.amount = HoldAmount[h] /\ HoldAmount[h] \in Nat \ {0} /\ h \notin ledgerNo
  BY <1>0, Consts DEF RelayReserve, NextRow, RowFits
<1>3. 1 \notin reserved[h]
  BY <1>0, <1>2, AppliedIsOn DEF On
<1>4. reserved[h] = {} /\ voided[h] = {} /\ taken[h] = <<>>
  <2>1. \A v \in reserved[h] : v \in Nat \ {0} /\ \A u \in 1..(v - 1) : u \in reserved[h]
    BY <1>1 DEF BookTypes, BookFits
  <2>2. \A v \in reserved[h] : FALSE
    <3> SUFFICES ASSUME NEW v \in reserved[h] PROVE FALSE
      OBVIOUS
    <3>1. v \in Nat \ {0} /\ v # 1
      BY <1>3, <2>1
    <3>2. 1 \in 1..(v - 1)
      BY <3>1
    <3> QED BY <1>3, <2>1, <3>2
  <2> QED BY <1>1, <2>2 DEF BookFits
<1>5. UNCHANGED <<voided, taken, rows, refusedAt>>
  BY DEF RelayReserve, holdVars
<1>6. CASE free >= r.amount
  <2>1. reserved' = [reserved EXCEPT ![h] = @ \union {1}] /\ free' = free - r.amount /\ ledgerNo' = ledgerNo
    BY <1>2, <1>6 DEF RelayReserve
  <2>2. reserved'[h] = {1} /\ \A x \in Holds \ {h} : reserved'[x] = reserved[x]
    BY <1>1, <1>4, <2>1 DEF BookTypes
  <2>3. BookTypes'
    <3>1. free' \in Nat
      BY <1>1, <1>2, <1>6, <2>1 DEF BookTypes
    <3>2. reserved' \in [Holds -> SUBSET (Nat \ {0})]
      BY <1>1, <2>1 DEF BookTypes
    <3> QED BY <1>1, <1>5, <2>1, <3>1, <3>2 DEF BookTypes
  <2>4. ASSUME NEW j \in DOMAIN rows, rows[j].hold # h
        PROVE  On(rows[j], reserved', voided, taken) = On(rows[j], reserved, voided, taken)
    <3>1. rows[j].hold \in Holds \ {h}
      BY <2>4, StoryFacts, RowTypes
    <3> QED BY <2>2, <3>1 DEF On
  <2>5. ASSUME NEW j \in DOMAIN rows, rows[j].hold = h, j # i
        PROVE  ~On(rows[j], reserved', voided, taken) /\ ~On(rows[j], reserved, voided, taken)
    <3>1. rows[j].version # 1 /\ rows[j] \in RowSet /\ RowFits(rows[j])
      BY <1>2, <2>5, OneRowAVersion, StoryFacts
    <3>2. rows[j].kind # "placed" /\ rows[j].version \in Nat \ {0, 1}
      BY <3>1, RowTypes DEF RowFits
    <3>3. DOMAIN taken[h] = {}
      BY <1>4
    <3> QED BY <1>4, <2>5, <3>2, <3>3 DEF On
  <2>6. On(r, reserved', voided, taken)
    BY <1>2, <2>2 DEF On
  <2>7. ASSUME NEW x \in Holds PROVE BookFits(x)'
    <3>1. CASE x = h
      <4>1. Rest(rows[i]) > 0
        BY <1>2 DEF Rest
      <4>2. \A v \in reserved'[h] : \E j \in DOMAIN rows :
               rows[j].hold = h /\ rows[j].version = v /\ On(rows[j], reserved', voided, taken) /\ Rest(rows[j]) > 0
        BY <1>2, <2>2, <2>6, <4>1
      <4>3. DOMAIN taken[h] = {}
        BY <1>4
      <4>4. \A v \in reserved'[h] : \A u \in 1..(v - 1) : FALSE
        BY <2>2
      <4>5. h \notin ledgerNo' /\ reserved'[h] # {} /\ voided'[h] = {} /\ DOMAIN taken'[h] = {}
        BY <1>2, <1>4, <1>5, <2>1, <2>2, <4>3
      <4>6. \A v \in reserved'[h] : \E j \in DOMAIN rows' :
               rows'[j].hold = h /\ rows'[j].version = v /\ On(rows'[j], reserved', voided', taken') /\ Rest(rows'[j]) > 0
        BY <1>5, <4>2
      <4> QED BY <3>1, <4>4, <4>5, <4>6 DEF BookFits
    <3>2. CASE x # h
      <4>1. BookFits(x) /\ reserved'[x] = reserved[x]
        BY <2>2, <3>2 DEF Books
      <4>2. \A v \in reserved[x] : \E j \in DOMAIN rows :
               rows[j].hold = x /\ rows[j].version = v /\ On(rows[j], reserved', voided, taken) /\ Rest(rows[j]) > 0
        BY <2>4, <3>2, <4>1 DEF BookFits
      <4>3. \A v \in voided[x] : \E j \in DOMAIN rows :
               rows[j].hold = x /\ rows[j].version = v + 1 /\ On(rows[j], reserved', voided, taken)
        BY <2>4, <3>2, <4>1 DEF BookFits
      <4> QED BY <1>5, <2>1, <4>1, <4>2, <4>3 DEF BookFits
    <3> QED BY <3>1, <3>2
  <2>8. ASSUME NEW j \in DOMAIN rows' PROVE RowOnBooks(j)'
    <3>1. j \in DOMAIN rows /\ RowOnBooks(j) /\ rows[j].hold \in Holds
      BY <1>5, StoryFacts, RowTypes DEF Books
    <3>2. CASE j = i
      <4>1. \A k \in DOMAIN rows : k < i => rows[k].hold # h
        <5> SUFFICES ASSUME NEW k \in DOMAIN rows, k < i, rows[k].hold = h PROVE FALSE
          OBVIOUS
        <5>1. RowFollows(rows[k], rows[i])
          BY DEF Story, RowsFit
        <5> QED BY <1>2, <5>1 DEF RowFollows
      <4>2. SumOf(taken[h]) = Gone(r)
        <5>1. Gone(r) = 0
          BY <1>2 DEF Gone, Rest
        <5> QED BY <1>4, <5>1, NothingTaken
      <4> QED BY <1>2, <1>5, <2>2, <3>2, <4>1, <4>2 DEF RowOnBooks
    <3>3. CASE j # i /\ rows[j].hold = h
      <4>1. ~On(rows[j], reserved', voided, taken) /\ ~On(rows[j], reserved, voided, taken)
        BY <2>5, <3>1, <3>3
      <4> QED BY <1>5, <3>1, <4>1 DEF RowOnBooks
    <3>4. CASE rows[j].hold # h
      <4>1. On(rows[j], reserved', voided, taken) = On(rows[j], reserved, voided, taken)
            /\ reserved'[rows[j].hold] = reserved[rows[j].hold]
        BY <2>2, <2>4, <3>1, <3>4
      <4> QED BY <1>5, <3>1, <4>1 DEF RowOnBooks
    <3> QED BY <3>2, <3>3, <3>4
  <2> QED BY <2>3, <2>7, <2>8 DEF Books
<1>7. CASE ~(free >= r.amount)
  <2>1. reserved' = reserved /\ free' = free /\ ledgerNo' = ledgerNo \union {h}
    BY <1>7 DEF RelayReserve
  <2>2. BookTypes'
    BY <1>1, <1>5, <2>1 DEF BookTypes
  <2>3. \A x \in Holds : BookFits(x)'
    BY <1>4, <1>5, <2>1 DEF Books, BookFits
  <2>4. \A j \in DOMAIN rows' : RowOnBooks(j)'
    BY <1>5, <2>1 DEF Books, RowOnBooks
  <2> QED BY <2>2, <2>3, <2>4 DEF Books
<1> QED BY <1>6, <1>7

LEMMA TakenSumIs == \A h : TakenSum(h) = SumOf(taken[h])
BY DEF TakenSum, MapThenSumSet, MapThenFoldSet, SumOf, SumOver, SumFn, IsSum

\* Where the relay stands when it comes to a capture or a release: the reservation the row
\* voids is the one that stands, and the relay has come past every row before this one.
LEMMA RelayFacts ==
    ASSUME Story, Books, NEW i \in DOMAIN rows, NextRow(i), rows[i].kind # "placed",
           HasReservation(rows[i]), ~Applied(rows[i]),
           NEW r, r = rows[i], NEW h, h = r.hold, NEW u, u = r.released
    PROVE  /\ h \in Holds /\ u \in Nat \ {0} /\ r.version = u + 1 /\ h \notin ledgerNo
           /\ r.held \in Nat \ {0} /\ r.held <= HoldAmount[h] /\ r.amount \in Nat /\ r.st = "queued"
           /\ u \in reserved[h] /\ u \notin voided[h] /\ r.version \notin reserved[h]
           /\ r.version \notin DOMAIN taken[h]
           /\ \A w \in reserved[h] : w <= u
           /\ \A x \in 1..(u - 1) : x \in voided[h]
           /\ \A j \in DOMAIN rows : rows[j].hold = h /\ On(rows[j], reserved, voided, taken) => rows[j].version <= u
           /\ \A j \in DOMAIN rows : rows[j].hold = h /\ rows[j].version <= u => On(rows[j], reserved, voided, taken)
           /\ \A j \in DOMAIN rows : rows[j].hold = h /\ rows[j].version = u + 1 => j = i
           /\ \A j \in DOMAIN rows : j < i /\ rows[j].hold = h => Passed(rows[j])
           /\ SumOf(taken[h]) = HoldAmount[h] - r.held
<1>0. r \in RowSet /\ RowFits(r) /\ ~On(r, reserved, voided, taken)
  BY StoryFacts, AppliedIsOn
<1>1. h \in Holds /\ u \in Nat \ {0} /\ r.version = u + 1 /\ r.held \in Nat \ {0} /\ r.amount \in Nat
      /\ r.held <= HoldAmount[h] /\ r.st = "queued" /\ HoldAmount[h] \in Nat
  <2>1. h \in Holds /\ u \in Nat /\ r.held \in Nat /\ r.amount \in Nat
    BY <1>0, RowTypes
  <2>2. HoldAmount[h] \in Nat
    BY <2>1, Consts
  <2> QED BY <1>0, <2>1, <2>2 DEF RowFits, NextRow
<1>2. BookTypes /\ BookFits(h)
  BY <1>1 DEF Books
<1>3. u \in reserved[h] /\ h \notin ledgerNo
  BY <1>2 DEF HasReservation, BookFits
<1>4. \A j \in DOMAIN rows : rows[j].hold = h /\ rows[j].version = u + 1 => j = i
  BY <1>1, OneRowAVersion
<1>5. u \notin voided[h]
  BY <1>0, <1>2, <1>4 DEF BookFits
<1>6. \A w \in reserved[h] : w <= u
  <2> SUFFICES ASSUME NEW w \in reserved[h], ~(w <= u) PROVE FALSE
    OBVIOUS
  <2>1. w \in Nat /\ u \in 1..(w - 1)
    BY <1>1, <1>2 DEF BookTypes
  <2> QED BY <1>2, <1>5, <2>1 DEF BookFits
<1>7. \A x \in 1..(u - 1) : x \in voided[h]
  BY <1>2, <1>3 DEF BookFits
<1>8. r.version \notin reserved[h]
  BY <1>1, <1>6
<1>9. r.version \notin DOMAIN taken[h]
  <2> SUFFICES ASSUME r.version \in DOMAIN taken[h] PROVE FALSE
    OBVIOUS
  <2>1. u \in voided[h]
    BY <1>1, <1>2 DEF BookFits
  <2> QED BY <1>5, <2>1
<1>10. ASSUME NEW j \in DOMAIN rows, rows[j].hold = h
       PROVE  /\ rows[j] \in RowSet /\ rows[j].version \in Nat \ {0} /\ RowFits(rows[j])
              /\ rows[j].kind \in {"placed", "captured", "released"} /\ rows[j].released \in Nat
  BY StoryFacts, RowTypes
<1>11. ASSUME NEW j \in DOMAIN rows, rows[j].hold = h, On(rows[j], reserved, voided, taken)
       PROVE  rows[j].version <= u
  <2>1. CASE rows[j].kind = "placed"
    BY <1>1, <1>10, <1>11, <2>1 DEF RowFits
  <2>2. CASE rows[j].kind # "placed"
    <3>1. rows[j].version \in Nat /\ rows[j].version - 1 \in voided[h]
      <4>1. rows[j].kind = "captured" => rows[j].version \in DOMAIN taken[h]
        BY <1>11 DEF On
      <4>2. rows[j].kind = "released" => rows[j].released \in voided[h] /\ rows[j].version = rows[j].released + 1
        BY <1>10, <1>11 DEF On, RowFits
      <4>3. rows[j].kind = "released" => rows[j].version - 1 = rows[j].released
        BY <1>10, <1>11, <4>2
      <4>4. rows[j].kind = "captured" => rows[j].version - 1 \in voided[h]
        BY <1>2, <4>1 DEF BookFits
      <4> QED BY <1>10, <1>11, <2>2, <4>2, <4>3, <4>4
    <3>2. rows[j].version - 1 \in reserved[h] /\ rows[j].version - 1 # u
      BY <1>2, <1>5, <3>1 DEF BookFits
    <3>3. rows[j].version - 1 <= u
      BY <1>6, <3>2
    <3> QED BY <1>1, <3>1, <3>2, <3>3
  <2> QED BY <2>1, <2>2
<1>12. ASSUME NEW j \in DOMAIN rows, rows[j].hold = h, rows[j].version <= u
       PROVE  On(rows[j], reserved, voided, taken)
  <2>1. CASE rows[j].version = 1
    <3>1. rows[j].kind = "placed"
      BY <1>10, <1>12, <2>1 DEF RowFits
    <3>2. 1 \in reserved[h]
      <4>1. CASE u = 1
        BY <1>3, <4>1
      <4>2. CASE u # 1
        <5>1. 1 \in 1..(u - 1)
          BY <1>1, <4>2
        <5> QED BY <1>2, <1>7, <5>1 DEF BookFits
      <4> QED BY <4>1, <4>2
    <3> QED BY <1>12, <3>1, <3>2 DEF On
  <2>2. CASE rows[j].version # 1
    <3>1. rows[j].version - 1 \in 1..(u - 1)
      BY <1>1, <1>10, <1>12, <2>2
    <3>2. PICK k \in DOMAIN rows : /\ rows[k].hold = h /\ rows[k].version = (rows[j].version - 1) + 1
                                   /\ On(rows[k], reserved, voided, taken)
      BY <1>2, <1>7, <3>1 DEF BookFits
    <3>3. rows[k].version = rows[j].version
      BY <1>10, <1>12, <3>2
    <3>4. k = j
      BY <1>12, <3>2, <3>3, OneRowAVersion
    <3> QED BY <3>2, <3>4
  <2> QED BY <2>1, <2>2
<1>13. ASSUME NEW j \in DOMAIN rows, j < i, rows[j].hold = h PROVE Passed(rows[j])
  <2>1. i \in Nat /\ j \in Nat /\ j >= 1
    BY DEF Story, RowsFit
  <2>2. j \in 1..(i - 1)
    BY <1>13, <2>1
  <2> QED BY <2>2 DEF NextRow, Passed
<1>14. SumOf(taken[h]) = HoldAmount[h] - r.held
  <2>1. PICK k \in DOMAIN rows : /\ rows[k].hold = h /\ rows[k].version = u
                                 /\ On(rows[k], reserved, voided, taken) /\ Rest(rows[k]) > 0
    BY <1>2, <1>3 DEF BookFits
  <2>2. SumOf(taken[h]) = Gone(rows[k])
    BY <1>5, <2>1 DEF Books, RowOnBooks
  <2>3. k < i
    <3>1. i \in Nat /\ k \in Nat /\ k # i
      BY <1>1, <2>1 DEF Story, RowsFit
    <3>2. CASE i < k
      <4>1. RowFollows(rows[i], rows[k])
        BY <2>1, <3>2 DEF Story, RowsFit
      <4> QED BY <1>1, <2>1, <4>1 DEF RowFollows
    <3> QED BY <3>1, <3>2
  <2>4. RowFollows(rows[k], rows[i])
    BY <2>1, <2>3 DEF Story, RowsFit
  <2>5. r.held = Rest(rows[k])
    BY <1>1, <2>1, <2>4 DEF RowFollows
  <2>6. rows[k].kind # "released"
    BY <2>1 DEF Rest
  <2> QED BY <2>1, <2>2, <2>5, <2>6 DEF Gone
<1> QED BY <1>1, <1>3, <1>4, <1>5, <1>6, <1>7, <1>8, <1>9, <1>11, <1>12, <1>13, <1>14

\* A capture or a release reaches the ledger: its row is the last one there now.
Relayed(i) ==
    LET r == rows[i]
        h == rows[i].hold
    IN  /\ NextRow(i) /\ r.kind # "placed" /\ HasReservation(r) /\ ~Applied(r)
        /\ UNCHANGED <<rows, refusedAt, ledgerNo>>
        /\ \A x \in Holds \ {h} : reserved'[x] = reserved[x] /\ voided'[x] = voided[x] /\ taken'[x] = taken[x]
        /\ voided'[h] = voided[h] \union {r.released}
        /\ reserved'[h] = IF Rest(r) > 0 THEN reserved[h] \union {r.version} ELSE reserved[h]
        /\ DOMAIN taken'[h] = DOMAIN taken[h] \union (IF r.kind = "captured" THEN {r.version} ELSE {})
        /\ SumOf(taken'[h]) = Gone(r)

LEMMA BooksRelayed ==
    ASSUME Story, Books, NEW i \in DOMAIN rows, Relayed(i), BookTypes'
    PROVE  Books'
<1> PICK r : r = rows[i]
  OBVIOUS
<1> PICK h : h = r.hold
  OBVIOUS
<1> PICK u : u = r.released
  OBVIOUS
<1>a. NextRow(i) /\ r.kind # "placed" /\ HasReservation(r) /\ ~Applied(r) /\ UNCHANGED <<rows, refusedAt, ledgerNo>>
  BY DEF Relayed
<1>b. /\ \A x \in Holds \ {h} : reserved'[x] = reserved[x] /\ voided'[x] = voided[x] /\ taken'[x] = taken[x]
      /\ voided'[h] = voided[h] \union {u}
      /\ reserved'[h] = IF Rest(r) > 0 THEN reserved[h] \union {r.version} ELSE reserved[h]
      /\ DOMAIN taken'[h] = DOMAIN taken[h] \union (IF r.kind = "captured" THEN {r.version} ELSE {})
      /\ SumOf(taken'[h]) = Gone(r)
  BY DEF Relayed
<1>0. r \in RowSet /\ RowFits(r) /\ r.kind \in {"captured", "released"}
  BY <1>a, StoryFacts, RowTypes
<1>1. /\ h \in Holds /\ u \in Nat \ {0} /\ r.version = u + 1 /\ h \notin ledgerNo
      /\ r.held \in Nat \ {0} /\ r.st = "queued"
      /\ u \in reserved[h] /\ u \notin voided[h]
  BY <1>a, RelayFacts
<1>2. /\ \A w \in reserved[h] : w <= u
      /\ \A x \in 1..(u - 1) : x \in voided[h]
  BY <1>a, RelayFacts
<1>3. /\ \A j \in DOMAIN rows : rows[j].hold = h /\ On(rows[j], reserved, voided, taken) => rows[j].version <= u
      /\ \A j \in DOMAIN rows : rows[j].hold = h /\ rows[j].version <= u => On(rows[j], reserved, voided, taken)
  BY <1>a, RelayFacts
<1>4. /\ \A j \in DOMAIN rows : rows[j].hold = h /\ rows[j].version = u + 1 => j = i
      /\ \A j \in DOMAIN rows : j < i /\ rows[j].hold = h => Passed(rows[j])
  BY <1>a, RelayFacts
<1>5. BookTypes /\ BookFits(h)
  BY <1>1 DEF Books
<1>6. rows' = rows /\ refusedAt' = refusedAt /\ ledgerNo' = ledgerNo
  BY <1>a
<1>7. ASSUME NEW j \in DOMAIN rows
      PROVE  rows[j].hold \in Holds /\ rows[j].version \in Nat \ {0} /\ rows[j].kind \in {"placed", "captured", "released"}
             /\ rows[j] \in RowSet /\ RowFits(rows[j]) /\ rows[j].released \in Nat
  BY StoryFacts, RowTypes
<1>8. ASSUME NEW j \in DOMAIN rows, rows[j].hold # h
      PROVE  On(rows[j], reserved', voided', taken') = On(rows[j], reserved, voided, taken)
  <2>1. rows[j].hold \in Holds \ {h}
    BY <1>7, <1>8
  <2> QED BY <1>b, <2>1 DEF On
<1>9. ASSUME NEW j \in DOMAIN rows, rows[j].hold = h, On(rows[j], reserved, voided, taken)
      PROVE  On(rows[j], reserved', voided', taken')
  <2>1. reserved[h] \subseteq reserved'[h] /\ voided[h] \subseteq voided'[h] /\ DOMAIN taken[h] \subseteq DOMAIN taken'[h]
    BY <1>b
  <2> QED BY <1>9, <2>1 DEF On
<1>10. On(r, reserved', voided', taken')
  BY <1>0, <1>b DEF On
<1>11. ASSUME NEW j \in DOMAIN rows, rows[j].hold = h, j # i, On(rows[j], reserved', voided', taken')
       PROVE  On(rows[j], reserved, voided, taken)
  <2>0. rows[j].version # r.version
    BY <1>1, <1>4, <1>11
  <2>1. CASE rows[j].kind = "placed"
    <3>1. 1 # r.version
      BY <1>1
    <3>2. 1 \in reserved[h]
      BY <1>11, <1>b, <2>1, <3>1 DEF On
    <3> QED BY <1>11, <2>1, <3>2 DEF On
  <2>2. CASE rows[j].kind = "captured"
    <3>1. rows[j].version \in DOMAIN taken[h]
      BY <1>11, <1>b, <2>0, <2>2 DEF On
    <3> QED BY <1>11, <2>2, <3>1 DEF On
  <2>3. CASE rows[j].kind = "released"
    <3>1. rows[j].released # u
      BY <1>1, <1>7, <2>0, <2>3 DEF RowFits
    <3>2. rows[j].released \in voided[h]
      BY <1>11, <1>b, <2>3, <3>1 DEF On
    <3> QED BY <1>11, <2>3, <3>2 DEF On
  <2> QED BY <1>7, <2>1, <2>2, <2>3
<1>12. BookFits(h)'
  <2>1. voided'[h] \subseteq reserved'[h] /\ reserved'[h] # {} /\ h \notin ledgerNo'
    BY <1>1, <1>5, <1>6, <1>b DEF BookFits
  <2>2. ASSUME NEW v \in reserved'[h], NEW x \in 1..(v - 1) PROVE x \in voided'[h]
    <3>1. CASE v \in reserved[h]
      BY <1>5, <1>b, <2>2, <3>1 DEF BookFits
    <3>2. CASE v = r.version
      <4>1. x = u \/ x \in 1..(u - 1)
        BY <1>1, <2>2, <3>2
      <4> QED BY <1>2, <1>b, <4>1
    <3> QED BY <1>b, <2>2, <3>1, <3>2
  <2>3. ASSUME NEW v \in DOMAIN taken'[h]
        PROVE  v - 1 \in voided'[h] /\ \E j \in DOMAIN rows : rows[j].hold = h /\ rows[j].version = v /\ rows[j].kind = "captured"
    <3>1. CASE v \in DOMAIN taken[h]
      BY <1>5, <1>b, <3>1 DEF BookFits
    <3>2. CASE v \notin DOMAIN taken[h]
      <4>1. v = r.version /\ r.kind = "captured"
        BY <1>b, <2>3, <3>2
      <4>2. v - 1 = u /\ u \in voided'[h]
        BY <1>1, <1>b, <4>1
      <4> QED BY <4>1, <4>2
    <3> QED BY <3>1, <3>2
  <2>4. ASSUME NEW v \in reserved'[h]
        PROVE  \E j \in DOMAIN rows : rows[j].hold = h /\ rows[j].version = v
                                      /\ On(rows[j], reserved', voided', taken') /\ Rest(rows[j]) > 0
    <3>1. CASE v \in reserved[h]
      BY <1>5, <1>9, <3>1 DEF BookFits
    <3>2. CASE v \notin reserved[h]
      <4>1. v = r.version /\ Rest(r) > 0
        BY <1>b, <2>4, <3>2
      <4> QED BY <1>10, <4>1
    <3> QED BY <3>1, <3>2
  <2>5. ASSUME NEW v \in voided'[h]
        PROVE  \E j \in DOMAIN rows : rows[j].hold = h /\ rows[j].version = v + 1 /\ On(rows[j], reserved', voided', taken')
    <3>1. CASE v \in voided[h]
      BY <1>5, <1>9, <3>1 DEF BookFits
    <3>2. CASE v = u
      BY <1>1, <1>10, <3>2
    <3> QED BY <1>b, <2>5, <3>1, <3>2
  <2>6. \A v \in reserved'[h] : \A x \in 1..(v - 1) : x \in voided'[h]
    BY <2>2
  <2>7. \A v \in reserved'[h] : \E j \in DOMAIN rows' : rows'[j].hold = h /\ rows'[j].version = v
                                      /\ On(rows'[j], reserved', voided', taken') /\ Rest(rows'[j]) > 0
    BY <1>6, <2>4
  <2>8. \A v \in voided'[h] : \E j \in DOMAIN rows' :
           rows'[j].hold = h /\ rows'[j].version = v + 1 /\ On(rows'[j], reserved', voided', taken')
    BY <1>6, <2>5
  <2>9. \A v \in DOMAIN taken'[h] : v - 1 \in voided'[h] /\ \E j \in DOMAIN rows' :
           rows'[j].hold = h /\ rows'[j].version = v /\ rows'[j].kind = "captured"
    BY <1>6, <2>3
  <2> QED BY <2>1, <2>6, <2>7, <2>8, <2>9 DEF BookFits
<1>13. ASSUME NEW x \in Holds, x # h PROVE BookFits(x)'
  <2>1. BookFits(x) /\ reserved'[x] = reserved[x] /\ voided'[x] = voided[x] /\ taken'[x] = taken[x]
    BY <1>13, <1>b DEF Books
  <2>2. \A v \in reserved[x] : \E j \in DOMAIN rows :
           rows[j].hold = x /\ rows[j].version = v /\ On(rows[j], reserved', voided', taken') /\ Rest(rows[j]) > 0
    BY <1>8, <1>13, <2>1 DEF BookFits
  <2>3. \A v \in voided[x] : \E j \in DOMAIN rows :
           rows[j].hold = x /\ rows[j].version = v + 1 /\ On(rows[j], reserved', voided', taken')
    BY <1>8, <1>13, <2>1 DEF BookFits
  <2> QED BY <1>6, <2>1, <2>2, <2>3 DEF BookFits
<1>14. ASSUME NEW j \in DOMAIN rows PROVE RowOnBooks(j)'
  <2>1. RowOnBooks(j)
    BY DEF Books
  <2>2. CASE j = i
    <3>1. Rest(r) > 0 => r.version \in reserved'[h]
      BY <1>b
    <3> QED BY <1>1, <1>4, <1>6, <1>10, <1>b, <2>2, <3>1 DEF RowOnBooks
  <2>3. CASE j # i /\ rows[j].hold = h
    <3>1. CASE On(rows[j], reserved, voided, taken)
      <4>1. rows[j].version \in voided'[h]
        <5>1. rows[j].version <= u
          BY <1>3, <2>3, <3>1
        <5>2. rows[j].version = u \/ rows[j].version \in 1..(u - 1)
          BY <1>1, <1>7, <5>1
        <5> QED BY <1>2, <1>b, <5>2
      <4>2. reserved[h] \subseteq reserved'[h]
        BY <1>b
      <4>3. rows[j].version \in voided'[rows[j].hold]
        BY <2>3, <4>1
      <4>4. Rest(rows[j]) > 0 => rows[j].version \in reserved'[rows[j].hold]
        BY <2>1, <2>3, <3>1, <4>2 DEF RowOnBooks
      <4>5. \A k \in DOMAIN rows : k < j /\ rows[k].hold = rows[j].hold => Passed(rows[k])
        BY <2>1, <3>1 DEF RowOnBooks
      <4>6. On(rows[j], reserved', voided', taken')
        BY <1>9, <2>3, <3>1
      <4> QED BY <1>6, <4>3, <4>4, <4>5, <4>6 DEF RowOnBooks
    <3>2. CASE ~On(rows[j], reserved, voided, taken)
      <4>1. ~On(rows[j], reserved', voided', taken')
        BY <1>11, <2>3, <3>2
      <4> QED BY <1>6, <2>1, <3>2, <4>1 DEF RowOnBooks
    <3> QED BY <3>1, <3>2
  <2>4. CASE rows[j].hold # h
    <3>1. rows[j].hold \in Holds \ {h}
      BY <1>7, <2>4
    <3>2. On(rows[j], reserved', voided', taken') = On(rows[j], reserved, voided, taken)
      BY <1>8, <2>4
    <3>3. /\ reserved'[rows[j].hold] = reserved[rows[j].hold] /\ voided'[rows[j].hold] = voided[rows[j].hold]
          /\ taken'[rows[j].hold] = taken[rows[j].hold]
      BY <1>b, <3>1
    <3> QED BY <1>6, <2>1, <3>2, <3>3 DEF RowOnBooks
  <2> QED BY <2>2, <2>3, <2>4
<1> QED BY <1>6, <1>12, <1>13, <1>14 DEF Books

\* A capture more adds its amount to what was taken.
Grown(f, v, a) == [w \in DOMAIN f \union {v} |-> IF w = v THEN a ELSE f[w]]

LEMMA TakenGrows ==
    ASSUME NEW f, IsFiniteSet(DOMAIN f), \A x \in DOMAIN f : f[x] \in Nat, NEW v, v \notin DOMAIN f, NEW a \in Nat
    PROVE  SumOf(Grown(f, v, a)) = SumOf(f) + a /\ SumOf(f) \in Nat
<1> PICK D : D = DOMAIN f
  OBVIOUS
<1> PICK g : g = Grown(f, v, a)
  OBVIOUS
<1>0. g = [w \in D \union {v} |-> IF w = v THEN a ELSE f[w]]
  BY DEF Grown
<1>1. SumOver(g, D) = SumOver(f, D)
  <2>1. \A x \in D : g[x] = f[x]
    BY <1>0
  <2> QED BY <2>1, SumSame
<1>2. SumOver(g, D \union {v}) = SumOver(g, D) + g[v]
  <2>1. \A x \in D \union {v} : g[x] \in Int
    BY <1>0
  <2>2. IsFiniteSet(D) /\ v \notin D
    OBVIOUS
  <2>3. PICK w, E, y : w = g /\ E = D /\ y = v
    OBVIOUS
  <2>4. IsFiniteSet(E) /\ y \notin E /\ \A x \in E \union {y} : w[x] \in Int
    BY <2>1, <2>2, <2>3
  <2>5. SumOver(w, E \union {y}) = SumOver(w, E) + w[y]
    BY ONLY <2>4, SumAdd
  <2> QED BY <2>3, <2>5
<1>3. SumOver(f, D) \in Nat
  BY SumNat
<1>4. DOMAIN g = D \union {v} /\ g[v] = a
  BY <1>0
<1> QED BY <1>1, <1>2, <1>3, <1>4 DEF SumOf

LEMMA TakenFinite ==
    ASSUME Story, Books, NEW h \in Holds
    PROVE  IsFiniteSet(DOMAIN taken[h]) /\ \A v \in DOMAIN taken[h] : taken[h][v] \in Nat
<1>1. DOMAIN taken[h] \subseteq 2..version[h] /\ version[h] \in Nat /\ taken[h] \in [DOMAIN taken[h] -> Nat]
  BY BookFacts, StoryFacts
<1>2. IsFiniteSet(2..version[h])
  BY <1>1, FS_Interval
<1> QED BY <1>1, <1>2, FS_Subset

LEMMA BooksRelayCapture ==
    ASSUME Story, Books, NEW i \in DOMAIN rows, RelayCapture(i)
    PROVE  Books'
<1> PICK r : r = rows[i]
  OBVIOUS
<1> PICK h : h = r.hold
  OBVIOUS
<1> PICK u : u = r.released
  OBVIOUS
<1>1. NextRow(i) /\ r.kind = "captured" /\ HasReservation(r) /\ ~Applied(r)
  BY DEF RelayCapture
<1>2. /\ h \in Holds /\ u \in Nat \ {0} /\ r.version = u + 1 /\ r.held \in Nat \ {0} /\ r.amount \in Nat
      /\ r.version \notin DOMAIN taken[h] /\ SumOf(taken[h]) = HoldAmount[h] - r.held
  BY <1>1, RelayFacts
<1>3. BookTypes /\ HoldAmount[h] \in Nat
  BY <1>2, Consts DEF Books
<1> PICK f : f = taken[h]
  OBVIOUS
<1> PICK v, a : v = r.version /\ a = r.amount
  OBVIOUS
<1> PICK g : g = Grown(f, v, a)
  OBVIOUS
<1>0. g = [w \in DOMAIN f \union {r.version} |-> IF w = r.version THEN r.amount ELSE f[w]]
  BY DEF Grown
<1>4. /\ voided' = [voided EXCEPT ![h] = @ \union {u}] /\ taken' = [taken EXCEPT ![h] = g]
      /\ reserved' = IF Rest(r) > 0 THEN [reserved EXCEPT ![h] = @ \union {r.version}] ELSE reserved
      /\ UNCHANGED <<rows, refusedAt, ledgerNo, free>>
  BY <1>0, <1>1, <1>2, <1>3 DEF RelayCapture, holdVars, Rest, BookTypes
<1>5. SumOf(g) = SumOf(f) + r.amount
  <2>1. IsFiniteSet(DOMAIN f) /\ \A w \in DOMAIN f : f[w] \in Nat
    BY <1>2, TakenFinite
  <2>2. v \notin DOMAIN f /\ a \in Nat
    BY <1>2
  <2>3. SumOf(Grown(f, v, a)) = SumOf(f) + a
    BY <2>1, <2>2, TakenGrows
  <2> QED BY <2>3
<1>6. SumOf(g) = Gone(r)
  BY <1>1, <1>2, <1>3, <1>5 DEF Gone, Rest
<1>7. /\ voided'[h] = voided[h] \union {u} /\ taken'[h] = g
      /\ reserved'[h] = IF Rest(r) > 0 THEN reserved[h] \union {r.version} ELSE reserved[h]
      /\ \A x \in Holds \ {h} : reserved'[x] = reserved[x] /\ voided'[x] = voided[x] /\ taken'[x] = taken[x]
  BY <1>2, <1>3, <1>4 DEF BookTypes
<1>8. g \in [DOMAIN g -> Nat] /\ DOMAIN g = DOMAIN f \union {r.version} /\ DOMAIN g \subseteq Nat \ {0, 1}
  <2>1. DOMAIN g = DOMAIN f \union {r.version} /\ \A w \in DOMAIN g : g[w] = IF w = r.version THEN r.amount ELSE f[w]
    BY <1>0
  <2>2. f \in [DOMAIN f -> Nat] /\ DOMAIN f \subseteq Nat \ {0, 1}
    BY <1>2, <1>3 DEF BookTypes
  <2>3. \A w \in DOMAIN g : g[w] \in Nat
    BY <1>2, <2>1, <2>2
  <2>4. r.version \in Nat \ {0, 1}
    BY <1>2
  <2> QED BY <1>0, <2>1, <2>2, <2>3, <2>4
<1>9. BookTypes'
  <2>1. reserved' \in [Holds -> SUBSET (Nat \ {0})]
    BY <1>2, <1>3, <1>4 DEF BookTypes
  <2>2. voided' \in [Holds -> SUBSET (Nat \ {0})]
    BY <1>2, <1>3, <1>4 DEF BookTypes
  <2>3. DOMAIN taken' = Holds
    BY <1>3, <1>4 DEF BookTypes
  <2>4. ASSUME NEW x \in Holds PROVE taken'[x] \in [DOMAIN taken'[x] -> Nat] /\ DOMAIN taken'[x] \subseteq Nat \ {0, 1}
    <3>1. CASE x = h
      BY <1>7, <1>8, <3>1
    <3>2. CASE x # h
      BY <1>3, <1>7, <3>2 DEF BookTypes
    <3> QED BY <3>1, <3>2
  <2> QED BY <1>3, <1>4, <2>1, <2>2, <2>3, <2>4 DEF BookTypes
<1>10. DOMAIN taken'[h] = DOMAIN taken[h] \union (IF r.kind = "captured" THEN {r.version} ELSE {})
  BY <1>1, <1>7, <1>8
<1>11. SumOf(taken'[h]) = Gone(r)
  BY <1>6, <1>7
<1>12. rows[i].kind # "placed" /\ HasReservation(rows[i]) /\ ~Applied(rows[i])
  BY <1>1
<1>13. Relayed(i)
  BY <1>1, <1>4, <1>7, <1>10, <1>11, <1>12 DEF Relayed
<1> QED BY <1>9, <1>13, BooksRelayed

LEMMA BooksRelayRelease ==
    ASSUME Story, Books, NEW i \in DOMAIN rows, RelayRelease(i)
    PROVE  Books'
<1> PICK r : r = rows[i]
  OBVIOUS
<1> PICK h : h = r.hold
  OBVIOUS
<1> PICK u : u = r.released
  OBVIOUS
<1>1. NextRow(i) /\ r.kind = "released" /\ HasReservation(r) /\ ~Applied(r)
  BY DEF RelayRelease
<1>2. /\ h \in Holds /\ u \in Nat \ {0} /\ r.version = u + 1 /\ r.held \in Nat \ {0}
      /\ SumOf(taken[h]) = HoldAmount[h] - r.held
  BY <1>1, RelayFacts
<1>3. BookTypes
  BY DEF Books
<1>4. /\ voided' = [voided EXCEPT ![h] = @ \union {u}] /\ taken' = taken /\ reserved' = reserved
      /\ UNCHANGED <<rows, refusedAt, ledgerNo>> /\ free' = free + r.held
  BY DEF RelayRelease, holdVars
<1>5. Rest(r) = 0 /\ SumOf(taken[h]) = Gone(r)
  BY <1>1, <1>2 DEF Gone, Rest
<1>6. /\ voided'[h] = voided[h] \union {u} /\ reserved'[h] = reserved[h]
      /\ \A x \in Holds \ {h} : voided'[x] = voided[x]
  BY <1>2, <1>3, <1>4 DEF BookTypes
<1>7. BookTypes'
  <2>1. voided' \in [Holds -> SUBSET (Nat \ {0})]
    BY <1>2, <1>3, <1>4 DEF BookTypes
  <2>2. free' \in Nat
    BY <1>2, <1>3, <1>4 DEF BookTypes
  <2> QED BY <1>3, <1>4, <2>1, <2>2 DEF BookTypes
<1>8. reserved'[h] = IF Rest(r) > 0 THEN reserved[h] \union {r.version} ELSE reserved[h]
  BY <1>5, <1>6
<1>9. DOMAIN taken'[h] = DOMAIN taken[h] \union (IF r.kind = "captured" THEN {r.version} ELSE {})
  BY <1>1, <1>4
<1>10. \A x \in Holds \ {h} : reserved'[x] = reserved[x] /\ voided'[x] = voided[x] /\ taken'[x] = taken[x]
  BY <1>4, <1>6
<1>11. SumOf(taken'[h]) = Gone(r)
  BY <1>4, <1>5
<1>12. rows[i].kind # "placed" /\ HasReservation(rows[i]) /\ ~Applied(rows[i])
  BY <1>1
<1>13. Relayed(i)
  BY <1>1, <1>4, <1>6, <1>8, <1>9, <1>10, <1>11, <1>12 DEF Relayed
<1> QED BY <1>7, <1>13, BooksRelayed

LEMMA BooksKept ==
    ASSUME Story, Books, Drawing, [HoldsNext]_holdsVars
    PROVE  Books'
<1>1. ASSUME NEW s, NEW S, Adds(s, S) PROVE Books'
  BY <1>1, BooksAdds
<1>2. ASSUME NEW i \in DOMAIN rows, RowStep(i) PROVE Books'
  BY <1>2, BooksRelayReserve, BooksRelayCapture, BooksRelayRelease, BooksStampStep DEF RowStep
<1> QED BY <1>1, <1>2, BooksQuiet, Shapes

-----------------------------------------------------------------------------
(***************************************************************************)
(* What the client is told: only of rows the ledger has, each later than   *)
(* the ones before.                                                        *)
(***************************************************************************)
\* Rows stay, and the ledger keeps the legs it has.
Wider ==
    \A j \in DOMAIN rows :
        /\ j \in DOMAIN rows' /\ rows'[j].hold = rows[j].hold /\ rows'[j].version = rows[j].version
        /\ Rest(rows'[j]) = Rest(rows[j]) /\ (rows[j].again => rows'[j].again)
        /\ On(rows[j], reserved, voided, taken) => On(rows'[j], reserved', voided', taken')

LEMMA FeedFitsKept ==
    ASSUME Wider, NEW h \in Holds, FeedFits(h), feed'[h] = feed[h], (h \in refusedAt') <=> (h \in refusedAt)
    PROVE  FeedFits(h)'
<1>1. ASSUME h \notin refusedAt, NEW n \in DOMAIN feed[h]
      PROVE  \E j \in DOMAIN rows' : /\ rows'[j].hold = h /\ On(rows'[j], reserved', voided', taken')
                                     /\ feed[h][n].version = rows'[j].version /\ feed[h][n].remaining = Rest(rows'[j])
  <2>1. PICK j \in DOMAIN rows : /\ rows[j].hold = h /\ On(rows[j], reserved, voided, taken)
                                 /\ feed[h][n].version = rows[j].version /\ feed[h][n].remaining = Rest(rows[j])
    BY <1>1 DEF FeedFits
  <2> QED BY <2>1 DEF Wider
<1>2. feed[h] \in Seq([version : Nat, remaining : Nat]) /\ (h \in refusedAt => Len(feed[h]) <= 1)
  BY DEF FeedFits
<1> QED BY <1>1, <1>2 DEF FeedFits

\* FeedInOrder, of a stream and the rows it tells.
Again(rs, h, v) == \E i \in DOMAIN rs : rs[i].hold = h /\ rs[i].version = v /\ rs[i].again
InOrder(rs, h, d, e) ==
    /\ d.version # e.version
    /\ Again(rs, h, e.version) \/ (d.version < e.version /\ d.remaining > e.remaining)
TellsInOrder(f, rs, h) == \A m, n \in DOMAIN f : m < n => InOrder(rs, h, f[m], f[n])

LEMMA FeedOrderIs ==
    /\ FeedInOrder <=> \A h \in Holds : TellsInOrder(feed[h], rows, h)
    /\ FeedInOrder' <=> \A h \in Holds : TellsInOrder(feed'[h], rows', h)
BY DEF FeedInOrder, WasUnparked, TellsInOrder, InOrder, Again

LEMMA AgainKept ==
    ASSUME Wider, NEW h, NEW v, Again(rows, h, v)
    PROVE  Again(rows', h, v)
BY DEF Wider, Again

LEMMA InOrderKept ==
    ASSUME Wider, NEW h, NEW f, TellsInOrder(f, rows, h)
    PROVE  TellsInOrder(f, rows', h)
BY AgainKept DEF TellsInOrder, InOrder

LEMMA ToldSame ==
    ASSUME Told, Wider, feed' = feed, refusedAt' = refusedAt
    PROVE  Told'
<1>1. \A h \in Holds : FeedFits(h)'
  BY FeedFitsKept DEF Told
<1>2. FeedInOrder'
  BY FeedOrderIs, InOrderKept DEF Told
<1> QED BY <1>1, <1>2 DEF Told

LEMMA StampsWider ==
    ASSUME rows \in Seq(RowSet), Stamps, UNCHANGED <<reserved, voided, taken>>
    PROVE  Wider
<1>1. ASSUME NEW j \in DOMAIN rows
      PROVE  On(rows'[j], reserved', voided', taken') = On(rows[j], reserved, voided, taken)
  BY <1>1 DEF Stamps, On
<1>2. \A j \in DOMAIN rows : Rest(rows'[j]) = Rest(rows[j])
  BY StampsKeep
<1> QED BY <1>1, <1>2 DEF Stamps, Wider

\* Nothing of a refused reservation is on the ledger.
LEMMA NothingOn ==
    ASSUME Story, Books, NEW j \in DOMAIN rows, rows[j].hold \in ledgerNo
    PROVE  ~On(rows[j], reserved, voided, taken)
<1> PICK h : h = rows[j].hold
  OBVIOUS
<1>1. h \in Holds
  BY StoryFacts, RowTypes
<1>2. reserved[h] = {} /\ voided[h] = {} /\ taken[h] = <<>>
  BY <1>1 DEF Books, BookFits
<1> QED BY <1>2 DEF On

LEMMA Appended ==
    ASSUME NEW T, NEW f \in Seq(T), NEW e \in T, NEW g, g = Append(f, e)
    PROVE  /\ g \in Seq(T) /\ Len(f) \in Nat /\ DOMAIN f = 1..Len(f) /\ DOMAIN g = 1..(Len(f) + 1)
           /\ g[Len(f) + 1] = e /\ \A n \in 1..Len(f) : g[n] = f[n]
OBVIOUS

LEMMA NoneIn ==
    ASSUME NEW T, NEW f \in Seq(T), DOMAIN f = {}
    PROVE  f = <<>>
<1>1. Len(f) = 0
  <2>1. Len(f) \in Nat /\ DOMAIN f = 1..Len(f)
    OBVIOUS
  <2> QED BY <2>1
<1> QED BY <1>1

LEMMA ToldAnnounce ==
    ASSUME Story, Books, Told, NEW i \in DOMAIN rows, RelayAnnounce(i)
    PROVE  Told'
<1> PICK r : r = rows[i]
  OBVIOUS
<1> PICK h : h = r.hold
  OBVIOUS
<1>1. rows \in Seq(RowSet) /\ r \in RowSet /\ RowFits(r) /\ h \in Holds
  BY StoryFacts, RowTypes DEF Story, RowsFit
<1>2. Stamps /\ UNCHANGED <<reserved, voided, taken, refusedAt>>
  <2>1. Stamp(i, "done") \/ UNCHANGED rows
    BY DEF RelayAnnounce
  <2> QED BY <1>1, <2>1, StampStamps, UnchangedStamps DEF RelayAnnounce, booksVars, holdVars
<1>3. Wider
  BY <1>1, <1>2, StampsWider
<1>4. CASE feed' = feed
  BY <1>2, <1>3, <1>4, ToldSame
<1>5. CASE feed' # feed
  <2> PICK e : e = HoldEvent(r)
    OBVIOUS
  <2>1. Applied(r) /\ Announce(h, e) /\ r.st = "queued"
    BY <1>5 DEF RelayAnnounce, NextRow
  <2>2. feed' = [feed EXCEPT ![h] = Append(@, e)] /\ \A n \in DOMAIN feed[h] : feed[h][n].version # e.version
    BY <1>5, <2>1 DEF Announce
  <2>3. e.version = r.version /\ e.remaining = Rest(r) /\ e \in [version : Nat, remaining : Nat]
    <3>1. Rest(r) \in Nat /\ r.version \in Nat /\ r.kind \in {"placed", "captured", "released"}
      BY <1>1, StoryFacts, RowTypes
    <3> QED BY <3>1 DEF HoldEvent, Rest
  <2>4. On(r, reserved, voided, taken) /\ h \notin refusedAt
    BY <1>1, <2>1, AppliedIsOn, NothingOn DEF Books, BookTypes
  <2>5. DOMAIN feed = Holds /\ FeedFits(h) /\ feed[h] \in Seq([version : Nat, remaining : Nat])
    BY <1>1 DEF Told, FeedFits
  <2>6. ASSUME NEW n \in DOMAIN feed[h] PROVE InOrder(rows', h, feed[h][n], e)
    <3>1. PICK j \in DOMAIN rows : /\ rows[j].hold = h /\ On(rows[j], reserved, voided, taken)
                                   /\ feed[h][n].version = rows[j].version /\ feed[h][n].remaining = Rest(rows[j])
      BY <2>4, <2>5 DEF FeedFits
    <3>2. j # i
      BY <2>2, <2>3, <3>1
    <3>3. feed[h][n].version # e.version
      BY <2>2
    <3>4. CASE i < j
      <4>1. r.again
        BY <2>1, <3>1, <3>4 DEF Books, RowOnBooks, Passed
      <4>2. Again(rows', h, e.version)
        BY <1>2, <2>3, <4>1 DEF Stamps, Again
      <4> QED BY <3>3, <4>2 DEF InOrder
    <3>5. CASE j < i
      <4>1. RowFollows(rows[j], r)
        BY <3>1, <3>5 DEF Story, RowsFit
      <4>2. Rest(r) < r.held
        BY <1>1, <4>1, RowTypes DEF RowFits, RowFollows, Rest
      <4>3. Rest(rows[j]) \in Nat /\ Rest(r) \in Nat /\ r.held \in Nat
        BY <1>1, StoryFacts, RowTypes
      <4>4. feed[h][n].version < e.version /\ feed[h][n].remaining > e.remaining
        BY <2>3, <3>1, <4>1, <4>2, <4>3 DEF RowFollows
      <4> QED BY <3>3, <4>4 DEF InOrder
    <3>6. i \in Nat /\ j \in Nat
      BY <1>1
    <3> QED BY <3>2, <3>4, <3>5, <3>6
  <2>7. feed'[h] = Append(feed[h], e) /\ \A x \in Holds \ {h} : feed'[x] = feed[x]
    BY <1>1, <2>2, <2>5
  <2> PICK f, g, k : f = feed[h] /\ g = feed'[h] /\ k = Len(feed[h])
    OBVIOUS
  <2>8. /\ g \in Seq([version : Nat, remaining : Nat]) /\ k \in Nat /\ DOMAIN f = 1..k /\ DOMAIN g = 1..(k + 1)
        /\ g[k + 1] = e /\ \A n \in 1..k : g[n] = f[n]
    BY <2>3, <2>5, <2>7, Appended
  <2>14. k \in Nat /\ DOMAIN f = 1..k /\ DOMAIN g = 1..(k + 1) /\ g[k + 1] = e /\ \A n \in 1..k : g[n] = f[n]
    BY <2>8, Zenon
  <2>15. feed'[h] = g /\ feed[h] = f
    OBVIOUS
  <2>16. \A n \in 1..(k + 1) : n \notin 1..k => g[n] = e
    <3>1. \A n \in 1..(k + 1) : n \notin 1..k => n = k + 1
      BY <2>14
    <3> QED BY <2>14, <3>1, Zenon
  <2>9. TellsInOrder(feed'[h], rows', h)
    <3> SUFFICES ASSUME NEW m \in 1..(k + 1), NEW n \in 1..(k + 1), m < n
                 PROVE  InOrder(rows', h, g[m], g[n])
      BY <2>14, <2>15, Zenon DEF TellsInOrder
    <3>1. CASE n \in 1..k
      <4>1. m \in 1..k
        BY <2>14, <3>1
      <4>2. TellsInOrder(f, rows, h)
        BY <1>1, <2>15, FeedOrderIs DEF Told
      <4>3. TellsInOrder(f, rows', h)
        BY <1>3, <4>2, InOrderKept
      <4>4. InOrder(rows', h, f[m], f[n])
        BY <2>14, <3>1, <4>1, <4>3 DEF TellsInOrder
      <4> QED BY <2>14, <3>1, <4>1, <4>4
    <3>2. CASE n \notin 1..k
      <4>1. n = k + 1 /\ m \in 1..k
        BY <2>14, <3>2
      <4>2. g[n] = e /\ g[m] = f[m]
        BY <2>14, <2>16, <4>1
      <4>3. InOrder(rows', h, f[m], e)
        BY <2>6, <2>14, <2>15, <4>1
      <4> QED BY <4>2, <4>3
    <3> QED BY <3>1, <3>2
  <2>10. FeedFits(h)'
    <3>1. ASSUME NEW n \in 1..(k + 1)
          PROVE  \E j \in DOMAIN rows' : /\ rows'[j].hold = h /\ On(rows'[j], reserved', voided', taken')
                                         /\ g[n].version = rows'[j].version
                                         /\ g[n].remaining = Rest(rows'[j])
      <4>1. \E j \in DOMAIN rows : /\ rows[j].hold = h /\ On(rows[j], reserved, voided, taken)
                                   /\ g[n].version = rows[j].version /\ g[n].remaining = Rest(rows[j])
        <5>1. CASE n \in 1..k
          <6>1. g[n] = feed[h][n] /\ n \in DOMAIN feed[h]
            BY <2>14, <5>1
          <6> QED BY <2>4, <2>5, <6>1 DEF FeedFits
        <5>2. CASE n \notin 1..k
          <6>1. g[n] = e
            BY <2>16, <5>2
          <6> QED BY <2>3, <2>4, <6>1
        <5> QED BY <5>1, <5>2
      <4> QED BY <1>3, <4>1 DEF Wider
    <3>2. h \notin refusedAt'
      BY <1>2, <2>4
    <3>3. feed'[h] = g /\ DOMAIN g = 1..(k + 1)
      BY <2>14, <2>15
    <3>4. \A n \in DOMAIN feed'[h] : \E j \in DOMAIN rows' :
             /\ rows'[j].hold = h /\ On(rows'[j], reserved', voided', taken')
             /\ feed'[h][n].version = rows'[j].version /\ feed'[h][n].remaining = Rest(rows'[j])
      BY <3>1, <3>3, Zenon
    <3>5. feed'[h] \in Seq([version : Nat, remaining : Nat])
      BY <2>8, <3>3, Zenon
    <3> QED BY <3>2, <3>4, <3>5 DEF FeedFits
  <2>11. ASSUME NEW x \in Holds \ {h} PROVE FeedFits(x)'
    <3>1. feed'[x] = feed[x] /\ refusedAt' = refusedAt /\ FeedFits(x)
      BY <1>2, <2>7 DEF Told
    <3> QED BY <1>3, <3>1, FeedFitsKept
  <2>12. DOMAIN feed' = Holds
    BY <2>2, <2>5
  <2>13. FeedInOrder'
    <3>1. ASSUME NEW x \in Holds PROVE TellsInOrder(feed'[x], rows', x)
      <4>1. CASE x = h
        BY <2>9, <4>1
      <4>2. CASE x # h
        <5>1. feed'[x] = feed[x] /\ TellsInOrder(feed[x], rows, x)
          BY <2>7, <4>2, FeedOrderIs DEF Told
        <5> QED BY <1>3, <5>1, InOrderKept
      <4> QED BY <4>1, <4>2
    <3> QED BY <3>1, FeedOrderIs
  <2> QED BY <2>10, <2>11, <2>12, <2>13 DEF Told
<1> QED BY <1>4, <1>5

LEMMA ToldRefuse ==
    ASSUME Story, Books, Told, NEW i \in DOMAIN rows, ParkRefusedReserve(i)
    PROVE  Told'
<1> PICK r : r = rows[i]
  OBVIOUS
<1> PICK h : h = r.hold
  OBVIOUS
<1> PICK e : e = [version |-> version[h] + 1, remaining |-> 0]
  OBVIOUS
<1>1. rows \in Seq(RowSet) /\ r \in RowSet /\ h \in Holds /\ version[h] \in Nat
  BY StoryFacts, RowTypes DEF Story, RowsFit
<1>2. /\ h \in ledgerNo /\ h \notin refusedAt /\ refusedAt' = refusedAt \union {h}
      /\ Announce(h, e) /\ UNCHANGED <<reserved, voided, taken>>
  BY DEF ParkRefusedReserve, booksVars
<1>3. Wider
  BY <1>1, <1>2, RefuseStory, StampsWider
<1>4. FeedFits(h) /\ DOMAIN feed = Holds
  BY <1>1 DEF Told
<1>5. DOMAIN feed[h] = {}
  BY <1>2, <1>4, NothingOn DEF FeedFits
<1>6. feed[h] = <<>>
  BY <1>4, <1>5, NoneIn DEF FeedFits
<1>7. feed' = [feed EXCEPT ![h] = Append(@, e)]
  BY <1>2, <1>5 DEF Announce
<1>8. feed'[h] = <<e>> /\ DOMAIN feed' = Holds /\ \A x \in Holds \ {h} : feed'[x] = feed[x]
  BY <1>1, <1>4, <1>6, <1>7
<1>9. e \in [version : Nat, remaining : Nat]
  BY <1>1
<1>10. FeedFits(h)'
  <2>1. feed'[h] \in Seq([version : Nat, remaining : Nat]) /\ Len(feed'[h]) <= 1 /\ h \in refusedAt'
    BY <1>2, <1>8, <1>9
  <2> QED BY <2>1 DEF FeedFits
<1>11. ASSUME NEW x \in Holds \ {h} PROVE FeedFits(x)'
  <2>1. feed'[x] = feed[x] /\ ((x \in refusedAt') <=> (x \in refusedAt)) /\ FeedFits(x)
    BY <1>2, <1>8 DEF Told
  <2> QED BY <1>3, <2>1, FeedFitsKept
<1>12. FeedInOrder'
  <2>1. ASSUME NEW x \in Holds PROVE TellsInOrder(feed'[x], rows', x)
    <3>1. CASE x = h
      <4>1. \A m, n \in DOMAIN <<e>> : ~(m < n)
        OBVIOUS
      <4> QED BY <1>8, <3>1, <4>1 DEF TellsInOrder
    <3>2. CASE x # h
      <4>1. feed'[x] = feed[x] /\ TellsInOrder(feed[x], rows, x)
        BY <1>8, <3>2, FeedOrderIs DEF Told
      <4> QED BY <1>3, <4>1, InOrderKept
    <3> QED BY <3>1, <3>2
  <2> QED BY <2>1, FeedOrderIs
<1> QED BY <1>8, <1>10, <1>11, <1>12 DEF Told

LEMMA AddsWider ==
    ASSUME Story, NEW s, NEW S, Adds(s, S)
    PROVE  Wider
<1>1. rows \in Seq(RowSet) /\ s \in Seq(RowSet) /\ rows' = rows \o s /\ UNCHANGED <<reserved, voided, taken>>
  BY DEF Adds, Story, RowsFit
<1>2. \A j \in DOMAIN rows : j \in DOMAIN rows' /\ rows'[j] = rows[j]
  BY <1>1, AddsRows
<1> QED BY <1>1, <1>2 DEF Wider

\* The relay's three ledger steps leave the rows, and add to the books.
LEMMA RelayWider ==
    ASSUME Story, Books, NEW i \in DOMAIN rows, RelayReserve(i) \/ RelayCapture(i) \/ RelayRelease(i)
    PROVE  Wider /\ UNCHANGED <<refusedAt, feed>>
<1>1. UNCHANGED <<rows, refusedAt, feed>>
  BY DEF RelayReserve, RelayCapture, RelayRelease, holdVars
<1> PICK r : r = rows[i]
  OBVIOUS
<1> PICK h : h = r.hold
  OBVIOUS
<1>2. h \in Holds /\ BookTypes
  BY StoryFacts, RowTypes DEF Books
<1>3. ASSUME NEW x \in Holds
      PROVE  reserved[x] \subseteq reserved'[x] /\ voided[x] \subseteq voided'[x] /\ DOMAIN taken[x] \subseteq DOMAIN taken'[x]
  <2>1. CASE RelayReserve(i)
    BY <1>2, <2>1 DEF RelayReserve, BookTypes
  <2>2. CASE RelayCapture(i)
    <3>1. \/ reserved' = reserved
          \/ reserved' = [reserved EXCEPT ![h] = @ \union {r.version}]
      BY <2>2 DEF RelayCapture
    <3>2. reserved[x] \subseteq reserved'[x]
      BY <1>2, <3>1 DEF BookTypes
    <3>3. voided' = [voided EXCEPT ![h] = @ \union {r.released}]
      BY <2>2 DEF RelayCapture
    <3>4. voided[x] \subseteq voided'[x]
      BY <1>2, <3>3 DEF BookTypes
    <3>5. taken' = [taken EXCEPT ![h] = Grown(taken[h], r.version, r.amount)]
      BY <1>2, <2>2 DEF RelayCapture, BookTypes, Grown
    <3>6. DOMAIN taken[h] \subseteq DOMAIN Grown(taken[h], r.version, r.amount)
      BY DEF Grown
    <3>7. DOMAIN taken[x] \subseteq DOMAIN taken'[x]
      BY <1>2, <3>5, <3>6 DEF BookTypes
    <3> QED BY <3>2, <3>4, <3>7
  <2>3. CASE RelayRelease(i)
    BY <1>2, <2>3 DEF RelayRelease, BookTypes
  <2> QED BY <2>1, <2>2, <2>3
<1>4. \A j \in DOMAIN rows : rows[j].hold \in Holds
  BY StoryFacts, RowTypes
<1> QED BY <1>1, <1>3, <1>4 DEF Wider, On

LEMMA ToldKept ==
    ASSUME Story, Books, Told, Drawing, [HoldsNext]_holdsVars
    PROVE  Told'
<1>1. ASSUME NEW s, NEW S, Adds(s, S) PROVE Told'
  <2>1. UNCHANGED <<refusedAt, feed>>
    BY <1>1 DEF Adds
  <2> QED BY <1>1, <2>1, AddsWider, ToldSame
<1>2. ASSUME Quiet PROVE Told'
  <2>1. UNCHANGED <<rows, reserved, voided, taken, refusedAt, feed>>
    BY <1>2 DEF Quiet, HoldsStand
  <2>2. Wider
    BY <2>1 DEF Wider
  <2> QED BY <2>1, <2>2, ToldSame
<1>3. ASSUME NEW i \in DOMAIN rows, RowStep(i) PROVE Told'
  <2>1. CASE RelayReserve(i) \/ RelayCapture(i) \/ RelayRelease(i)
    BY <2>1, RelayWider, ToldSame
  <2>2. CASE ParkRefusedReserve(i)
    BY <2>2, ToldRefuse
  <2>3. CASE RelayAnnounce(i)
    BY <2>3, ToldAnnounce
  <2>4. CASE ParkUnreserved(i) \/ ParkConflict(i) \/ ParkUnrecorded(i) \/ UnparkRow(i)
    <3>1. Stamps /\ rows \in Seq(RowSet)
      BY <1>3, RowStepStory DEF Story, RowsFit
    <3>2. UNCHANGED <<reserved, voided, taken, refusedAt, feed>>
      BY <2>4 DEF ParkUnreserved, ParkConflict, ParkUnrecorded, UnparkRow, holdVars, booksVars
    <3> QED BY <3>1, <3>2, StampsWider, ToldSame
  <2> QED BY <1>3, <2>1, <2>2, <2>3, <2>4 DEF RowStep
<1> QED BY <1>1, <1>2, <1>3, Shapes

\* What a done row's event reads as, on the stream f.
TellsRow(f, r) == \E n \in DOMAIN f : f[n] = HoldEvent(r)
IsTold(fd, rf, r) == (r.kind = "placed" /\ r.hold \in rf) \/ TellsRow(fd[r.hold], r)

LEMMA DoneIsToldIs ==
    /\ DoneIsTold <=> \A j \in DOMAIN rows : rows[j].st = "done" => IsTold(feed, refusedAt, rows[j])
    /\ DoneIsTold' <=> \A j \in DOMAIN rows' : rows'[j].st = "done" => IsTold(feed', refusedAt', rows'[j])
BY DEF DoneIsTold, IsTold, TellsRow

\* No row is done that was not, and the stream and the refusals are as they were.
LEMMA DoneSame ==
    ASSUME DoneIsTold, UNCHANGED <<feed, refusedAt>>,
           \A j \in DOMAIN rows' : rows'[j].st = "done" => j \in DOMAIN rows /\ rows'[j] = rows[j]
    PROVE  DoneIsTold'
BY DoneIsToldIs

LEMMA DoneAnnounce ==
    ASSUME Story, Books, Told, DoneIsTold, NEW i \in DOMAIN rows, RelayAnnounce(i)
    PROVE  DoneIsTold'
<1> PICK r : r = rows[i]
  OBVIOUS
<1> PICK h : h = r.hold
  OBVIOUS
<1> PICK e : e = HoldEvent(r)
  OBVIOUS
<1>1. rows \in Seq(RowSet) /\ r \in RowSet /\ h \in Holds /\ refusedAt' = refusedAt
  BY StoryFacts, RowTypes DEF Story, RowsFit, RelayAnnounce, holdVars
<1>2. DOMAIN feed = Holds /\ \A x \in Holds : feed[x] \in Seq([version : Nat, remaining : Nat])
  BY DEF Told, FeedFits
<1>3. e.version = r.version /\ e.remaining = Rest(r) /\ e = [version |-> e.version, remaining |-> e.remaining]
      /\ e \in [version : Nat, remaining : Nat]
  <2>1. Rest(r) \in Nat /\ r.version \in Nat /\ r.kind \in {"placed", "captured", "released"}
    BY <1>1, StoryFacts, RowTypes
  <2> QED BY <2>1 DEF HoldEvent, Rest
\* The stream grows, if it does, at its end.
<1>4. \A x \in Holds : \A n \in DOMAIN feed[x] : n \in DOMAIN feed'[x] /\ feed'[x][n] = feed[x][n]
  <2>1. CASE feed' = feed
    BY <2>1
  <2>2. CASE feed' = [feed EXCEPT ![h] = Append(@, e)]
    <3> SUFFICES ASSUME NEW x \in Holds, NEW n \in DOMAIN feed[x]
                 PROVE  n \in DOMAIN feed'[x] /\ feed'[x][n] = feed[x][n]
      OBVIOUS
    <3>1. CASE x # h
      BY <1>1, <1>2, <2>2, <3>1
    <3>2. CASE x = h
      <4>1. feed'[h] = Append(feed[h], e) /\ feed[h] \in Seq([version : Nat, remaining : Nat])
        BY <1>1, <1>2, <2>2
      <4> PICK f, g : f = feed[h] /\ g = feed'[h]
        OBVIOUS
      <4>2. /\ Len(f) \in Nat /\ DOMAIN f = 1..Len(f) /\ DOMAIN g = 1..(Len(f) + 1) /\ \A m \in 1..Len(f) : g[m] = f[m]
        BY <1>3, <4>1, Appended
      <4>3. \A m \in DOMAIN f : m \in DOMAIN g /\ g[m] = f[m]
        BY <4>2
      <4> QED BY <3>2, <4>3
    <3> QED BY <3>1, <3>2
  <2> QED BY <2>1, <2>2 DEF RelayAnnounce, Announce
<1>5. ASSUME NEW j \in DOMAIN rows, rows[j].st = "done" PROVE IsTold(feed', refusedAt', rows[j])
  <2>1. IsTold(feed, refusedAt, rows[j]) /\ rows[j].hold \in Holds
    BY <1>5, StoryFacts, RowTypes, DoneIsToldIs
  <2> QED BY <1>1, <1>4, <2>1 DEF IsTold, TellsRow
<1>6. IsTold(feed', refusedAt', r)
  <2>1. CASE r.kind = "placed" /\ h \in refusedAt
    BY <1>1, <2>1 DEF IsTold
  <2>2. CASE Applied(r) /\ Announce(h, e)
    <3>1. On(r, reserved, voided, taken) /\ h \notin refusedAt
      BY <1>1, <2>2, AppliedIsOn, NothingOn DEF Books, BookTypes
    <3>2. CASE \E n \in DOMAIN feed[h] : feed[h][n].version = e.version
      <4>1. PICK n \in DOMAIN feed[h] : feed[h][n].version = e.version
        BY <3>2
      <4>2. FeedFits(h)
        BY <1>1 DEF Told
      <4>3. PICK j \in DOMAIN rows : /\ rows[j].hold = h /\ feed[h][n].version = rows[j].version
                                     /\ feed[h][n].remaining = Rest(rows[j])
        BY <3>1, <4>2 DEF FeedFits
      <4>4. j = i
        BY <1>3, <4>1, <4>3, OneRowAVersion
      <4>5. feed[h][n] \in [version : Nat, remaining : Nat]
        <5> PICK f, E : f = feed[h] /\ E = [version : Nat, remaining : Nat]
          OBVIOUS
        <5>1. f \in Seq(E) /\ n \in DOMAIN f
          BY <1>1, <1>2
        <5>2. f[n] \in E
          BY ONLY <5>1, SMT
        <5> QED BY <5>2
      <4>6. feed[h][n] = e
        BY <1>3, <4>1, <4>3, <4>4, <4>5
      <4>7. n \in DOMAIN feed'[h] /\ feed'[h][n] = e
        BY <1>1, <1>4, <4>6
      <4> QED BY <4>7 DEF IsTold, TellsRow
    <3>3. CASE ~\E n \in DOMAIN feed[h] : feed[h][n].version = e.version
      <4>1. feed'[h] = Append(feed[h], e) /\ feed[h] \in Seq([version : Nat, remaining : Nat])
        BY <1>1, <1>2, <2>2, <3>3 DEF Announce
      <4> PICK f, g : f = feed[h] /\ g = feed'[h]
        OBVIOUS
      <4>2. /\ Len(f) \in Nat /\ DOMAIN g = 1..(Len(f) + 1) /\ g[Len(f) + 1] = e
        BY <1>3, <4>1, Appended
      <4>3. Len(f) + 1 \in DOMAIN g
        BY <4>2
      <4> QED BY <4>2, <4>3 DEF IsTold, TellsRow
    <3> QED BY <3>2, <3>3
  <2> QED BY <2>1, <2>2 DEF RelayAnnounce
<1>7. CASE UNCHANGED rows
  BY <1>5, <1>7, DoneIsToldIs
<1>8. CASE Stamp(i, "done")
  <2>1. Stamps /\ \A j \in DOMAIN rows : j # i => rows'[j] = rows[j]
    BY <1>1, <1>8, StampStamps
  <2>2. IsTold(feed', refusedAt', rows'[i])
    <3>1. /\ rows'[i].hold = h /\ rows'[i].kind = r.kind /\ rows'[i].version = r.version
          /\ rows'[i].held = r.held /\ rows'[i].amount = r.amount
      BY <2>1 DEF Stamps
    <3>2. HoldEvent(rows'[i]) = HoldEvent(r)
      BY <3>1 DEF HoldEvent
    <3> QED BY <1>6, <3>1, <3>2 DEF IsTold, TellsRow
  <2>3. \A j \in DOMAIN rows' : rows'[j].st = "done" => IsTold(feed', refusedAt', rows'[j])
    BY <1>5, <2>1, <2>2 DEF Stamps
  <2> QED BY <2>3, DoneIsToldIs
<1> QED BY <1>7, <1>8 DEF RelayAnnounce

LEMMA DoneRefuse ==
    ASSUME Story, Books, Told, DoneIsTold, NEW i \in DOMAIN rows, ParkRefusedReserve(i)
    PROVE  DoneIsTold'
<1> PICK h : h = rows[i].hold
  OBVIOUS
<1> PICK e : e = [version |-> version[h] + 1, remaining |-> 0]
  OBVIOUS
<1>1. rows \in Seq(RowSet) /\ h \in Holds
  BY StoryFacts, RowTypes DEF Story, RowsFit
<1>2. /\ h \in ledgerNo /\ h \notin refusedAt /\ refusedAt' = refusedAt \union {h}
      /\ Announce(h, e) /\ Stamp(i, "parked")
  BY DEF ParkRefusedReserve
<1>3. Stamps /\ rows'[i].st = "parked" /\ \A j \in DOMAIN rows : j # i => rows'[j] = rows[j]
  BY <1>1, <1>2, StampStamps
<1>4. \A x \in Holds \ {h} : feed'[x] = feed[x]
  BY <1>1, <1>2 DEF Announce, Told
<1>5. ASSUME NEW j \in DOMAIN rows', rows'[j].st = "done" PROVE IsTold(feed', refusedAt', rows'[j])
  <2>1. j \in DOMAIN rows /\ rows'[j] = rows[j]
    BY <1>3, <1>5 DEF Stamps
  <2>2. IsTold(feed, refusedAt, rows[j]) /\ rows[j].hold \in Holds
    BY <1>5, <2>1, StoryFacts, RowTypes, DoneIsToldIs
  <2>3. rows[j].hold # h
    <3>1. ASSUME rows[j].hold = h PROVE FALSE
      <4>1. ~On(rows[j], reserved, voided, taken)
        BY <1>2, <2>1, <3>1, NothingOn
      <4> QED BY <1>2, <1>5, <2>1, <3>1, <4>1 DEF Books, RowOnBooks
    <3> QED BY <3>1
  <2> QED BY <1>2, <1>4, <2>1, <2>2, <2>3 DEF IsTold, TellsRow
<1> QED BY <1>5, DoneIsToldIs

LEMMA DoneKept ==
    ASSUME Story, Books, Told, DoneIsTold, Drawing, [HoldsNext]_holdsVars
    PROVE  DoneIsTold'
<1>1. ASSUME NEW s, NEW S, Adds(s, S) PROVE DoneIsTold'
  <2>1. UNCHANGED <<refusedAt, feed>> /\ rows \in Seq(RowSet) /\ s \in Seq(RowSet) /\ rows' = rows \o s
    BY <1>1 DEF Adds, Story, RowsFit
  <2>2. \A k \in DOMAIN s : s[k].st = "queued"
    BY <1>1 DEF Adds, NewRow
  <2>3. \A j \in DOMAIN rows' : rows'[j].st = "done" => j \in DOMAIN rows /\ rows'[j] = rows[j]
    BY <2>1, <2>2, AddsRows
  <2> QED BY <2>1, <2>3, DoneSame
<1>2. ASSUME Quiet PROVE DoneIsTold'
  BY <1>2, DoneSame DEF Quiet, HoldsStand
<1>3. ASSUME NEW i \in DOMAIN rows, RowStep(i) PROVE DoneIsTold'
  <2>0. rows \in Seq(RowSet)
    BY DEF Story, RowsFit
  <2>1. CASE RelayReserve(i) \/ RelayCapture(i) \/ RelayRelease(i)
    <3>1. UNCHANGED <<rows, refusedAt, feed>>
      BY <2>1 DEF RelayReserve, RelayCapture, RelayRelease, holdVars
    <3> QED BY <3>1, DoneSame
  <2>2. CASE ParkRefusedReserve(i)
    BY <2>2, DoneRefuse
  <2>3. CASE RelayAnnounce(i)
    BY <2>3, DoneAnnounce
  <2>4. CASE ParkUnreserved(i) \/ ParkConflict(i) \/ ParkUnrecorded(i)
    <3>1. Stamp(i, "parked") /\ UNCHANGED <<refusedAt, feed>>
      BY <2>4 DEF ParkUnreserved, ParkConflict, ParkUnrecorded, holdVars
    <3>2. Stamps /\ rows'[i].st = "parked" /\ \A j \in DOMAIN rows : j # i => rows'[j] = rows[j]
      BY <2>0, <3>1, StampStamps
    <3> QED BY <3>1, <3>2, DoneSame DEF Stamps
  <2>5. CASE UnparkRow(i)
    <3>1. UNCHANGED <<refusedAt, feed>>
      BY <2>5 DEF UnparkRow, holdVars
    <3>2. Stamps /\ rows'[i].st = "queued" /\ \A j \in DOMAIN rows : j # i => rows'[j] = rows[j]
      BY <2>0, <2>5, UnparkStamps
    <3> QED BY <3>1, <3>2, DoneSame DEF Stamps
  <2> QED BY <1>3, <2>1, <2>2, <2>3, <2>4, <2>5 DEF RowStep
<1> QED BY <1>1, <1>2, <1>3, Shapes

-----------------------------------------------------------------------------
(***************************************************************************)
(* What the draws and fills add up to, as sums of amounts kept by hold, by *)
(* charge and by fill.                                                     *)
(***************************************************************************)
\* What a hold counts for on its day, and what it still holds.
Weight(h, hs, cp) == IF hs \in {"voided", "expired"} THEN cp ELSE HoldAmount[h]
Left(h, hs, cp)   == IF hs = "active" THEN HoldAmount[h] - cp ELSE 0

Weights(hs, cp) == [h \in Holds |-> Weight(h, hs[h], cp[h])]
Lefts(hs, cp)   == [h \in Holds |-> Left(h, hs[h], cp[h])]
Amounts(C)      == [r \in C |-> r.amount]

Today(ver, ag)       == {h \in Holds : ver[h] > 0 /\ h \notin ag}
ChargedToday(ch, ag) == {k \in ChargeIds : ch[k] \in {"pending", "posted"} /\ k \notin ag}
FilledToday(C, ag)   == {r \in C : r.fill /\ r \notin ag}

HoldsDrawn(hs, cp, ver, ag) == SumOver(Weights(hs, cp), Today(ver, ag))
ChargesDrawn(ch, ag)        == SumOver(ChargeAmount, ChargedToday(ch, ag))
HoldsLeft(hs, cp)           == SumOver(Lefts(hs, cp), Holds)
FillsDrawn(C, ag)           == SumOver(Amounts(C), FilledToday(C, ag))

DrawsAddUp ==
    /\ DrawnNew = HoldsDrawn(hstate, captured, version, aged) + ChargesDrawn(charge, aged)
    /\ Outstanding = HoldsLeft(hstate, captured)
    /\ IsFiniteSet(capRows) => Filled = FillsDrawn(capRows, aged)

\* MapThenSumSet on a set is the sum over the set of the function it maps with.
LEMMA HoldsDrawnIs ==
    MapThenSumSet(LAMBDA h : IF hstate[h] \in {"voided", "expired"} THEN captured[h] ELSE HoldAmount[h],
                  {h \in Holds : version[h] > 0 /\ h \notin aged})
      = HoldsDrawn(hstate, captured, version, aged)
<1> DEFINE D == Today(version, aged)
           w == Weights(hstate, captured)
           Rec(f) == f = [S \in SUBSET D |-> IF S = {} THEN 0
                            ELSE (IF hstate[CHOOSE x \in S : TRUE] \in {"voided", "expired"}
                                  THEN captured[CHOOSE x \in S : TRUE] ELSE HoldAmount[CHOOSE x \in S : TRUE])
                                 + f[S \ {CHOOSE x \in S : TRUE}]]
           it == CHOOSE f : Rec(f)
<1>1. IsFiniteSet(D) /\ D \subseteq Holds
  BY Consts, FS_Subset DEF Today
<1>2. \A S \in SUBSET D : S # {} =>
         w[CHOOSE x \in S : TRUE] = (IF hstate[CHOOSE x \in S : TRUE] \in {"voided", "expired"}
                                     THEN captured[CHOOSE x \in S : TRUE] ELSE HoldAmount[CHOOSE x \in S : TRUE])
  BY <1>1 DEF Weights, Weight
<1>3. \A f : Rec(f) <=> IsSum(f, w, D)
  <2> HIDE DEF w, D
  <2> QED BY <1>2 DEF IsSum
<1>4. Rec(it)
  <2>1. \E f : IsSum(f, w, D)
    BY <1>1, SumExists
  <2> HIDE DEF Rec
  <2> QED BY <2>1, <1>3
<1>5. it[D] = SumOver(w, D)
  <2>1. IsSum(it, w, D)
    BY <1>3, <1>4
  <2> HIDE DEF it, w, D
  <2> QED BY <1>1, <2>1, SumUnique
<1>6. MapThenSumSet(LAMBDA h : IF hstate[h] \in {"voided", "expired"} THEN captured[h] ELSE HoldAmount[h],
                    {h \in Holds : version[h] > 0 /\ h \notin aged}) = it[D]
  BY DEF MapThenSumSet, MapThenFoldSet, Today
<1> QED BY <1>5, <1>6 DEF HoldsDrawn

LEMMA ChargesDrawnIs ==
    MapThenSumSet(LAMBDA k : ChargeAmount[k], {k \in ChargeIds : charge[k] \in {"pending", "posted"} /\ k \notin aged})
      = ChargesDrawn(charge, aged)
BY DEF MapThenSumSet, MapThenFoldSet, ChargesDrawn, ChargedToday, SumOver, SumFn, IsSum

LEMMA OutstandingIs == Outstanding = HoldsLeft(hstate, captured)
<1> DEFINE w == Lefts(hstate, captured)
           Rec(f) == f = [S \in SUBSET Holds |-> IF S = {} THEN 0
                            ELSE Remaining(CHOOSE x \in S : TRUE) + f[S \ {CHOOSE x \in S : TRUE}]]
           it == CHOOSE f : Rec(f)
<1>1. IsFiniteSet(Holds)
  BY Consts
<1>2. \A S \in SUBSET Holds : S # {} => w[CHOOSE x \in S : TRUE] = Remaining(CHOOSE x \in S : TRUE)
  BY <1>1 DEF Lefts, Left, Remaining
<1>3. \A f : Rec(f) <=> IsSum(f, w, Holds)
  <2> HIDE DEF w
  <2> QED BY <1>2 DEF IsSum
<1>4. Rec(it)
  <2>1. \E f : IsSum(f, w, Holds)
    BY <1>1, SumExists
  <2> HIDE DEF Rec
  <2> QED BY <2>1, <1>3
<1>5. it[Holds] = SumOver(w, Holds)
  <2>1. IsSum(it, w, Holds)
    BY <1>3, <1>4
  <2> HIDE DEF it, w
  <2> QED BY <1>1, <2>1, SumUnique
<1>6. Outstanding = it[Holds]
  BY DEF Outstanding, MapThenSumSet, MapThenFoldSet
<1> QED BY <1>5, <1>6 DEF HoldsLeft

LEMMA FilledIs ==
    ASSUME IsFiniteSet(capRows)
    PROVE  Filled = FillsDrawn(capRows, aged)
<1> DEFINE D == FilledToday(capRows, aged)
           w == Amounts(capRows)
           Rec(f) == f = [S \in SUBSET D |-> IF S = {} THEN 0
                            ELSE (CHOOSE x \in S : TRUE).amount + f[S \ {CHOOSE x \in S : TRUE}]]
           it == CHOOSE f : Rec(f)
<1>1. IsFiniteSet(D) /\ D \subseteq capRows
  BY FS_Subset DEF FilledToday
<1>2. \A S \in SUBSET D : S # {} => w[CHOOSE x \in S : TRUE] = (CHOOSE x \in S : TRUE).amount
  BY <1>1 DEF Amounts
<1>3. \A f : Rec(f) <=> IsSum(f, w, D)
  <2> HIDE DEF w, D
  <2> QED BY <1>2 DEF IsSum
<1>4. Rec(it)
  <2>1. \E f : IsSum(f, w, D)
    BY <1>1, SumExists
  <2> HIDE DEF Rec
  <2> QED BY <2>1, <1>3
<1>5. it[D] = SumOver(w, D)
  <2>1. IsSum(it, w, D)
    BY <1>3, <1>4
  <2> HIDE DEF it, w, D
  <2> QED BY <1>1, <2>1, SumUnique
<1>6. Filled = it[D]
  BY DEF Filled, MapThenSumSet, MapThenFoldSet, FilledToday
<1> QED BY <1>5, <1>6 DEF FillsDrawn

\* True of every state, so of the one after a step too.
LEMMA DrawsDoAddUp == DrawsAddUp
BY HoldsDrawnIs, ChargesDrawnIs, OutstandingIs, FilledIs DEF DrawsAddUp, DrawnNew

LEMMA DrawsStillAddUp == DrawsAddUp'
BY DrawsDoAddUp, PTL

-----------------------------------------------------------------------------
(***************************************************************************)
(* Every step but a commit leaves the draws no higher: holds are captured, *)
(* released or refused, charges fail, days pass.                           *)
(***************************************************************************)
HoldEases(h) ==
    \/ hstate'[h] = hstate[h] /\ captured'[h] = captured[h]
    \/ /\ hstate[h] = "active" /\ hstate'[h] \in {"active", "captured", "voided", "expired"}
       /\ captured'[h] >= captured[h]
    \/ hstate[h] # "none" /\ hstate'[h] = "voided" /\ captured'[h] = 0

DrawsEase ==
    /\ \A h \in Holds : HoldEases(h)
    /\ \A k \in ChargeIds : charge'[k] \in {"pending", "posted"} => charge[k] \in {"pending", "posted"}
    /\ aged \subseteq aged'

FillsEase ==
    /\ \A h \in Holds : HoldLocked(h) =>
          hstate'[h] = hstate[h] /\ captured'[h] = captured[h] /\ under'[h] = under[h]
    /\ \A r \in capRows' : r.fill => r \in capRows
    /\ aged \subseteq aged'

Eased == DrawsEase /\ FillsEase

LEMMA HoldWeighs ==
    ASSUME Story, NEW h \in Holds
    PROVE  /\ Weight(h, hstate[h], captured[h]) \in Nat /\ Weight(h, hstate[h], captured[h]) <= HoldAmount[h]
           /\ Left(h, hstate[h], captured[h]) \in Nat /\ Left(h, hstate[h], captured[h]) <= HoldAmount[h]
           /\ (version[h] > 0) <=> (hstate[h] # "none")
           /\ captured[h] \in Nat /\ captured[h] <= HoldAmount[h] /\ HoldAmount[h] \in Nat \ {0}
<1>1. captured[h] \in Nat /\ captured[h] <= HoldAmount[h] /\ HoldAmount[h] \in Nat \ {0} /\ version[h] \in Nat
  BY StoryFacts
<1>2. (version[h] > 0) <=> (hstate[h] # "none")
  BY <1>1 DEF Story, HoldFits
<1> QED BY <1>1, <1>2 DEF Weight, Left

\* The same of every hold, before a step and after it.
HoldsWeigh ==
    \A h \in Holds :
        /\ Weight(h, hstate[h], captured[h]) \in Nat /\ Weight(h, hstate[h], captured[h]) <= HoldAmount[h]
        /\ Left(h, hstate[h], captured[h]) \in Nat /\ Left(h, hstate[h], captured[h]) <= HoldAmount[h]
        /\ (version[h] > 0) <=> (hstate[h] # "none")
        /\ captured[h] \in Nat /\ captured[h] <= HoldAmount[h] /\ HoldAmount[h] \in Nat \ {0}

LEMMA HoldsDoWeigh == Story => HoldsWeigh
BY HoldWeighs DEF HoldsWeigh

LEMMA HoldsStillWeigh == Story' => HoldsWeigh'
BY HoldsDoWeigh, PTL

LEMMA HoldWeighsLess ==
    ASSUME Story, Story', NEW h \in Holds, HoldEases(h)
    PROVE  /\ (version'[h] > 0) <=> (version[h] > 0)
           /\ Weight(h, hstate'[h], captured'[h]) <= Weight(h, hstate[h], captured[h])
           /\ Left(h, hstate'[h], captured'[h]) <= Left(h, hstate[h], captured[h])
<1>1. HoldsWeigh /\ HoldsWeigh'
  BY HoldsDoWeigh, HoldsStillWeigh
<1> PICK a, hs, cp, hp, cq : a = HoldAmount[h] /\ hs = hstate[h] /\ cp = captured[h] /\ hp = hstate'[h] /\ cq = captured'[h]
  OBVIOUS
<1>2. /\ a \in Nat \ {0} /\ cp \in Nat /\ cq \in Nat /\ cp <= a /\ cq <= a
      /\ (version[h] > 0) <=> (hs # "none")
      /\ (version'[h] > 0) <=> (hp # "none")
  BY <1>1 DEF HoldsWeigh
<1>3. \/ hp = hs /\ cq = cp
      \/ hs = "active" /\ hp \in {"active", "captured", "voided", "expired"} /\ cq >= cp
      \/ hs # "none" /\ hp = "voided" /\ cq = 0
  BY DEF HoldEases
<1>4. Weight(h, hp, cq) <= Weight(h, hs, cp)
  BY <1>2, <1>3 DEF Weight
<1>5. Left(h, hp, cq) <= Left(h, hs, cp)
  BY <1>2, <1>3 DEF Left
<1> QED BY <1>2, <1>3, <1>4, <1>5

LEMMA DrawnSums ==
    ASSUME Story
    PROVE  /\ IsFiniteSet(Holds) /\ IsFiniteSet(Today(version, aged)) /\ IsFiniteSet(ChargedToday(charge, aged))
           /\ \A h \in Holds : Weights(hstate, captured)[h] \in Nat /\ Lefts(hstate, captured)[h] \in Nat
           /\ HoldsDrawn(hstate, captured, version, aged) \in Nat /\ ChargesDrawn(charge, aged) \in Nat
           /\ DrawnNew \in Nat /\ Outstanding \in Nat
           /\ DrawnNew = HoldsDrawn(hstate, captured, version, aged) + ChargesDrawn(charge, aged)
<1>1. IsFiniteSet(Holds) /\ IsFiniteSet(Today(version, aged)) /\ IsFiniteSet(ChargedToday(charge, aged))
  BY Consts, FS_Subset DEF Today, ChargedToday
<1>2. \A h \in Holds : Weights(hstate, captured)[h] \in Nat /\ Lefts(hstate, captured)[h] \in Nat
  BY HoldWeighs DEF Weights, Lefts
<1>3. HoldsDrawn(hstate, captured, version, aged) \in Nat
  <2>1. Today(version, aged) \subseteq Holds
    BY DEF Today
  <2>2. \A h \in Today(version, aged) : Weights(hstate, captured)[h] \in Nat
    BY <1>2, <2>1
  <2> QED BY <1>1, <2>2, SumNat DEF HoldsDrawn
<1>4. ChargesDrawn(charge, aged) \in Nat
  <2>1. \A k \in ChargedToday(charge, aged) : ChargeAmount[k] \in Nat
    BY Consts DEF ChargedToday
  <2> QED BY <1>1, <2>1, SumNat DEF ChargesDrawn
<1>5. HoldsLeft(hstate, captured) \in Nat
  BY <1>1, <1>2, SumNat DEF HoldsLeft
<1> QED BY <1>1, <1>2, <1>3, <1>4, <1>5, DrawsDoAddUp DEF DrawsAddUp

DrawnFacts ==
    /\ IsFiniteSet(Holds) /\ IsFiniteSet(Today(version, aged)) /\ IsFiniteSet(ChargedToday(charge, aged))
    /\ \A h \in Holds : Weights(hstate, captured)[h] \in Nat /\ Lefts(hstate, captured)[h] \in Nat
    /\ HoldsDrawn(hstate, captured, version, aged) \in Nat /\ ChargesDrawn(charge, aged) \in Nat
    /\ DrawnNew \in Nat /\ Outstanding \in Nat
    /\ DrawnNew = HoldsDrawn(hstate, captured, version, aged) + ChargesDrawn(charge, aged)

LEMMA DrawnDoFit == Story => DrawnFacts
BY DrawnSums DEF DrawnFacts

LEMMA DrawnStillFit == Story' => DrawnFacts'
BY DrawnDoFit, PTL

LEMMA HoldsDrawnEase ==
    ASSUME Story, Story', \A h \in Holds : HoldEases(h), aged \subseteq aged'
    PROVE  /\ HoldsDrawn(hstate', captured', version', aged') <= HoldsDrawn(hstate, captured, version, aged)
           /\ HoldsLeft(hstate', captured') <= HoldsLeft(hstate, captured)
<1> PICK D, E, v, w : /\ D = Today(version, aged) /\ E = Today(version', aged')
                      /\ v = Weights(hstate, captured) /\ w = Weights(hstate', captured')
  OBVIOUS
<1> PICK x, y : x = Lefts(hstate, captured) /\ y = Lefts(hstate', captured')
  OBVIOUS
<1>1. DrawnFacts /\ DrawnFacts'
  BY DrawnDoFit, DrawnStillFit
<1>2. IsFiniteSet(Holds) /\ IsFiniteSet(D) /\ \A h \in Holds : v[h] \in Nat /\ x[h] \in Nat
  BY <1>1 DEF DrawnFacts
<1>3. \A h \in Holds : w[h] \in Nat /\ y[h] \in Nat
  BY <1>1 DEF DrawnFacts
<1>4. \A h \in Holds : w[h] <= v[h] /\ y[h] <= x[h] /\ ((version'[h] > 0) <=> (version[h] > 0))
  BY HoldWeighsLess DEF Weights, Lefts
<1>5. E \subseteq D /\ D \subseteq Holds
  BY <1>4 DEF Today
<1>6. SumOver(w, E) <= SumOver(v, D)
  <2>1. (\A h \in D : v[h] \in Nat) /\ \A h \in E : w[h] \in Nat /\ w[h] <= v[h]
    BY <1>2, <1>3, <1>4, <1>5
  <2> QED BY <1>2, <1>5, <2>1, SumBelow
<1>7. SumOver(y, Holds) <= SumOver(x, Holds)
  <2>1. Holds \in SUBSET Holds /\ (\A h \in Holds : x[h] \in Nat) /\ \A h \in Holds : y[h] \in Nat /\ y[h] <= x[h]
    BY <1>2, <1>3, <1>4
  <2> QED BY <1>2, <2>1, SumBelow
<1> QED BY <1>6, <1>7 DEF HoldsDrawn, HoldsLeft

LEMMA ChargesDrawnEase ==
    ASSUME \A k \in ChargeIds : charge'[k] \in {"pending", "posted"} => charge[k] \in {"pending", "posted"},
           aged \subseteq aged'
    PROVE  ChargesDrawn(charge', aged') <= ChargesDrawn(charge, aged)
<1> PICK D, E : D = ChargedToday(charge, aged) /\ E = ChargedToday(charge', aged')
  OBVIOUS
<1>1. E \subseteq D /\ D \subseteq ChargeIds
  BY DEF ChargedToday
<1>2. IsFiniteSet(D)
  BY <1>1, Consts, FS_Subset
<1>3. (\A k \in D : ChargeAmount[k] \in Nat)
  BY <1>1, Consts
<1>4. \A k \in E : ChargeAmount[k] \in Nat /\ ChargeAmount[k] <= ChargeAmount[k]
  BY <1>1, <1>3
<1>5. SumOver(ChargeAmount, E) <= SumOver(ChargeAmount, D)
  BY <1>1, <1>2, <1>3, <1>4, SumBelow
<1> QED BY <1>5 DEF ChargesDrawn

LEMMA DrawsLower ==
    ASSUME Story, Story', DrawsEase
    PROVE  /\ DrawnNew' <= DrawnNew /\ Outstanding' <= Outstanding
           /\ DrawnNew \in Nat /\ DrawnNew' \in Nat /\ Outstanding \in Nat /\ Outstanding' \in Nat
<1>1. DrawnFacts /\ DrawnFacts' /\ DrawsAddUp /\ DrawsAddUp'
  BY DrawnDoFit, DrawnStillFit, DrawsDoAddUp, DrawsStillAddUp
<1>2. HoldsDrawn(hstate', captured', version', aged') <= HoldsDrawn(hstate, captured, version, aged)
  BY HoldsDrawnEase DEF DrawsEase
<1>3. HoldsLeft(hstate', captured') <= HoldsLeft(hstate, captured)
  BY HoldsDrawnEase DEF DrawsEase
<1>4. ChargesDrawn(charge', aged') <= ChargesDrawn(charge, aged)
  BY ChargesDrawnEase DEF DrawsEase
<1>5. /\ DrawnNew = HoldsDrawn(hstate, captured, version, aged) + ChargesDrawn(charge, aged)
      /\ DrawnNew' = HoldsDrawn(hstate', captured', version', aged') + ChargesDrawn(charge', aged')
      /\ Outstanding = HoldsLeft(hstate, captured) /\ Outstanding' = HoldsLeft(hstate', captured')
  BY <1>1 DEF DrawsAddUp
<1>6. /\ HoldsDrawn(hstate, captured, version, aged) \in Nat /\ ChargesDrawn(charge, aged) \in Nat
      /\ HoldsDrawn(hstate', captured', version', aged') \in Nat /\ ChargesDrawn(charge', aged') \in Nat
      /\ DrawnNew \in Nat /\ DrawnNew' \in Nat /\ Outstanding \in Nat /\ Outstanding' \in Nat
  BY <1>1 DEF DrawnFacts
<1> QED BY <1>2, <1>3, <1>4, <1>5, <1>6

FillRows == [hold : Holds, version : Nat, amount : Nat, fill : BOOLEAN]
FillTypes(C) == IsFiniteSet(C) /\ C \subseteq FillRows

LEMMA FillsBelow ==
    ASSUME NEW C, FillTypes(C), NEW B, FillTypes(B), NEW ag, NEW ah, ag \subseteq ah,
           \A r \in B : r.fill => r \in C
    PROVE  /\ FillsDrawn(B, ah) <= FillsDrawn(C, ag)
           /\ FillsDrawn(B, ah) \in Nat /\ FillsDrawn(C, ag) \in Nat
<1> PICK D, E, v, w : D = FilledToday(C, ag) /\ E = FilledToday(B, ah) /\ v = Amounts(C) /\ w = Amounts(B)
  OBVIOUS
<1>1. E \subseteq D /\ D \subseteq C /\ E \subseteq B
  BY DEF FilledToday
<1>2. IsFiniteSet(D)
  BY <1>1, FS_Subset DEF FillTypes
<1>3. \A r \in C : v[r] \in Nat /\ v[r] = r.amount
  BY DEF FillTypes, FillRows, Amounts
<1>4. \A r \in B : w[r] \in Nat /\ w[r] = r.amount
  BY DEF FillTypes, FillRows, Amounts
<1>5. \A r \in D : v[r] \in Nat
  BY <1>1, <1>3
<1>6. \A r \in E : w[r] \in Nat /\ w[r] <= v[r]
  <2> SUFFICES ASSUME NEW r \in E PROVE w[r] \in Nat /\ w[r] <= v[r]
    OBVIOUS
  <2>1. r \in C /\ r \in B
    BY <1>1
  <2>2. w[r] = r.amount /\ v[r] = r.amount /\ w[r] \in Nat
    BY <1>3, <1>4, <2>1
  <2> QED BY <2>2
<1>7. SumOver(w, E) <= SumOver(v, D) /\ SumOver(w, E) \in Nat /\ SumOver(v, D) \in Nat
  BY <1>1, <1>2, <1>5, <1>6, SumBelow
<1> QED BY <1>7 DEF FillsDrawn

LEMMA FillsLower ==
    ASSUME DrawTypes, DrawTypes', FillsEase
    PROVE  Filled' <= Filled /\ Filled' \in Nat /\ Filled \in Nat
<1>1. FillTypes(capRows) /\ FillTypes(capRows')
  BY DEF DrawTypes, FillTypes, FillRows
<1>2. Filled = FillsDrawn(capRows, aged) /\ Filled' = FillsDrawn(capRows', aged')
  BY <1>1, DrawsDoAddUp, DrawsStillAddUp DEF DrawsAddUp, FillTypes
<1>3. aged \subseteq aged' /\ \A r \in capRows' : r.fill => r \in capRows
  BY DEF FillsEase
<1> QED BY <1>1, <1>2, <1>3, FillsBelow

\* What a request has read stands while the draws fall.
LEMMA DrawStands ==
    ASSUME Story, Story', Drawing, NEW c \in Callers, DrawFits(c), task'[c] = task[c], DrawsEase,
           task[c].kind # "fill"
    PROVE  DrawFits(c)'
<1> PICK t : t = task[c]
  OBVIOUS
<1>1. /\ DrawnNew' <= DrawnNew /\ Outstanding' <= Outstanding
      /\ DrawnNew \in Nat /\ DrawnNew' \in Nat /\ Outstanding \in Nat /\ Outstanding' \in Nat
  BY DrawsLower
<1>2. CASE t.kind = "reserve"
  <2>1. HoldAmount[t.hold] \in Nat /\ Caps[t.mandate].outstanding \in Nat /\ Caps[t.mandate].day \in Nat
    BY <1>2, TaskFacts, Consts DEF Drawing
  <2>2. /\ Outstanding + HoldAmount[t.hold] <= Caps[t.mandate].outstanding
        /\ DrawnNew + HoldAmount[t.hold] <= Caps[t.mandate].day
    BY <1>2 DEF DrawFits
  <2>3. /\ Outstanding' + HoldAmount[t.hold] <= Caps[t.mandate].outstanding
        /\ DrawnNew' + HoldAmount[t.hold] <= Caps[t.mandate].day
    BY <1>1, <2>1, <2>2
  <2> QED BY <1>2, <2>3 DEF DrawFits
<1>3. CASE t.kind = "charge"
  <2>1. ChargeAmount[t.charge] \in Nat /\ Caps[t.mandate].day \in Nat
    BY <1>3, TaskFacts, Consts DEF Drawing
  <2>2. DrawnNew + ChargeAmount[t.charge] <= Caps[t.mandate].day
    BY <1>3 DEF DrawFits
  <2>3. DrawnNew' + ChargeAmount[t.charge] <= Caps[t.mandate].day
    BY <1>1, <2>1, <2>2
  <2> QED BY <1>3, <2>3 DEF DrawFits
<1>4. CASE t.kind \notin {"reserve", "charge"}
  BY <1>4 DEF DrawFits
<1> QED BY <1>2, <1>3, <1>4

LEMMA FillStands ==
    ASSUME Drawing, DrawTypes', NEW c \in Callers, DrawFits(c), task'[c] = task[c], FillsEase,
           task[c].kind = "fill"
    PROVE  DrawFits(c)'
<1> PICK t : t = task[c]
  OBVIOUS
<1> PICK h : h = t.hold
  OBVIOUS
<1>1. Filled' <= Filled /\ Filled' \in Nat /\ Filled \in Nat
  BY FillsLower DEF Drawing
<1>2. h \in Holds /\ t.amount \in Nat /\ under[h] \in Mandates
  BY TaskFacts DEF Drawing, DrawTypes
<1>3. HoldLocked(h)
  BY DEF HoldLocked
<1>4. hstate'[h] = hstate[h] /\ captured'[h] = captured[h] /\ under'[h] = under[h]
  BY <1>2, <1>3 DEF FillsEase
<1>5. Caps[under[h]].fill \in Nat
  BY <1>2, Consts
<1>6. /\ hstate[h] = "active" /\ t.amount <= Remaining(h) /\ Filled + t.amount <= Caps[under[h]].fill
  BY DEF DrawFits
<1>7. Filled' + t.amount <= Caps[under[h]].fill
  BY <1>1, <1>2, <1>5, <1>6
<1>8. hstate'[h] = "active" /\ t.amount <= Remaining(h)'
  BY <1>4, <1>6 DEF Remaining
<1> QED BY <1>4, <1>7, <1>8 DEF DrawFits

\* Locks: nothing is granted or revoked, and requests end.
LEMMA LocksStand ==
    ASSUME LocksFit, UNCHANGED mandate, \A c \in Callers : task'[c] = task[c] \/ task'[c] = NoTask,
           \A h \in Holds : HoldEases(h)
    PROVE  LocksFit'
<1>1. \A c \in Callers : task'[c].kind # "idle" => task'[c] = task[c]
  BY DEF NoTask
<1>2. \A c \in Callers : LocksMandate(c)' => LocksMandate(c) /\ task'[c] = task[c]
  BY <1>1 DEF LocksMandate
<1>3. \A c \in Callers : task'[c].kind = "fill" => task[c].kind = "fill"
  BY <1>1
<1>4. \A h \in Holds : hstate'[h] = "active" => hstate[h] = "active"
  BY DEF HoldEases
<1> QED BY <1>2, <1>3, <1>4 DEF LocksFit

LEMMA DrawingEases ==
    ASSUME Story, Story', Drawing, DrawTypes', LocksFit', DrawsEase, FillsEase,
           \A c \in Callers : task'[c] = task[c] \/ task'[c] = NoTask
    PROVE  Drawing'
<1>1. ASSUME NEW c \in Callers PROVE DrawFits(c)'
  <2>1. CASE task'[c] = task[c]
    <3>1. DrawFits(c)
      BY DEF Drawing
    <3> QED BY <2>1, <3>1, DrawStands, FillStands
  <2>2. CASE task'[c] = NoTask
    BY <2>2 DEF DrawFits, NoTask
  <2> QED BY <2>1, <2>2
<1> QED BY <1>1 DEF Drawing

-----------------------------------------------------------------------------
\* Steps that touch no hold, mandate or request: the relay's, and time.
Aloof ==
    /\ UNCHANGED <<hstate, captured, under, capRows, refusedAt, mandate, task>>
    /\ charge' \in [ChargeIds -> {"none", "pending", "posted", "failed"}]
    /\ \A k \in ChargeIds : charge'[k] \in {"pending", "posted"} => charge[k] \in {"pending", "posted"}
    /\ aged \subseteq aged'

LEMMA AloofEases ==
    ASSUME Aloof
    PROVE  DrawsEase /\ FillsEase
BY DEF Aloof, DrawsEase, FillsEase, HoldEases

LEMMA AloofDrawing ==
    ASSUME Story, Story', Drawing, Aloof
    PROVE  Drawing' /\ Eased
<1>1. DrawsEase /\ FillsEase
  BY AloofEases
<1>2. DrawTypes'
  BY DEF Aloof, Drawing, DrawTypes
<1>3. LocksFit'
  BY <1>1, LocksStand DEF Aloof, Drawing, DrawsEase
<1> QED BY <1>1, <1>2, <1>3, DrawingEases DEF Aloof, Eased

LEMMA AloofSteps ==
    ASSUME Drawing,
           \/ \E i \in DOMAIN rows :
                \/ RelayReserve(i) \/ RelayCapture(i) \/ RelayRelease(i) \/ RelayAnnounce(i)
                \/ ParkUnreserved(i) \/ ParkConflict(i) \/ ParkUnrecorded(i) \/ UnparkRow(i)
           \/ \E k \in ChargeIds : RelayCharge(k)
           \/ \E h \in Holds : TtlPasses(h)
           \/ \E m \in Mandates : MandateLapses(m)
           \/ DayPasses \/ FreezeOrThaw \/ ForeignTake
           \/ UNCHANGED holdsVars
    PROVE  Aloof
<1>0. charge \in [ChargeIds -> {"none", "pending", "posted", "failed"}]
  BY DEF Drawing, DrawTypes
<1>1. ASSUME NEW i \in DOMAIN rows,
             \/ RelayReserve(i) \/ RelayCapture(i) \/ RelayRelease(i) \/ RelayAnnounce(i)
             \/ ParkUnreserved(i) \/ ParkConflict(i) \/ ParkUnrecorded(i) \/ UnparkRow(i)
      PROVE  Aloof
  <2>1. UNCHANGED <<holdVars, drawVars, task>>
    <3>1. ASSUME RelayReserve(i) \/ RelayCapture(i) \/ RelayRelease(i) PROVE UNCHANGED <<holdVars, drawVars, task>>
      BY <3>1 DEF RelayReserve, RelayCapture, RelayRelease
    <3>2. ASSUME RelayAnnounce(i) PROVE UNCHANGED <<holdVars, drawVars, task>>
      BY <3>2 DEF RelayAnnounce
    <3>3. ASSUME ParkUnreserved(i) \/ ParkConflict(i) \/ ParkUnrecorded(i) PROVE UNCHANGED <<holdVars, drawVars, task>>
      BY <3>3 DEF ParkUnreserved, ParkConflict, ParkUnrecorded
    <3>4. ASSUME UnparkRow(i) PROVE UNCHANGED <<holdVars, drawVars, task>>
      BY <3>4, Zenon DEF UnparkRow
    <3> QED BY <1>1, <3>1, <3>2, <3>3, <3>4
  <2> QED BY <1>0, <2>1 DEF Aloof, holdVars, drawVars
<1>2. ASSUME NEW k \in ChargeIds, RelayCharge(k) PROVE Aloof
  <2>1. charge[k] = "pending" /\ (charge' = [charge EXCEPT ![k] = "posted"] \/ charge' = [charge EXCEPT ![k] = "failed"])
    BY <1>2 DEF RelayCharge
  <2>2. charge' \in [ChargeIds -> {"none", "pending", "posted", "failed"}]
    BY <1>0, <2>1
  <2>3. \A j \in ChargeIds : charge'[j] \in {"pending", "posted"} => charge[j] \in {"pending", "posted"}
    BY <1>0, <2>1
  <2> QED BY <1>2, <2>2, <2>3 DEF Aloof, RelayCharge, holdVars
<1>3. ASSUME \/ \E h \in Holds : TtlPasses(h)
             \/ \E m \in Mandates : MandateLapses(m)
             \/ FreezeOrThaw \/ ForeignTake \/ UNCHANGED holdsVars
      PROVE  Aloof
  BY <1>0, <1>3 DEF Aloof, TtlPasses, MandateLapses, FreezeOrThaw, ForeignTake, holdsVars, holdVars, drawVars
<1>4. ASSUME DayPasses PROVE Aloof
  BY <1>0, <1>4 DEF Aloof, DayPasses, holdVars
<1> QED BY <1>1, <1>2, <1>3, <1>4

-----------------------------------------------------------------------------
\* Requests that read, and one that is dropped: only the request changes.
Asks(c, t) ==
    /\ task' = [task EXCEPT ![c] = t]
    /\ UNCHANGED <<hstate, captured, version, under, capRows, refusedAt, mandate, charge, aged>>

LEMMA AsksEases ==
    ASSUME NEW c, NEW t, Asks(c, t)
    PROVE  DrawsEase /\ FillsEase
BY DEF Asks, DrawsEase, FillsEase, HoldEases

LEMMA AsksDrawing ==
    ASSUME Story, Story', Drawing, NEW c \in Callers, NEW t \in TaskSet, Asks(c, t), LocksFit',
           t.kind = "reserve" =>
             /\ Outstanding + HoldAmount[t.hold] <= Caps[t.mandate].outstanding
             /\ DrawnNew + HoldAmount[t.hold] <= Caps[t.mandate].day,
           t.kind = "charge" => DrawnNew + ChargeAmount[t.charge] <= Caps[t.mandate].day,
           t.kind = "fill" =>
             /\ hstate[t.hold] = "active" /\ t.amount <= Remaining(t.hold)
             /\ Filled + t.amount <= Caps[under[t.hold]].fill
    PROVE  Drawing' /\ Eased
<1>1. DrawsEase /\ FillsEase
  BY AsksEases
<1>2. DrawTypes'
  BY DEF Asks, Drawing, DrawTypes
<1>3. task \in [Callers -> TaskSet]
  BY DEF Drawing, DrawTypes
<1>4. ASSUME NEW d \in Callers, d # c PROVE DrawFits(d)'
  <2>1. task'[d] = task[d]
    BY <1>3, <1>4 DEF Asks
  <2>2. DrawFits(d)
    BY DEF Drawing
  <2> QED BY <1>1, <1>2, <2>1, <2>2, DrawStands, FillStands
<1>5. DrawFits(c)'
  <2>1. task'[c] = t
    BY <1>3 DEF Asks
  <2>2. Outstanding' = Outstanding /\ DrawnNew' = DrawnNew
    BY DrawsDoAddUp, DrawsStillAddUp DEF DrawsAddUp, Asks
  <2>3. Filled' = Filled
    BY DrawsDoAddUp, DrawsStillAddUp DEF DrawsAddUp, Asks, Drawing, DrawTypes
  <2>4. UNCHANGED <<hstate, captured, under>>
    BY DEF Asks
  <2>5. t.kind = "fill" => hstate'[t.hold] = "active" /\ t.amount <= Remaining(t.hold)' /\ Filled' + t.amount <= Caps[under'[t.hold]].fill
    BY <2>3, <2>4 DEF Remaining
  <2> QED BY <2>1, <2>2, <2>5 DEF DrawFits
<1> QED BY <1>1, <1>2, <1>4, <1>5 DEF Drawing, Eased

LEMMA IdleTask == NoTask \in TaskSet /\ NoTask.kind = "idle"
BY DEF TaskSet, NoTask

LEMMA NobodyLocks ==
    ASSUME Drawing, NEW m \in Mandates, mandate[m] = "current", ~MandateLocked(m)
    PROVE  \A c \in Callers : ~LocksMandate(c)
<1> SUFFICES ASSUME NEW c \in Callers, LocksMandate(c) PROVE FALSE
  OBVIOUS
<1>1. task[c].kind \in {"reserve", "charge", "revoke"} /\ mandate[task[c].mandate] = "current"
  BY DEF Drawing, LocksFit, LocksMandate
<1>2. task[c].mandate \in Mandates
  BY <1>1, TaskFacts DEF Drawing
<1>3. task[c].mandate = m
  BY <1>1, <1>2 DEF Drawing, LocksFit
<1> QED BY <1>1, <1>3 DEF MandateLocked

LEMMA AskLocks ==
    ASSUME Drawing, NEW c \in Callers, NEW t \in TaskSet, Asks(c, t),
           t.kind \in {"reserve", "charge", "revoke"} =>
             mandate[t.mandate] = "current" /\ \A d \in Callers : ~LocksMandate(d),
           t.kind = "fill" => ~FillLocked
    PROVE  LocksFit'
<1>1. task \in [Callers -> TaskSet] /\ LocksFit
  BY DEF Drawing, DrawTypes
<1>2. task'[c] = t /\ \A d \in Callers : d # c => task'[d] = task[d]
  BY <1>1 DEF Asks
<1>3. UNCHANGED <<hstate, mandate>>
  BY DEF Asks
<1>4. \A d \in Callers : LocksMandate(d)' => mandate[task'[d].mandate] = "current"
  BY <1>1, <1>2 DEF LocksMandate, LocksFit
<1>5. \A d, e \in Callers : LocksMandate(d)' /\ LocksMandate(e)' => d = e
  <2> SUFFICES ASSUME NEW d \in Callers, NEW e \in Callers, LocksMandate(d)', LocksMandate(e)', d # e PROVE FALSE
    OBVIOUS
  <2>1. CASE t.kind \in {"reserve", "charge", "revoke"}
    BY <1>2, <2>1 DEF LocksMandate
  <2>2. CASE t.kind \notin {"reserve", "charge", "revoke"}
    <3>1. LocksMandate(d) /\ LocksMandate(e)
      BY <1>2, <2>2 DEF LocksMandate
    <3> QED BY <1>1, <3>1 DEF LocksFit
  <2> QED BY <2>1, <2>2
<1>6. \A d, e \in Callers : task'[d].kind = "fill" /\ task'[e].kind = "fill" => d = e
  <2> SUFFICES ASSUME NEW d \in Callers, NEW e \in Callers, task'[d].kind = "fill", task'[e].kind = "fill", d # e PROVE FALSE
    OBVIOUS
  <2>1. CASE t.kind = "fill"
    BY <1>2, <2>1 DEF FillLocked
  <2>2. CASE t.kind # "fill"
    <3>1. task[d].kind = "fill" /\ task[e].kind = "fill"
      BY <1>2, <2>2
    <3> QED BY <1>1, <3>1 DEF LocksFit
  <2> QED BY <2>1, <2>2
<1> QED BY <1>1, <1>3, <1>4, <1>5, <1>6 DEF LocksFit

-----------------------------------------------------------------------------
\* The captures of holds of another day, which Drawn counts on top.
LEMMA DrawnCounts ==
    ASSUME Story, DrawTypes
    PROVE  Drawn \in Nat /\ DrawnNew \in Nat /\ DrawnNew <= Drawn /\ Outstanding \in Nat /\ Filled \in Nat
<1> DEFINE D == {r \in capRows : r \notin aged /\ r.hold \in aged}
           w == Amounts(capRows)
           Rec(f) == f = [S \in SUBSET D |-> IF S = {} THEN 0
                            ELSE (CHOOSE x \in S : TRUE).amount + f[S \ {CHOOSE x \in S : TRUE}]]
           it == CHOOSE f : Rec(f)
<1>1. IsFiniteSet(D) /\ D \subseteq capRows
  BY FS_Subset DEF DrawTypes
<1>2. \A S \in SUBSET D : S # {} => w[CHOOSE x \in S : TRUE] = (CHOOSE x \in S : TRUE).amount
  BY <1>1 DEF Amounts
<1>3. \A f : Rec(f) <=> IsSum(f, w, D)
  <2> HIDE DEF w, D
  <2> QED BY <1>2 DEF IsSum
<1>4. Rec(it)
  <2>1. \E f : IsSum(f, w, D)
    BY <1>1, SumExists
  <2> HIDE DEF Rec
  <2> QED BY <2>1, <1>3
<1>5. it[D] = SumOver(w, D)
  <2>1. IsSum(it, w, D)
    BY <1>3, <1>4
  <2> HIDE DEF it, w, D
  <2> QED BY <1>1, <2>1, SumUnique
<1>6. Drawn = DrawnNew + it[D]
  BY DEF Drawn, MapThenSumSet, MapThenFoldSet
<1>7. \A r \in D : w[r] \in Nat
  BY <1>1 DEF Amounts, DrawTypes
<1> PICK d : d = it[D]
  OBVIOUS
<1>8. d \in Nat
  <2> HIDE DEF it, w, D
  <2> QED BY <1>1, <1>5, <1>7, SumNat
<1>9. DrawnNew \in Nat /\ Outstanding \in Nat
  BY DrawnDoFit DEF DrawnFacts
<1>10. Filled \in Nat
  <2>1. FillTypes(capRows)
    BY DEF DrawTypes, FillTypes, FillRows
  <2>2. aged \subseteq aged /\ \A r \in capRows : r.fill => r \in capRows
    OBVIOUS
  <2>3. FillsDrawn(capRows, aged) \in Nat
    BY <2>1, <2>2, FillsBelow
  <2> QED BY <2>1, <2>3, DrawsDoAddUp DEF DrawsAddUp, FillTypes
<1> HIDE DEF it
<1> QED BY <1>6, <1>8, <1>9, <1>10

LEMMA DrawsDrawing ==
    ASSUME Story, Story', Drawing, NEW c \in Callers, NEW kind \in {"reserve", "charge"}, NEW amount \in Nat,
           NEW t \in TaskSet, t.kind = kind, t.mandate \in Mandates, Draws(c, kind, amount, t),
           kind = "reserve" => amount = HoldAmount[t.hold],
           kind = "charge" => amount = ChargeAmount[t.charge]
    PROVE  Drawing' /\ Eased
<1>1. Asks(c, t)
  BY DEF Draws, Asks, holdVars, drawVars
<1>2. ~MandateLocked(t.mandate) /\ mandate[t.mandate] = "current" /\ AdmitDraw(t.mandate, kind, amount)
  BY DEF Draws
<1>3. LocksFit'
  <2>1. \A d \in Callers : ~LocksMandate(d)
    BY <1>2, NobodyLocks
  <2> QED BY <1>1, <1>2, <2>1, AskLocks
<1>4. Drawn + amount <= Caps[t.mandate].day /\ (kind = "reserve" => Outstanding + amount <= Caps[t.mandate].outstanding)
  BY <1>2 DEF AdmitDraw
<1>5. DrawnNew + amount <= Caps[t.mandate].day
  <2>1. Drawn \in Nat /\ DrawnNew \in Nat /\ DrawnNew <= Drawn /\ Caps[t.mandate].day \in Nat
    BY DrawnCounts, Consts DEF Drawing
  <2> QED BY <1>4, <2>1
<1>6. t.kind = "reserve" =>
        /\ Outstanding + HoldAmount[t.hold] <= Caps[t.mandate].outstanding
        /\ DrawnNew + HoldAmount[t.hold] <= Caps[t.mandate].day
  BY <1>4, <1>5
<1>7. t.kind = "charge" => DrawnNew + ChargeAmount[t.charge] <= Caps[t.mandate].day
  BY <1>5
<1>8. t.kind # "fill"
  OBVIOUS
<1> QED BY <1>1, <1>3, <1>6, <1>7, <1>8, AsksDrawing

LEMMA ReserveReadsDrawing ==
    ASSUME Story, Story', Drawing, NEW c \in Callers, NEW h \in Holds, ReserveReads(c, h)
    PROVE  Drawing' /\ Eased
<1>1. PICK m \in Mandates : Draws(c, "reserve", HoldAmount[h], [kind |-> "reserve", hold |-> h, mandate |-> m])
  BY DEF ReserveReads
<1> PICK t : t = [kind |-> "reserve", hold |-> h, mandate |-> m]
  OBVIOUS
<1>2. t \in TaskSet /\ t.kind = "reserve" /\ t.mandate \in Mandates /\ t.hold = h /\ HoldAmount[h] \in Nat
  BY Consts DEF TaskSet
<1> QED BY <1>1, <1>2, DrawsDrawing

LEMMA ChargeReadsDrawing ==
    ASSUME Story, Story', Drawing, NEW c \in Callers, NEW k \in ChargeIds, ChargeReads(c, k)
    PROVE  Drawing' /\ Eased
<1>1. PICK m \in Mandates : Draws(c, "charge", ChargeAmount[k], [kind |-> "charge", charge |-> k, mandate |-> m])
  BY DEF ChargeReads
<1> PICK t : t = [kind |-> "charge", charge |-> k, mandate |-> m]
  OBVIOUS
<1>2. t \in TaskSet /\ t.kind = "charge" /\ t.mandate \in Mandates /\ t.charge = k /\ ChargeAmount[k] \in Nat
  BY Consts DEF TaskSet
<1> QED BY <1>1, <1>2, DrawsDrawing

LEMMA FillReadsDrawing ==
    ASSUME Story, Story', Drawing, NEW c \in Callers, NEW h \in Holds, NEW a \in 1..2, FillReads(c, h, a)
    PROVE  Drawing' /\ Eased
<1> PICK t : t = [kind |-> "fill", hold |-> h, amount |-> a]
  OBVIOUS
<1> PICK u : u = under[h]
  OBVIOUS
<1>1. t \in TaskSet /\ t.kind = "fill" /\ t.hold = h /\ t.amount = a
  BY DEF TaskSet
<1>2. Asks(c, t) /\ ~FillLocked
  BY DEF FillReads, Asks, holdVars, drawVars
<1>3. LocksFit'
  BY <1>1, <1>2, AskLocks
<1>4. hstate[h] = "active" /\ a \in 1..Remaining(h) /\ AdmitBookFill(u, a)
  BY DEF FillReads
<1>5. PICK cur \in Mandates : /\ FillCap(u) > 0 /\ FillCap(cur) > 0
                              /\ Filled + a <= IF FillCap(u) < FillCap(cur) THEN FillCap(u) ELSE FillCap(cur)
  BY <1>4 DEF AdmitBookFill
<1>6. u \in Mandates /\ Caps[u].fill \in Nat /\ Caps[cur].fill \in Nat
  BY Consts DEF Drawing, DrawTypes
<1>7. FillCap(u) = Caps[u].fill /\ FillCap(cur) \in Nat
  BY <1>5, <1>6 DEF FillCap
<1>8. Filled + a <= Caps[u].fill
  <2>1. Filled \in Nat
    BY DrawnCounts DEF Drawing
  <2> QED BY <1>5, <1>6, <1>7, <2>1
<1>9. a <= Remaining(h)
  BY <1>4, StoryFacts
<1> QED BY <1>1, <1>2, <1>3, <1>4, <1>8, <1>9, AsksDrawing

LEMMA RevokeLocksDrawing ==
    ASSUME Story, Story', Drawing, NEW c \in Callers, NEW m \in Mandates, RevokeLocks(c, m)
    PROVE  Drawing' /\ Eased
<1> PICK t : t = [kind |-> "revoke", mandate |-> m]
  OBVIOUS
<1>1. t \in TaskSet /\ t.kind = "revoke" /\ t.mandate = m
  BY DEF TaskSet
<1>2. Asks(c, t) /\ mandate[m] = "current" /\ ~MandateLocked(m)
  BY DEF RevokeLocks, Asks, holdVars, drawVars
<1>3. LocksFit'
  BY <1>1, <1>2, NobodyLocks, AskLocks
<1> QED BY <1>1, <1>2, <1>3, AsksDrawing

LEMMA DroppedDrawing ==
    ASSUME Story, Story', Drawing, NEW c \in Callers, RequestDropped(c)
    PROVE  Drawing' /\ Eased
<1>1. Asks(c, NoTask)
  BY DEF RequestDropped, Asks, holdVars, drawVars
<1>2. LocksFit'
  BY <1>1, IdleTask, AskLocks
<1> QED BY <1>1, <1>2, IdleTask, AsksDrawing

LEMMA GrantDrawing ==
    ASSUME Story, Story', Drawing, NEW m \in Mandates, Grant(m)
    PROVE  Drawing' /\ Eased
<1>1. /\ UNCHANGED <<hstate, captured, under, capRows, refusedAt, task, charge, aged>>
      /\ mandate' = [n \in Mandates |-> IF n = m THEN "current"
                                        ELSE IF mandate[n] = "current" THEN "replaced" ELSE mandate[n]]
  BY DEF Grant
<1>2. DrawsEase /\ FillsEase
  BY <1>1 DEF DrawsEase, FillsEase, HoldEases
<1>3. DrawTypes'
  BY <1>1 DEF Drawing, DrawTypes
<1>4. \A c \in Callers : ~LocksMandate(c)
  <2> SUFFICES ASSUME NEW c \in Callers, LocksMandate(c) PROVE FALSE
    OBVIOUS
  <2>1. mandate[task[c].mandate] = "current" /\ task[c].kind \in {"reserve", "charge", "revoke"}
    BY DEF Drawing, LocksFit, LocksMandate
  <2>2. task[c].mandate \in Mandates
    BY <2>1, TaskFacts DEF Drawing
  <2> QED BY <2>1, <2>2 DEF Grant, MandateLocked
<1>5. LocksFit'
  <2>1. \A c \in Callers : ~LocksMandate(c)'
    BY <1>1, <1>4 DEF LocksMandate
  <2>2. \A n \in Mandates : mandate'[n] = "current" <=> n = m
    BY <1>1
  <2>3. \A c, d \in Callers : task'[c].kind = "fill" /\ task'[d].kind = "fill" => c = d
    BY <1>1 DEF Drawing, LocksFit
  <2> QED BY <2>1, <2>2, <2>3 DEF LocksFit
<1> QED BY <1>1, <1>2, <1>3, <1>5, DrawingEases DEF Eased

-----------------------------------------------------------------------------
\* A capture and a release, seen by the holds.
Others(S) == \A x \in Holds \ S : hstate'[x] = hstate[x] /\ captured'[x] = captured[x]

LEMMA CaptureOfEases ==
    ASSUME Story, NEW h \in Holds, hstate[h] = "active", NEW amount \in 1..Remaining(h), CaptureOf(h, amount)
    PROVE  (\A x \in Holds : HoldEases(x)) /\ Others({h})
<1>1. Remaining(h) \in Nat /\ captured[h] \in Nat
  BY StoryFacts
<1>2. amount \in Nat
  BY <1>1
<1>3. /\ captured' = [captured EXCEPT ![h] = @ + amount]
      /\ hstate' = [hstate EXCEPT ![h] = "captured"] \/ hstate' = hstate
  BY DEF CaptureOf
<1>4. DOMAIN hstate = Holds /\ DOMAIN captured = Holds
  BY DEF Story, HoldTypes
<1>5. captured'[h] = captured[h] + amount /\ hstate'[h] \in {"captured", "active"}
  BY <1>3, <1>4
<1>6. captured'[h] >= captured[h]
  BY <1>1, <1>2, <1>5
<1>7. Others({h})
  BY <1>3, <1>4 DEF Others
<1> QED BY <1>5, <1>6, <1>7 DEF HoldEases, Others

LEMMA ReleaseAllEases ==
    ASSUME Story, NEW S \in SUBSET Holds, \A h \in S : hstate[h] = "active",
           NEW asked \in {"voided", "expired"}, ReleaseAll(S, asked), captured' = captured
    PROVE  (\A x \in Holds : HoldEases(x)) /\ Others(S) /\ \A x \in S : hstate'[x] \in {"voided", "expired"}
<1>1. hstate' = [h \in Holds |-> IF h \notin S THEN hstate[h] ELSE IF IsDue(h) THEN "expired" ELSE asked]
  BY DEF ReleaseAll
<1>2. \A x \in S : hstate'[x] \in {"voided", "expired"}
  BY <1>1
<1>3. Others(S)
  BY <1>1 DEF Others
<1>4. \A x \in Holds : captured[x] \in Nat
  BY StoryFacts
<1> QED BY <1>2, <1>3, <1>4 DEF HoldEases, Others

\* What a capture records.
LEMMA RecordTypes ==
    ASSUME Story, DrawTypes, NEW h \in Holds, h \notin refusedAt, NEW amount \in Nat, NEW isFill \in BOOLEAN,
           RecordCapture(h, amount, isFill)
    PROVE  /\ IsFiniteSet(capRows') /\ capRows' \subseteq FillRows
           /\ \A r \in capRows' : r.hold \notin refusedAt
<1> PICK r : r = [hold |-> h, version |-> version[h] + 1, amount |-> amount, fill |-> isFill]
  OBVIOUS
<1>1. capRows' = capRows \union {r}
  BY DEF RecordCapture
<1>2. r \in FillRows /\ r.hold = h
  <2>1. version[h] + 1 \in Nat
    BY StoryFacts
  <2> QED BY <2>1 DEF FillRows
<1>3. IsFiniteSet(capRows') 
  BY <1>1, FS_AddElement DEF DrawTypes
<1>4. capRows' \subseteq FillRows
  BY <1>1, <1>2 DEF DrawTypes, FillRows
<1> QED BY <1>1, <1>2, <1>3, <1>4 DEF DrawTypes

LEMMA CaptureDrawing ==
    ASSUME Story, Story', Drawing, NEW h \in Holds, NEW a \in 1..2, Capture(h, a)
    PROVE  Drawing' /\ Eased
<1>1. /\ hstate[h] = "active" /\ a \in 1..Remaining(h) /\ CaptureOf(h, a) /\ ~HoldLocked(h)
      /\ RecordCapture(h, a, FALSE)
      /\ UNCHANGED <<under, refusedAt, charge, mandate, aged, task>>
  BY DEF Capture, drawVars
<1>2. (\A x \in Holds : HoldEases(x)) /\ Others({h})
  BY <1>1, CaptureOfEases
<1>3. h \notin refusedAt
  BY <1>1, ActiveFacts
<1>4. /\ IsFiniteSet(capRows') /\ capRows' \subseteq FillRows
      /\ \A r \in capRows' : r.hold \notin refusedAt
  <2>1. a \in Nat /\ FALSE \in BOOLEAN /\ DrawTypes
    BY DEF Drawing
  <2> QED BY <1>1, <1>3, <2>1, RecordTypes, Zenon
<1>5. DrawTypes'
  BY <1>1, <1>4 DEF Drawing, DrawTypes, FillRows
<1>6. DrawsEase
  BY <1>1, <1>2 DEF DrawsEase
<1>7. FillsEase
  <2>1. \A r \in capRows' : r.fill => r \in capRows
    BY <1>1 DEF RecordCapture
  <2> QED BY <1>1, <1>2, <2>1 DEF FillsEase, Others
<1>8. LocksFit'
  BY <1>1, <1>2, LocksStand DEF Drawing
<1> QED BY <1>1, <1>5, <1>6, <1>7, <1>8, DrawingEases DEF Eased

LEMMA ReleaseDrawing ==
    ASSUME Story, Story', Drawing, NEW h \in Holds, Void(h) \/ ExpireDueHold(h)
    PROVE  Drawing' /\ Eased
<1>1. /\ hstate[h] = "active" /\ ~HoldLocked(h)
      /\ ReleaseAll({h}, "voided") \/ ReleaseAll({h}, "expired")
      /\ UNCHANGED <<captured, under, refusedAt, capRows, charge, mandate, aged, task>>
  BY DEF Void, ExpireDueHold, IsDue, drawVars
<1>2. (\A x \in Holds : HoldEases(x)) /\ Others({h})
  <2>1. {h} \in SUBSET Holds /\ \A x \in {h} : hstate[x] = "active"
    BY <1>1
  <2> QED BY <1>1, <2>1, ReleaseAllEases
<1>3. DrawTypes'
  BY <1>1 DEF Drawing, DrawTypes
<1>4. DrawsEase /\ FillsEase
  BY <1>1, <1>2 DEF DrawsEase, FillsEase, Others
<1>5. LocksFit'
  BY <1>1, <1>2, LocksStand DEF Drawing
<1> QED BY <1>1, <1>3, <1>4, <1>5, DrawingEases DEF Eased

LEMMA RefuseDrawing ==
    ASSUME Story, Story', Drawing, NEW i \in DOMAIN rows, ParkRefusedReserve(i)
    PROVE  Drawing' /\ Eased
<1> PICK r : r = rows[i]
  OBVIOUS
<1> PICK h : h = r.hold
  OBVIOUS
<1>1. /\ ~HoldLocked(h) /\ r.kind = "placed" /\ refusedAt' = refusedAt \union {h}
      /\ hstate' = [hstate EXCEPT ![h] = "voided"] /\ captured' = [captured EXCEPT ![h] = 0]
      /\ capRows' = {x \in capRows : x.hold # h}
      /\ UNCHANGED <<under, charge, mandate, aged, task>>
  BY DEF ParkRefusedReserve, drawVars
<1>2. h \in Holds /\ hstate[h] # "none"
  <2>1. r \in RowSet /\ RowFits(r) /\ h \in Holds /\ version[h] \in Nat /\ r.version \in Nat \ {0}
    BY StoryFacts, RowTypes
  <2>2. version[h] # 0
    BY <2>1 DEF RowFits
  <2> QED BY <2>1, <2>2 DEF Story, HoldFits
<1>3. hstate'[h] = "voided" /\ captured'[h] = 0 /\ Others({h})
  BY <1>1, <1>2 DEF Story, HoldTypes, Others
<1>4. \A x \in Holds : HoldEases(x)
  BY <1>2, <1>3 DEF HoldEases, Others
<1>5. DrawTypes'
  <2>1. IsFiniteSet(capRows') /\ capRows' \subseteq capRows
    BY <1>1, FS_Subset DEF Drawing, DrawTypes
  <2>2. \A x \in capRows' : x.hold \notin refusedAt'
    BY <1>1 DEF Drawing, DrawTypes
  <2> QED BY <1>1, <2>1, <2>2 DEF Drawing, DrawTypes
<1>6. DrawsEase /\ FillsEase
  BY <1>1, <1>3, <1>4 DEF DrawsEase, FillsEase, Others
<1>7. LocksFit'
  BY <1>1, <1>4, LocksStand DEF Drawing
<1> QED BY <1>1, <1>5, <1>6, <1>7, DrawingEases DEF Eased

LEMMA RevokeCommitsDrawing ==
    ASSUME Story, Story', Drawing, NEW c \in Callers, RevokeCommits(c)
    PROVE  Drawing' /\ Eased
<1> PICK m : m = task[c].mandate
  OBVIOUS
<1> PICK S : S = {h \in Holds : hstate[h] = "active"}
  OBVIOUS
<1>1. /\ task[c].kind = "revoke" /\ (\A h \in S : ~HoldLocked(h))
      /\ mandate' = [mandate EXCEPT ![m] = "revoked"] /\ ReleaseAll(S, "voided")
      /\ task' = [task EXCEPT ![c] = NoTask]
      /\ UNCHANGED <<captured, under, refusedAt, capRows, charge, aged>>
  BY DEF RevokeCommits
<1>2. /\ m \in Mandates /\ mandate[m] = "current"
      /\ task \in [Callers -> TaskSet] /\ mandate \in [Mandates -> {"none", "current", "revoked", "replaced"}]
  BY <1>1, TaskFacts DEF Drawing, DrawTypes, LocksFit, LocksMandate
<1>3. (\A x \in Holds : HoldEases(x)) /\ Others(S) /\ \A x \in S : hstate'[x] \in {"voided", "expired"}
  <2>1. S \in SUBSET Holds /\ \A x \in S : hstate[x] = "active"
    OBVIOUS
  <2> QED BY <1>1, <2>1, ReleaseAllEases
<1>4. DrawTypes'
  BY <1>1, <1>2, IdleTask DEF Drawing, DrawTypes
<1>5. DrawsEase /\ FillsEase
  BY <1>1, <1>3 DEF DrawsEase, FillsEase, Others
<1>6. task'[c] = NoTask /\ \A d \in Callers \ {c} : task'[d] = task[d]
  BY <1>1, <1>2
<1>7. \A d \in Callers : ~LocksMandate(d)'
  <2>1. ASSUME NEW d \in Callers, LocksMandate(d)' PROVE FALSE
    <3>1. d # c
      BY <1>6, <2>1, IdleTask DEF LocksMandate
    <3>2. LocksMandate(d) /\ LocksMandate(c)
      BY <1>1, <1>6, <2>1, <3>1 DEF LocksMandate
    <3> QED BY <3>1, <3>2 DEF Drawing, LocksFit
  <2> QED BY <2>1
<1>8. LocksFit'
  <2>1. \A h \in Holds : hstate'[h] # "active"
    BY <1>3 DEF Others
  <2>2. \A n \in Mandates : mandate'[n] # "current"
    BY <1>1, <1>2 DEF Drawing, LocksFit
  <2>3. \A d, e \in Callers : task'[d].kind = "fill" /\ task'[e].kind = "fill" => d = e
    BY <1>6, IdleTask DEF Drawing, LocksFit
  <2> QED BY <1>7, <2>1, <2>2, <2>3 DEF LocksFit
<1> QED BY <1>4, <1>5, <1>6, <1>8, DrawingEases DEF Eased

-----------------------------------------------------------------------------
(***************************************************************************)
(* The three commits raise the draws, each by what its request has read.   *)
(***************************************************************************)
LEMMA ReserveAdds ==
    ASSUME Story, Story', Drawing, NEW c \in Callers, ReserveCommits(c),
           NEW h, h = task[c].hold, NEW m, m = task[c].mandate
    PROVE  /\ h \in Holds /\ m \in Mandates /\ hstate[h] = "none" /\ hstate'[h] = "active"
           /\ Others({h}) /\ captured' = captured /\ under'[h] = m /\ \A x \in Holds \ {h} : under'[x] = under[x]
           /\ \A x \in Holds \ {h} : version'[x] = version[x]
           /\ under' \in [Holds -> Mandates]
           /\ task' = [task EXCEPT ![c] = NoTask] /\ mandate[m] = "current"
           /\ UNCHANGED <<capRows, refusedAt, charge, mandate, aged>>
<1>1. task[c].kind = "reserve" /\ h \in Holds /\ m \in Mandates
  BY TaskFacts DEF Drawing, ReserveCommits
<1>2. /\ hstate[h] = "none" /\ hstate' = [hstate EXCEPT ![h] = "active"] /\ version' = [version EXCEPT ![h] = 1]
      /\ under' = [under EXCEPT ![h] = m] /\ captured' = captured
      /\ task' = [task EXCEPT ![c] = NoTask] /\ UNCHANGED <<capRows, refusedAt, charge, mandate, aged>>
  BY DEF ReserveCommits, drawVars
<1>3. DOMAIN hstate = Holds /\ DOMAIN version = Holds /\ under \in [Holds -> Mandates]
  BY DEF Story, HoldTypes, Drawing, DrawTypes
<1>4. mandate[m] = "current"
  BY <1>1 DEF Drawing, LocksFit, LocksMandate
<1> QED BY <1>1, <1>2, <1>3, <1>4 DEF Others

LEMMA ReserveAddsUp ==
    ASSUME Story, Story', Drawing, NEW c \in Callers, ReserveCommits(c), NEW h, h = task[c].hold
    PROVE  DrawnNew' <= DrawnNew + HoldAmount[h] /\ Outstanding' <= Outstanding + HoldAmount[h]
<1>1. /\ h \in Holds /\ hstate'[h] = "active" /\ Others({h}) /\ captured' = captured
      /\ \A x \in Holds \ {h} : version'[x] = version[x]
      /\ UNCHANGED <<charge, aged>>
  BY ReserveAdds
<1> PICK D, E, v, w : /\ D = Today(version, aged) /\ E = Today(version', aged')
                      /\ v = Weights(hstate, captured) /\ w = Weights(hstate', captured')
  OBVIOUS
<1> PICK x, y, b : x = Lefts(hstate, captured) /\ y = Lefts(hstate', captured') /\ b = HoldAmount[h]
  OBVIOUS
<1>2. DrawnFacts /\ DrawnFacts' /\ DrawsAddUp /\ DrawsAddUp'
  BY DrawnDoFit, DrawnStillFit, DrawsDoAddUp, DrawsStillAddUp
<1>3. IsFiniteSet(Holds) /\ IsFiniteSet(D) /\ (\A g \in Holds : v[g] \in Nat /\ x[g] \in Nat) /\ b \in Nat /\ b >= 0
  BY <1>1, <1>2, Consts DEF DrawnFacts
<1>4. \A g \in Holds : w[g] \in Nat /\ y[g] \in Nat
  BY <1>2 DEF DrawnFacts
<1>5. \A g \in Holds \ {h} : w[g] = v[g] /\ y[g] = x[g]
  BY <1>1 DEF Weights, Weight, Lefts, Left, Others
<1>6. w[h] = b /\ y[h] <= b
  <2>1. captured[h] \in Nat
    BY <1>1, StoryFacts
  <2> QED BY <1>1, <1>3, <2>1 DEF Weights, Weight, Lefts, Left
<1>7. D \subseteq Holds /\ E \subseteq D \cup {h}
  BY <1>1 DEF Today
<1>8. SumOver(w, E) <= SumOver(v, D) + b
  <2>1. (\A g \in D : v[g] \in Nat) /\ (\A g \in E : w[g] \in Nat) /\ E \in SUBSET (D \cup {h})
    BY <1>1, <1>3, <1>4, <1>7
  <2>2. \A g \in E \ {h} : w[g] <= v[g]
    BY <1>3, <1>5, <1>7
  <2>3. w[h] <= IF h \in D THEN v[h] + b ELSE b
    BY <1>1, <1>3, <1>6
  <2> QED BY <1>3, <2>1, <2>2, <2>3, SumBelowAdd
<1>9. SumOver(y, Holds) <= SumOver(x, Holds) + b
  <2>1. Holds \in SUBSET (Holds \cup {h}) /\ \A g \in Holds \ {h} : y[g] <= x[g]
    BY <1>3, <1>5
  <2>2. y[h] <= IF h \in Holds THEN x[h] + b ELSE b
    BY <1>1, <1>3, <1>4, <1>6
  <2> QED BY <1>3, <1>4, <2>1, <2>2, SumBelowAdd
<1>10. /\ DrawnNew = SumOver(v, D) + ChargesDrawn(charge, aged) /\ DrawnNew' = SumOver(w, E) + ChargesDrawn(charge', aged')
       /\ Outstanding = SumOver(x, Holds) /\ Outstanding' = SumOver(y, Holds)
  BY <1>2 DEF DrawsAddUp, HoldsDrawn, HoldsLeft
<1>11. ChargesDrawn(charge', aged') = ChargesDrawn(charge, aged) /\ ChargesDrawn(charge, aged) \in Nat
  BY <1>1, <1>2 DEF DrawnFacts
<1>12. SumOver(v, D) \in Nat /\ SumOver(w, E) \in Nat
  BY <1>2 DEF DrawnFacts, HoldsDrawn
<1> QED BY <1>3, <1>8, <1>9, <1>10, <1>11, <1>12

LEMMA ChargeAddsUp ==
    ASSUME Story, Story', Drawing, NEW c \in Callers, ChargeCommits(c), NEW k, k = task[c].charge
    PROVE  DrawnNew' <= DrawnNew + ChargeAmount[k] /\ Outstanding' = Outstanding /\ Filled' = Filled
<1>1. /\ task[c].kind = "charge" /\ charge' = [charge EXCEPT ![k] = "pending"]
      /\ UNCHANGED <<hstate, captured, version, capRows, aged>>
  BY DEF ChargeCommits, holdVars
<1>2. k \in ChargeIds /\ DOMAIN charge = ChargeIds
  BY <1>1, TaskFacts DEF Drawing, DrawTypes
<1>3. DrawnFacts /\ DrawsAddUp /\ DrawsAddUp'
  BY DrawnDoFit, DrawsDoAddUp, DrawsStillAddUp
<1> PICK D, E, b : D = ChargedToday(charge, aged) /\ E = ChargedToday(charge', aged') /\ b = ChargeAmount[k]
  OBVIOUS
<1>4. D \subseteq ChargeIds /\ E \subseteq ChargeIds /\ E \subseteq D \cup {k}
  BY <1>1, <1>2 DEF ChargedToday
<1>5. IsFiniteSet(D) /\ b \in Nat /\ \A j \in ChargeIds : ChargeAmount[j] \in Nat
  BY <1>2, <1>3, Consts DEF DrawnFacts
<1>6. SumOver(ChargeAmount, E) <= SumOver(ChargeAmount, D) + b
  <2>1. (\A j \in D : ChargeAmount[j] \in Nat) /\ (\A j \in E : ChargeAmount[j] \in Nat) /\ E \in SUBSET (D \cup {k})
    BY <1>4, <1>5
  <2>2. \A j \in E \ {k} : ChargeAmount[j] <= ChargeAmount[j]
    BY <1>4, <1>5
  <2>3. ChargeAmount[k] <= IF k \in D THEN ChargeAmount[k] + b ELSE b
    BY <1>5
  <2> QED BY <1>5, <2>1, <2>2, <2>3, SumBelowAdd
<1>7. /\ DrawnNew = HoldsDrawn(hstate, captured, version, aged) + SumOver(ChargeAmount, D)
      /\ DrawnNew' = HoldsDrawn(hstate, captured, version, aged) + SumOver(ChargeAmount, E)
  BY <1>1, <1>3 DEF DrawsAddUp, ChargesDrawn
<1>8. HoldsDrawn(hstate, captured, version, aged) \in Nat /\ SumOver(ChargeAmount, D) \in Nat
  BY <1>3 DEF DrawnFacts, ChargesDrawn
<1>9. SumOver(ChargeAmount, E) \in Nat
  BY <1>4, <1>5, Consts, FS_Subset, SumNat
<1>10. DrawnNew' <= DrawnNew + b
  BY <1>5, <1>6, <1>7, <1>8, <1>9
<1>11. Outstanding' = Outstanding /\ Filled' = Filled
  BY <1>1, <1>3 DEF DrawsAddUp, Drawing, DrawTypes
<1> QED BY <1>10, <1>11

LEMMA FillAddsUp ==
    ASSUME Story, Drawing, NEW r \in FillRows, capRows' = capRows \union {r}, aged' = aged
    PROVE  Filled' <= Filled + r.amount
<1>1. FillTypes(capRows) /\ FillTypes(capRows')
  BY FS_AddElement DEF Drawing, DrawTypes, FillTypes, FillRows
<1>2. Filled = FillsDrawn(capRows, aged) /\ Filled' = FillsDrawn(capRows', aged')
  BY <1>1, DrawsDoAddUp, DrawsStillAddUp DEF DrawsAddUp, FillTypes
<1> PICK D, E, v, w, b : /\ D = FilledToday(capRows, aged) /\ E = FilledToday(capRows', aged')
                         /\ v = Amounts(capRows) /\ w = Amounts(capRows') /\ b = r.amount
  OBVIOUS
<1>3. D \subseteq capRows /\ E \subseteq capRows' /\ E \subseteq D \cup {r}
  BY DEF FilledToday
<1>4. IsFiniteSet(D) /\ b \in Nat
  BY <1>1, <1>3, FS_Subset DEF FillTypes, FillRows
<1>5. \A x \in capRows : v[x] = x.amount /\ v[x] \in Nat
  BY <1>1 DEF Amounts, FillTypes, FillRows
<1>6. \A x \in capRows' : w[x] = x.amount /\ w[x] \in Nat
  BY <1>1 DEF Amounts, FillTypes, FillRows
<1>7. (\A x \in D : v[x] \in Nat) /\ (\A x \in E : w[x] \in Nat) /\ E \in SUBSET (D \cup {r})
  BY <1>3, <1>5, <1>6
<1>8. \A x \in E \ {r} : w[x] <= v[x]
  <2> SUFFICES ASSUME NEW x \in E \ {r} PROVE w[x] <= v[x]
    OBVIOUS
  <2>1. x \in capRows /\ x \in capRows'
    BY <1>3
  <2> QED BY <1>5, <1>6, <2>1
<1>9. w[r] <= IF r \in D THEN v[r] + b ELSE b
  <2>1. w[r] = b
    BY <1>6
  <2>2. r \in D => v[r] \in Nat
    BY <1>3, <1>5
  <2> QED BY <1>4, <2>1, <2>2
<1>10. SumOver(w, E) <= SumOver(v, D) + b
  BY <1>4, <1>7, <1>8, <1>9, SumBelowAdd
<1> QED BY <1>2, <1>10 DEF FillsDrawn

\* After a commit its request is over, and no other one locks what it locked.
LEMMA LocksAfter ==
    ASSUME Drawing, NEW c \in Callers, task' = [task EXCEPT ![c] = NoTask], UNCHANGED mandate,
           \A h \in Holds : hstate'[h] = "active" => hstate[h] = "active" \/ \E m \in Mandates : mandate[m] = "current"
    PROVE  LocksFit' /\ task'[c] = NoTask /\ \A d \in Callers \ {c} : task'[d] = task[d]
<1>1. LocksFit /\ task \in [Callers -> TaskSet]
  BY DEF Drawing, DrawTypes
<1>2. task'[c] = NoTask /\ \A d \in Callers \ {c} : task'[d] = task[d]
  BY <1>1
<1>3. \A d \in Callers : LocksMandate(d)' => LocksMandate(d) /\ task'[d] = task[d]
  BY <1>2, IdleTask DEF LocksMandate
<1>4. \A d \in Callers : task'[d].kind = "fill" => task[d].kind = "fill"
  BY <1>2, IdleTask
<1>5. \A h \in Holds : hstate'[h] = "active" => \E m \in Mandates : mandate'[m] = "current"
  BY <1>1 DEF LocksFit
<1>6. \A d, e \in Callers : LocksMandate(d)' /\ LocksMandate(e)' => d = e
  BY <1>1, <1>3 DEF LocksFit
<1>7. \A d \in Callers : LocksMandate(d)' => mandate'[task'[d].mandate] = "current"
  BY <1>1, <1>3 DEF LocksFit
<1>8. \A m, n \in Mandates : mandate'[m] = "current" /\ mandate'[n] = "current" => m = n
  BY <1>1 DEF LocksFit
<1>9. \A d, e \in Callers : task'[d].kind = "fill" /\ task'[e].kind = "fill" => d = e
  BY <1>1, <1>4 DEF LocksFit
<1>10. LocksFit'
  BY <1>5, <1>6, <1>7, <1>8, <1>9 DEF LocksFit
<1> QED BY <1>2, <1>10

\* A reserve or a charge commits: every other request is idle or a fill.
LEMMA OthersFill ==
    ASSUME Drawing, NEW c \in Callers, task[c].kind \in {"reserve", "charge"}, NEW d \in Callers, d # c
    PROVE  task[d].kind \in {"idle", "fill"}
<1>1. LocksMandate(c) /\ ~LocksMandate(d)
  BY DEF Drawing, LocksFit, LocksMandate
<1>2. task[d].kind \in {"idle", "reserve", "charge", "revoke", "fill"}
  BY TaskFacts DEF Drawing
<1> QED BY <1>1, <1>2 DEF LocksMandate

LEMMA FillsHoldActive ==
    ASSUME Drawing, NEW h \in Holds, HoldLocked(h)
    PROVE  hstate[h] = "active"
BY DEF Drawing, DrawFits, HoldLocked

LEMMA IdleFits ==
    ASSUME NEW c \in Callers, task'[c].kind \in {"idle", "revoke"}
    PROVE  DrawFits(c)'
BY DEF DrawFits

LEMMA ReserveCommitsDrawing ==
    ASSUME Story, Story', Drawing, NEW c \in Callers, ReserveCommits(c)
    PROVE  Drawing'
<1> PICK h, m : h = task[c].hold /\ m = task[c].mandate
  OBVIOUS
<1>1. /\ h \in Holds /\ m \in Mandates /\ hstate[h] = "none" /\ hstate'[h] = "active"
      /\ Others({h}) /\ captured' = captured /\ under'[h] = m /\ \A x \in Holds \ {h} : under'[x] = under[x]
      /\ under' \in [Holds -> Mandates]
      /\ task' = [task EXCEPT ![c] = NoTask] /\ mandate[m] = "current"
      /\ UNCHANGED <<capRows, refusedAt, charge, mandate, aged>>
  BY ReserveAdds
<1>2. LocksFit' /\ task'[c] = NoTask /\ \A d \in Callers \ {c} : task'[d] = task[d]
  BY <1>1, LocksAfter
<1>3. DrawTypes'
  BY <1>1, IdleTask DEF Drawing, DrawTypes
<1>4. FillsEase
  <2>1. ASSUME NEW x \in Holds, HoldLocked(x) PROVE x # h
    BY <1>1, <2>1, FillsHoldActive
  <2> QED BY <1>1, <2>1 DEF FillsEase, Others
<1>5. ASSUME NEW d \in Callers PROVE DrawFits(d)'
  <2>1. CASE d = c
    BY <1>2, <2>1, IdleTask, IdleFits
  <2>2. CASE d # c
    <3>1. task[d].kind \in {"idle", "fill"} /\ task'[d] = task[d] /\ DrawFits(d)
      BY <1>2, <2>2, OthersFill DEF Drawing, ReserveCommits
    <3> QED BY <1>3, <1>4, <3>1, FillStands, IdleFits
  <2> QED BY <2>1, <2>2
<1> QED BY <1>2, <1>3, <1>5 DEF Drawing

LEMMA ChargeCommitsDrawing ==
    ASSUME Story, Story', Drawing, NEW c \in Callers, ChargeCommits(c)
    PROVE  Drawing'
<1>1. /\ task[c].kind = "charge" /\ charge' = [charge EXCEPT ![task[c].charge] = "pending"]
      /\ task' = [task EXCEPT ![c] = NoTask]
      /\ UNCHANGED <<hstate, captured, under, capRows, refusedAt, mandate, aged>>
  BY DEF ChargeCommits, holdVars
<1>2. LocksFit' /\ task'[c] = NoTask /\ \A d \in Callers \ {c} : task'[d] = task[d]
  BY <1>1, LocksAfter
<1>3. DrawTypes'
  <2>1. task[c].charge \in ChargeIds
    BY <1>1, TaskFacts DEF Drawing
  <2> QED BY <1>1, <2>1, IdleTask DEF Drawing, DrawTypes
<1>4. FillsEase
  BY <1>1 DEF FillsEase
<1>5. ASSUME NEW d \in Callers PROVE DrawFits(d)'
  <2>1. CASE d = c
    BY <1>2, <2>1, IdleTask, IdleFits
  <2>2. CASE d # c
    <3>1. task[d].kind \in {"idle", "fill"} /\ task'[d] = task[d] /\ DrawFits(d)
      BY <1>1, <1>2, <2>2, OthersFill DEF Drawing
    <3> QED BY <1>3, <1>4, <3>1, FillStands, IdleFits
  <2> QED BY <2>1, <2>2
<1> QED BY <1>2, <1>3, <1>5 DEF Drawing

LEMMA FillAdds ==
    ASSUME Story, Drawing, NEW c \in Callers, FillCommits(c),
           NEW h, h = task[c].hold, NEW a, a = task[c].amount
    PROVE  /\ task[c].kind = "fill" /\ h \in Holds /\ a \in Nat /\ h \notin refusedAt
           /\ (\A x \in Holds : HoldEases(x)) /\ Others({h}) /\ RecordCapture(h, a, TRUE)
           /\ task' = [task EXCEPT ![c] = NoTask]
           /\ UNCHANGED <<under, refusedAt, charge, mandate, aged>>
<1>1. /\ task[c].kind = "fill" /\ CaptureOf(h, a) /\ RecordCapture(h, a, TRUE)
      /\ task' = [task EXCEPT ![c] = NoTask] /\ UNCHANGED <<under, refusedAt, charge, mandate, aged>>
  BY DEF FillCommits, drawVars
<1>2. h \in Holds /\ a \in Nat \ {0}
  BY <1>1, TaskFacts DEF Drawing
<1>3. hstate[h] = "active" /\ a <= Remaining(h)
  BY <1>1 DEF Drawing, DrawFits
<1>4. a \in 1..Remaining(h)
  BY <1>2, <1>3, StoryFacts
<1>5. h \notin refusedAt
  BY <1>2, <1>3, ActiveFacts
<1> QED BY <1>1, <1>2, <1>3, <1>4, <1>5, CaptureOfEases

LEMMA FillCommitsDrawing ==
    ASSUME Story, Story', Drawing, NEW c \in Callers, FillCommits(c)
    PROVE  Drawing'
<1> PICK h, a : h = task[c].hold /\ a = task[c].amount
  OBVIOUS
<1>1. /\ task[c].kind = "fill" /\ h \in Holds /\ a \in Nat /\ h \notin refusedAt
      /\ (\A x \in Holds : HoldEases(x)) /\ Others({h}) /\ RecordCapture(h, a, TRUE)
      /\ task' = [task EXCEPT ![c] = NoTask]
      /\ UNCHANGED <<under, refusedAt, charge, mandate, aged>>
  BY FillAdds
<1>2. LocksFit' /\ task'[c] = NoTask /\ \A d \in Callers \ {c} : task'[d] = task[d]
  <2>1. \A x \in Holds : hstate'[x] = "active" => hstate[x] = "active"
    BY <1>1 DEF HoldEases
  <2> QED BY <1>1, <2>1, LocksAfter
<1>3. IsFiniteSet(capRows') /\ capRows' \subseteq FillRows /\ \A r \in capRows' : r.hold \notin refusedAt
  <2>1. TRUE \in BOOLEAN /\ DrawTypes
    BY DEF Drawing
  <2> QED BY <1>1, <2>1, RecordTypes, Zenon
<1>4. DrawTypes'
  BY <1>1, <1>3, IdleTask DEF Drawing, DrawTypes, FillRows
<1>5. DrawsEase
  BY <1>1 DEF DrawsEase
<1>6. ASSUME NEW d \in Callers PROVE DrawFits(d)'
  <2>1. CASE d = c
    BY <1>2, <2>1, IdleTask, IdleFits
  <2>2. CASE d # c
    <3>1. task[d].kind # "fill"
      BY <1>1, <2>2 DEF Drawing, LocksFit
    <3>2. task'[d] = task[d] /\ DrawFits(d)
      BY <1>2, <2>2 DEF Drawing
    <3> QED BY <1>5, <3>1, <3>2, DrawStands
  <2> QED BY <2>1, <2>2
<1> QED BY <1>2, <1>4, <1>6 DEF Drawing

Commits(c) == ReserveCommits(c) \/ ChargeCommits(c) \/ FillCommits(c)

LEMMA DrawingKept ==
    ASSUME Story, Story', Drawing, [HoldsNext]_holdsVars
    PROVE  Drawing' /\ (Eased \/ \E c \in Callers : Commits(c))
<1>1. ASSUME NEW c \in Callers, NEW h \in Holds, ReserveReads(c, h) PROVE Drawing' /\ Eased
  BY <1>1, ReserveReadsDrawing
<1>2. ASSUME NEW c \in Callers, NEW k \in ChargeIds, ChargeReads(c, k) PROVE Drawing' /\ Eased
  BY <1>2, ChargeReadsDrawing
<1>3. ASSUME NEW c \in Callers, NEW h \in Holds, NEW a \in 1..2, FillReads(c, h, a) PROVE Drawing' /\ Eased
  BY <1>3, FillReadsDrawing
<1>4. ASSUME NEW c \in Callers, NEW m \in Mandates, RevokeLocks(c, m) PROVE Drawing' /\ Eased
  BY <1>4, RevokeLocksDrawing
<1>5. ASSUME NEW c \in Callers, RevokeCommits(c) \/ RequestDropped(c)
      PROVE  Drawing' /\ Eased
  BY <1>5, RevokeCommitsDrawing, DroppedDrawing
<1>18. ASSUME NEW c \in Callers, Commits(c) PROVE Drawing'
  BY <1>18, ReserveCommitsDrawing, ChargeCommitsDrawing, FillCommitsDrawing DEF Commits
<1>6. ASSUME NEW h \in Holds, NEW a \in 1..2, Capture(h, a) PROVE Drawing' /\ Eased
  BY <1>6, CaptureDrawing
<1>7. ASSUME NEW h \in Holds, Void(h) \/ ExpireDueHold(h) PROVE Drawing' /\ Eased
  BY <1>7, ReleaseDrawing
<1>8. ASSUME NEW m \in Mandates, Grant(m) PROVE Drawing' /\ Eased
  BY <1>8, GrantDrawing
<1>9. ASSUME NEW i \in DOMAIN rows, ParkRefusedReserve(i) PROVE Drawing' /\ Eased
  BY <1>9, RefuseDrawing
<1>10. ASSUME Aloof PROVE Drawing' /\ Eased
  BY <1>10, AloofDrawing
<1>11. ASSUME NEW i \in DOMAIN rows,
              \/ RelayReserve(i) \/ RelayCapture(i) \/ RelayRelease(i) \/ RelayAnnounce(i)
              \/ ParkUnreserved(i) \/ ParkConflict(i) \/ ParkUnrecorded(i) \/ UnparkRow(i)
       PROVE  Drawing' /\ Eased
  BY <1>10, <1>11, AloofSteps
<1>12. ASSUME NEW k \in ChargeIds, RelayCharge(k) PROVE Drawing' /\ Eased
  BY <1>10, <1>12, AloofSteps
<1>13. ASSUME NEW h \in Holds, TtlPasses(h) PROVE Drawing' /\ Eased
  BY <1>10, <1>13, AloofSteps
<1>14. ASSUME NEW m \in Mandates, MandateLapses(m) PROVE Drawing' /\ Eased
  BY <1>10, <1>14, AloofSteps
<1>15. ASSUME DayPasses \/ FreezeOrThaw \/ ForeignTake \/ UNCHANGED holdsVars PROVE Drawing' /\ Eased
  BY <1>10, <1>15, AloofSteps
<1>16. RelayHoldStep => Drawing' /\ Eased
  BY <1>9, <1>11 DEF RelayHoldStep
<1>17. (\E i \in DOMAIN rows : ParkConflict(i) \/ ParkUnrecorded(i) \/ UnparkRow(i)) => Drawing' /\ Eased
  BY <1>11
<1> QED BY <1>1, <1>2, <1>3, <1>4, <1>5, <1>6, <1>7, <1>8, <1>12, <1>13, <1>14, <1>15, <1>16, <1>17, <1>18 DEF HoldsNext, Commits

-----------------------------------------------------------------------------
(***************************************************************************)
(* The invariant and the properties it gives.                              *)
(***************************************************************************)
LEMMA InitStory == HoldsInit => Story
<1> SUFFICES ASSUME HoldsInit PROVE Story
  OBVIOUS
<1>1. /\ hstate = [h \in Holds |-> "none"] /\ captured = [h \in Holds |-> 0]
      /\ version = [h \in Holds |-> 0] /\ standing = [h \in Holds |-> 0]
      /\ refusedAt = {} /\ rows = <<>>
  BY DEF HoldsInit, HoldsInitWith
<1>2. rows \in Seq(RowSet) /\ DOMAIN rows = {}
  BY <1>1
<1>3. RowsFit
  BY <1>2 DEF RowsFit
<1>4. HoldTypes
  BY <1>1, Consts DEF HoldTypes, HoldStates
<1>5. \A h \in Holds : HoldFits(h)
  BY <1>1 DEF HoldFits
<1> QED BY <1>3, <1>4, <1>5 DEF Story

LEMMA InitBooks == HoldsInit => Books
<1> SUFFICES ASSUME HoldsInit PROVE Books
  OBVIOUS
<1>1. /\ reserved = [h \in Holds |-> {}] /\ voided = [h \in Holds |-> {}] /\ taken = [h \in Holds |-> <<>>]
      /\ free = Balance /\ ledgerNo = {} /\ refusedAt = {} /\ rows = <<>>
  BY DEF HoldsInit, HoldsInitWith
<1>2. DOMAIN rows = {} /\ DOMAIN <<>> = {} /\ <<>> \in [{} -> Nat]
  BY <1>1
<1>3. BookTypes
  BY <1>1, <1>2, Consts DEF BookTypes
<1>4. \A h \in Holds : BookFits(h)
  BY <1>1, <1>2 DEF BookFits
<1> QED BY <1>2, <1>3, <1>4 DEF Books

LEMMA InitTold == HoldsInit => Told
<1> SUFFICES ASSUME HoldsInit PROVE Told
  OBVIOUS
<1>1. feed = [h \in Holds |-> <<>>] /\ refusedAt = {}
  BY DEF HoldsInit, HoldsInitWith
<1>2. /\ DOMAIN feed = Holds
      /\ \A h \in Holds : feed[h] \in Seq([version : Nat, remaining : Nat]) /\ DOMAIN feed[h] = {}
  BY <1>1
<1>3. \A h \in Holds : FeedFits(h)
  BY <1>1, <1>2 DEF FeedFits
<1>4. FeedInOrder
  BY <1>2 DEF FeedInOrder
<1> QED BY <1>2, <1>3, <1>4 DEF Told

LEMMA InitDone == HoldsInit => DoneIsTold
<1> SUFFICES ASSUME HoldsInit PROVE DoneIsTold
  OBVIOUS
<1>1. DOMAIN rows = {}
  BY DEF HoldsInit, HoldsInitWith
<1> QED BY <1>1 DEF DoneIsTold

LEMMA InitDrawing == HoldsInit => Drawing
<1> SUFFICES ASSUME HoldsInit PROVE Drawing
  OBVIOUS
<1>1. /\ hstate = [h \in Holds |-> "none"] /\ under = [h \in Holds |-> CHOOSE m \in Mandates : TRUE]
      /\ charge = [k \in ChargeIds |-> "none"] /\ mandate = [m \in Mandates |-> "none"]
      /\ task = [c \in Callers |-> NoTask] /\ capRows = {} /\ refusedAt = {}
  BY DEF HoldsInit, HoldsInitWith
<1>2. (CHOOSE m \in Mandates : TRUE) \in Mandates
  BY HoldsAssumption
<1>3. DrawTypes
  BY <1>1, <1>2, IdleTask, FS_EmptySet DEF DrawTypes
<1>4. \A c \in Callers : task[c].kind = "idle"
  BY <1>1, IdleTask
<1>5. LocksFit
  BY <1>1, <1>4 DEF LocksFit, LocksMandate
<1>6. \A c \in Callers : DrawFits(c)
  BY <1>4 DEF DrawFits
<1> QED BY <1>3, <1>5, <1>6 DEF Drawing

\* The invariant holds from the start and every step keeps it.
THEOREM HoldsInvariant == HoldsSpec => []HoldsInv
<1>1. HoldsInit => HoldsInv
  BY InitStory, InitBooks, InitTold, InitDone, InitDrawing DEF HoldsInv
<1>2. HoldsInv /\ [HoldsNext]_holdsVars => HoldsInv'
  <2> SUFFICES ASSUME HoldsInv, [HoldsNext]_holdsVars PROVE HoldsInv'
    OBVIOUS
  <2>1. Story'
    BY StoryKept DEF HoldsInv
  <2>2. Books'
    BY BooksKept DEF HoldsInv
  <2>3. Told'
    BY ToldKept DEF HoldsInv
  <2>4. Drawing'
    BY <2>1, DrawingKept DEF HoldsInv
  <2>5. DoneIsTold'
    BY DoneKept DEF HoldsInv
  <2> QED BY <2>1, <2>2, <2>3, <2>4, <2>5 DEF HoldsInv
<1> QED BY <1>1, <1>2, PTL DEF HoldsSpec

\* Every variable keeps its type, no hold captures more than it has, and at most one
\* mandate is current.
THEOREM HoldTypesCorrect == HoldsSpec => []HoldsTypeOK
<1>1. HoldsInv => HoldsTypeOK
  <2> SUFFICES ASSUME HoldsInv PROVE HoldsTypeOK
    OBVIOUS
  <2>1. Story /\ Books /\ Drawing
    BY DEF HoldsInv
  <2>2. /\ hstate \in [Holds -> HoldStates]
        /\ \A h \in Holds : captured[h] \in 0..HoldAmount[h] /\ standing[h] <= version[h]
    <3>1. \A h \in Holds : captured[h] \in Nat /\ captured[h] <= HoldAmount[h] /\ HoldAmount[h] \in Nat
      BY <2>1, StoryFacts
    <3> QED BY <2>1, <3>1 DEF Story, HoldTypes
  <2>3. \A h \in Holds : hstate[h] = "captured" => captured[h] = HoldAmount[h]
    BY <2>1 DEF Story, HoldFits
  <2>4. /\ charge \in [ChargeIds -> {"none", "pending", "posted", "failed"}]
        /\ mandate \in [Mandates -> {"none", "current", "revoked", "replaced"}]
    BY <2>1 DEF Drawing, DrawTypes
  <2>5. Cardinality({m \in Mandates : mandate[m] = "current"}) <= 1
    <3> PICK M : M = {m \in Mandates : mandate[m] = "current"}
      OBVIOUS
    <3>1. \A m, n \in M : m = n
      BY <2>1 DEF Drawing, LocksFit
    <3>2. CASE M = {}
      BY <3>2, FS_EmptySet
    <3>3. CASE M # {}
      <4>1. PICK m : M = {m}
        BY <3>1, <3>3
      <4>2. Cardinality(M) = 1
        BY <4>1, FS_Singleton
      <4> QED BY <4>2
    <3> QED BY <3>2, <3>3
  <2>6. free \in Nat
    BY <2>1 DEF Books, BookTypes
  <2> QED BY <2>2, <2>3, <2>4, <2>5, <2>6 DEF HoldsTypeOK
<1> QED BY <1>1, HoldsInvariant, PTL

-----------------------------------------------------------------------------
\* A reservation below one the ledger has is voided.
LEMMA StandsOnce ==
    ASSUME Story, Books, NEW h \in Holds
    PROVE  Cardinality(StandsOnLedger(h)) <= 1
<1> PICK M : M = StandsOnLedger(h)
  OBVIOUS
<1>1. \A u, v \in M : u = v
  <2> SUFFICES ASSUME NEW u \in M, NEW v \in M, u < v PROVE FALSE
    <3>1. M \subseteq Nat
      BY BookFacts DEF StandsOnLedger
    <3> QED BY <3>1
  <2>1. u \in Nat \ {0} /\ v \in reserved[h] /\ v \in Nat /\ u \notin voided[h]
    BY BookFacts DEF StandsOnLedger
  <2>2. u \in 1..(v - 1)
    BY <2>1
  <2> QED BY <2>1, <2>2, BookFacts
<1>2. CASE M = {}
  BY <1>2, FS_EmptySet
<1>3. CASE M # {}
  <2>1. PICK m : M = {m}
    BY <1>1, <1>3
  <2>2. Cardinality(M) = 1
    BY <2>1, FS_Singleton
  <2> QED BY <2>2
<1> QED BY <1>2, <1>3

\* With every event of a hold through, its last row is on the books, and says what the
\* ledger holds and has moved.
LEMMA SettledMatches ==
    ASSUME Story, Books, NEW h \in Holds, h \notin refusedAt, SettledOnLedger(h)
    PROVE  /\ (StandsOnLedger(h) # {}) <=> (Remaining(h) > 0)
           /\ SumOf(taken[h]) = captured[h]
<1>1. HoldFits(h) /\ version[h] \in Nat
  BY StoryFacts DEF Story
<1>2. CASE version[h] = 0
  <2>1. hstate[h] = "none" /\ captured[h] = 0 /\ Remaining(h) = 0
    BY <1>1, <1>2 DEF HoldFits, Remaining
  <2>2. reserved[h] = {} /\ taken[h] = <<>>
    <3>1. \A v \in reserved[h] : v \in 1..0
      BY <1>2, BookFacts
    <3>2. reserved[h] = {}
      BY <3>1
    <3> QED BY <3>2 DEF Books, BookFits
  <2> QED BY <2>1, <2>2, NothingTaken DEF StandsOnLedger
<1>3. CASE version[h] # 0
  <2>1. version[h] \in 1..version[h]
    BY <1>1, <1>3
  <2>2. PICK i \in DOMAIN rows : rows[i].hold = h /\ rows[i].version = version[h]
    BY <1>1, <2>1 DEF HoldFits
  <2> PICK r, v : r = rows[i] /\ v = version[h]
    OBVIOUS
  <2>3. Remaining(h) = Rest(r) /\ captured[h] = Gone(r) /\ Rest(r) \in Nat /\ r \in RowSet /\ RowFits(r)
    BY <1>1, <2>2, StoryFacts DEF HoldFits
  <2>4. On(r, reserved, voided, taken)
    BY <2>2 DEF SettledOnLedger, Books, RowOnBooks
  <2>5. v \notin voided[h] /\ v \in Nat \ {0}
    <3>1. \A w \in voided[h] : w + 1 \in 1..v
      BY BookFacts
    <3> QED BY <1>1, <1>3, <3>1
  <2>6. SumOf(taken[h]) = captured[h]
    BY <2>2, <2>3, <2>4, <2>5 DEF Books, RowOnBooks
  <2>7. CASE Rest(r) > 0
    <3>1. v \in reserved[h]
      BY <2>2, <2>4, <2>7 DEF Books, RowOnBooks
    <3> QED BY <2>3, <2>5, <2>6, <2>7, <3>1 DEF StandsOnLedger
  <2>8. CASE ~(Rest(r) > 0)
    <3>1. ASSUME NEW u \in reserved[h] PROVE u \in voided[h]
      <4>1. PICK k \in DOMAIN rows : rows[k].hold = h /\ rows[k].version = u /\ Rest(rows[k]) > 0
        BY <3>1 DEF Books, BookFits
      <4>2. u # v
        BY <2>2, <2>8, <4>1, OneRowAVersion
      <4>3. u \in 1..v
        BY <3>1, BookFacts
      <4>4. r.kind # "placed" /\ r.kind \in {"placed", "captured", "released"}
        <5>1. r.version = v /\ (r.kind = "placed" => r.version = 1)
          BY <2>2, <2>3 DEF RowFits
        <5> QED BY <2>3, <2>5, <4>2, <4>3, <5>1, RowTypes
      <4>5. v - 1 \in voided[h]
        <5>1. CASE r.kind = "captured"
          <6>1. v \in DOMAIN taken[h]
            BY <2>2, <2>4, <5>1 DEF On
          <6> QED BY <6>1, BookFacts
        <5>2. CASE r.kind = "released"
          <6>1. r.released \in voided[h]
            BY <2>2, <2>4, <5>2 DEF On
          <6>2. r.version = r.released + 1 /\ r.released \in Nat
            BY <2>3, <5>2, RowTypes DEF RowFits
          <6>3. r.released = v - 1
            BY <2>2, <2>5, <6>2
          <6> QED BY <6>1, <6>3
        <5> QED BY <4>4, <5>1, <5>2
      <4>6. CASE u = v - 1
        BY <4>5, <4>6
      <4>7. CASE u # v - 1
        <5>1. v - 1 \in reserved[h]
          BY <4>5, BookFacts
        <5>2. u \in 1..((v - 1) - 1)
          <6>1. u \in 1..v /\ u # v /\ u # v - 1 /\ v \in Nat
            BY <2>5, <4>2, <4>3, <4>7
          <6> QED BY ONLY <6>1, SMT
        <5> QED BY <5>1, <5>2, BookFacts
      <4> QED BY <4>6, <4>7
    <3> QED BY <2>3, <2>6, <2>8, <3>1 DEF StandsOnLedger
  <2> QED BY <2>7, <2>8
<1> QED BY <1>2, <1>3

LEMMA RefusedEmpty ==
    ASSUME Story, Books, Drawing, NEW h \in refusedAt
    PROVE  /\ h \in Holds /\ hstate[h] = "voided" /\ captured[h] = 0
           /\ reserved[h] = {} /\ taken[h] = <<>> /\ \A r \in capRows : r.hold # h
<1>1. h \in Holds /\ h \in ledgerNo
  BY DEF Story, HoldTypes, Books, BookTypes
<1>2. hstate[h] = "voided" /\ captured[h] = 0
  BY <1>1 DEF Story, HoldFits
<1>3. reserved[h] = {} /\ taken[h] = <<>>
  BY <1>1 DEF Books, BookFits
<1>4. \A r \in capRows : r.hold # h
  BY DEF Drawing, DrawTypes
<1> QED BY <1>1, <1>2, <1>3, <1>4

\* Holds and ledger agree: once a hold's events are through, the ledger holds what the hold
\* still holds and has moved what it captured, and never two reservations of one hold stand;
\* a refused reservation has moved nothing; with no mandate in force no hold stands; and the
\* client's stream tells each event once, in the order of the versions but for the events
\* whose rows an operator put back, and each that was carried for good.
THEOREM HoldsAgree == HoldsSpec => []HoldsAreAsTold
<1>1. HoldsInv => HoldsAreAsTold
  <2> SUFFICES ASSUME HoldsInv PROVE HoldsAreAsTold
    OBVIOUS
  <2>1. Story /\ Books /\ Drawing /\ FeedInOrder /\ DoneIsTold
    BY DEF HoldsInv, Told
  <2>2. ClearingMatchesHolds
    <3> SUFFICES ASSUME NEW h \in Holds
                 PROVE  /\ Cardinality(StandsOnLedger(h)) <= 1
                        /\ SettledOnLedger(h) =>
                             /\ (StandsOnLedger(h) # {}) <=> (Remaining(h) > 0)
                             /\ TakenSum(h) = captured[h]
      BY DEF ClearingMatchesHolds
    <3>1. Cardinality(StandsOnLedger(h)) <= 1
      BY <2>1, StandsOnce
    <3>2. TakenSum(h) = SumOf(taken[h])
      BY TakenSumIs
    <3>3. CASE h \in refusedAt
      <4>1. hstate[h] = "voided" /\ captured[h] = 0 /\ reserved[h] = {} /\ taken[h] = <<>>
        BY <2>1, <3>3, RefusedEmpty
      <4>2. StandsOnLedger(h) = {} /\ Remaining(h) = 0 /\ SumOf(taken[h]) = 0
        BY <4>1, NothingTaken DEF StandsOnLedger, Remaining
      <4> QED BY <3>1, <3>2, <4>1, <4>2
    <3>4. CASE h \notin refusedAt
      BY <2>1, <3>1, <3>2, <3>4, SettledMatches
    <3> QED BY <3>3, <3>4
  <2>3. RefusedMovesNothing
    BY <2>1, RefusedEmpty DEF RefusedMovesNothing
  <2>4. RevokeReleasesAll
    BY <2>1 DEF Drawing, LocksFit, RevokeReleasesAll
  <2> QED BY <2>1, <2>2, <2>3, <2>4 DEF HoldsAreAsTold, HoldsMatchLedger
<1> QED BY <1>1, HoldsInvariant, PTL

-----------------------------------------------------------------------------
\* What one step may do to the caps.
DrawStep ==
    /\ \A h \in Holds : hstate[h] = "none" /\ hstate'[h] = "active" =>
           /\ mandate[under'[h]] = "current"
           /\ Outstanding' <= Caps[under'[h]].outstanding
           /\ DrawnNew' <= Caps[under'[h]].day
    /\ \A k \in ChargeIds : charge[k] = "none" /\ charge'[k] = "pending" =>
           \E m \in Mandates : mandate[m] = "current" /\ DrawnNew' <= Caps[m].day
FillStep == \A r \in capRows' \ capRows : r.fill => Filled' <= Caps[under[r.hold]].fill

LEMMA EasedInCaps ==
    ASSUME Eased
    PROVE  DrawStep /\ FillStep
<1>1. \A h \in Holds : HoldEases(h)
  BY DEF Eased, DrawsEase
<1>2. \A h \in Holds : ~(hstate[h] = "none" /\ hstate'[h] = "active")
  BY <1>1 DEF HoldEases
<1>3. \A k \in ChargeIds : ~(charge[k] = "none" /\ charge'[k] = "pending")
  BY DEF Eased, DrawsEase
<1>4. \A r \in capRows' \ capRows : ~r.fill
  BY DEF Eased, FillsEase
<1> QED BY <1>2, <1>3, <1>4 DEF DrawStep, FillStep

LEMMA ReserveInCaps ==
    ASSUME Story, Story', Drawing, NEW c \in Callers, ReserveCommits(c)
    PROVE  DrawStep /\ FillStep
<1> PICK h, m : h = task[c].hold /\ m = task[c].mandate
  OBVIOUS
<1>1. /\ h \in Holds /\ m \in Mandates /\ hstate'[h] = "active" /\ under'[h] = m /\ Others({h})
      /\ mandate[m] = "current" /\ UNCHANGED <<capRows, charge>>
  BY ReserveAdds
<1>2. DrawnNew' <= DrawnNew + HoldAmount[h] /\ Outstanding' <= Outstanding + HoldAmount[h]
  BY ReserveAddsUp
<1>3. /\ Outstanding + HoldAmount[h] <= Caps[m].outstanding
      /\ DrawnNew + HoldAmount[h] <= Caps[m].day
  BY DEF Drawing, DrawFits, ReserveCommits
<1>4. /\ DrawnNew \in Nat /\ DrawnNew' \in Nat /\ Outstanding \in Nat /\ Outstanding' \in Nat
      /\ HoldAmount[h] \in Nat /\ Caps[m].outstanding \in Nat /\ Caps[m].day \in Nat
  BY <1>1, DrawnDoFit, DrawnStillFit, Consts DEF DrawnFacts
<1>5. Outstanding' <= Caps[m].outstanding /\ DrawnNew' <= Caps[m].day
  BY <1>2, <1>3, <1>4
<1>6. \A x \in Holds : hstate[x] = "none" /\ hstate'[x] = "active" => x = h
  BY <1>1 DEF Others
<1>7. \A k \in ChargeIds : ~(charge[k] = "none" /\ charge'[k] = "pending")
  BY <1>1
<1>8. \A r \in capRows' \ capRows : FALSE
  BY <1>1
<1> QED BY <1>1, <1>5, <1>6, <1>7, <1>8 DEF DrawStep, FillStep

LEMMA ChargeInCaps ==
    ASSUME Story, Story', Drawing, NEW c \in Callers, ChargeCommits(c)
    PROVE  DrawStep /\ FillStep
<1> PICK k, m : k = task[c].charge /\ m = task[c].mandate
  OBVIOUS
<1>1. task[c].kind = "charge" /\ charge' = [charge EXCEPT ![k] = "pending"] /\ UNCHANGED <<hstate, capRows>>
  BY DEF ChargeCommits, holdVars
<1>2. k \in ChargeIds /\ m \in Mandates /\ mandate[m] = "current"
  BY <1>1, TaskFacts DEF Drawing, LocksFit, LocksMandate
<1>3. DrawnNew' <= DrawnNew + ChargeAmount[k]
  BY ChargeAddsUp
<1>4. DrawnNew + ChargeAmount[k] <= Caps[m].day
  BY <1>1 DEF Drawing, DrawFits
<1>5. DrawnNew \in Nat /\ DrawnNew' \in Nat /\ ChargeAmount[k] \in Nat /\ Caps[m].day \in Nat
  BY <1>2, DrawnDoFit, DrawnStillFit, Consts DEF DrawnFacts
<1>6. DrawnNew' <= Caps[m].day
  BY <1>3, <1>4, <1>5
<1>7. \A h \in Holds : ~(hstate[h] = "none" /\ hstate'[h] = "active")
  BY <1>1
<1>8. \A r \in capRows' \ capRows : FALSE
  BY <1>1
<1> QED BY <1>2, <1>6, <1>7, <1>8 DEF DrawStep, FillStep

LEMMA FillInCaps ==
    ASSUME Story, Story', Drawing, Drawing', NEW c \in Callers, FillCommits(c)
    PROVE  DrawStep /\ FillStep
<1> PICK h, a : h = task[c].hold /\ a = task[c].amount
  OBVIOUS
<1> PICK r : r = [hold |-> h, version |-> version[h] + 1, amount |-> a, fill |-> TRUE]
  OBVIOUS
<1>1. /\ task[c].kind = "fill" /\ h \in Holds /\ a \in Nat
      /\ (\A x \in Holds : HoldEases(x)) /\ RecordCapture(h, a, TRUE)
      /\ UNCHANGED <<under, charge, aged>>
  BY FillAdds
<1>2. capRows' = capRows \union {r}
  BY <1>1 DEF RecordCapture
<1>3. r \in FillRows /\ r.amount = a /\ r.hold = h
  <2>1. version[h] + 1 \in Nat
    BY <1>1, StoryFacts
  <2> QED BY <1>1, <2>1 DEF FillRows
<1>4. Filled' <= Filled + a
  BY <1>1, <1>2, <1>3, FillAddsUp
<1>5. Filled + a <= Caps[under[h]].fill
  BY <1>1 DEF Drawing, DrawFits
<1>6. Filled \in Nat /\ Caps[under[h]].fill \in Nat
  BY <1>1, DrawnCounts, Consts DEF Drawing, DrawTypes
<1>7. Filled' \in Nat
  <2>1. FillTypes(capRows')
    BY DEF Drawing, DrawTypes, FillTypes, FillRows
  <2>2. aged' \subseteq aged' /\ \A x \in capRows' : x.fill => x \in capRows'
    OBVIOUS
  <2>3. FillsDrawn(capRows', aged') \in Nat
    BY <2>1, <2>2, FillsBelow
  <2> QED BY <2>1, <2>3, DrawsStillAddUp DEF DrawsAddUp, FillTypes
<1>8. Filled' <= Caps[under[h]].fill
  BY <1>1, <1>4, <1>5, <1>6, <1>7
<1>9. FillStep
  BY <1>2, <1>3, <1>8 DEF FillStep
<1>10. \A x \in Holds : ~(hstate[x] = "none" /\ hstate'[x] = "active")
  BY <1>1 DEF HoldEases
<1>11. \A k \in ChargeIds : ~(charge[k] = "none" /\ charge'[k] = "pending")
  BY <1>1
<1> QED BY <1>9, <1>10, <1>11 DEF DrawStep

\* Draws and fills that race each other stay under the user's caps together: each is read
\* under a lock that keeps what it read true until it commits.
THEOREM CapsHold == HoldsSpec => WithinCaps
<1>1. HoldsInv /\ [HoldsNext]_holdsVars => DrawStep /\ FillStep
  <2> SUFFICES ASSUME HoldsInv, [HoldsNext]_holdsVars PROVE DrawStep /\ FillStep
    OBVIOUS
  <2>1. Story /\ Books /\ Drawing /\ Story'
    BY StoryKept DEF HoldsInv
  <2>2. Drawing' /\ (Eased \/ \E c \in Callers : Commits(c))
    BY <2>1, DrawingKept
  <2>3. ASSUME NEW c \in Callers, Commits(c) PROVE DrawStep /\ FillStep
    BY <2>1, <2>2, <2>3, ReserveInCaps, ChargeInCaps, FillInCaps DEF Commits
  <2> QED BY <2>2, <2>3, EasedInCaps
<1>2. HoldsSpec => [][DrawStep]_holdsVars /\ [][FillStep]_holdsVars
  BY <1>1, HoldsInvariant, PTL DEF HoldsSpec
<1> QED BY <1>2 DEF WithinCaps, DrawsWithinCaps, FillsWithinCap, DrawStep, FillStep
=============================================================================
