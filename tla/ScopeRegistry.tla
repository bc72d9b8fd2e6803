---------------------------- MODULE ScopeRegistry ----------------------------
(***************************************************************************)
(* The scope registry and the moves it admits.  One task pulls the         *)
(* identity plane's scope stream after a cursor and writes each snapshot   *)
(* to the scope's row by version; a snapshot this build cannot read is     *)
(* parked and replayed by a later build.  A user's move into the scope     *)
(* decides against that row, under the locks of the user and of the claims *)
(* and with the row held FOR SHARE, and the relay posts it later.          *)
(*                                                                         *)
(* The identity plane is outside this repository: an append-only sequence  *)
(* of snapshots with rising versions, which an operator's restore may cut  *)
(* back and let grow again.  One scope and one user: rows of different     *)
(* scopes share only the cursor and the parked table.                      *)
(***************************************************************************)
EXTENDS Integers, Sequences, FiniteSets, FiniteSetsExt

CONSTANTS RegConsumers,   \* replicas that may follow the stream
          RegMoves,       \* move requests of the user, one idempotency key each
          RegMaxFeed,     \* events the identity plane publishes
          RegKinds,       \* \subseteq {"scope", "odd", "other", "unknown"}
          RegPullLimit,   \* PULL_LIMIT
          RegAmounts,     \* amounts asked for
          RegMain,        \* what the user holds in main at first
          RegMaxPer, RegMaxDay, RegMaxBalance,   \* the policy an operator sets
          RegDay,         \* the rolling window of max_moved_in_24h
          RegMaxTime,
          RegFaults       \* \subseteq {"crash", "lock_lost", "old_build", "page", "rewind", "rewind_unseen", "odd_active", "reopen"}
                          \* "seeded": the scope is one migration 0052 registered, with a policy

VARIABLES rFeed,     \* the stream, by position
          rEra,      \* whether the stream was restored, and behind the cursor
          rCursor,   \* scope_events_cursor: position, last_event_id
          rParked,   \* scope_events_parked
          rRow,      \* the scope's row in scopes
          rPolicy,   \* its row in scope_policies
          rLock,     \* holder of the SCOPE_EVENTS advisory lock
          rBuild,    \* consumers whose build reads every event
          rTask,     \* each consumer: where its cycle stands
          rNow,
          rStanding, \* the user's mirrored standing
          rMove,     \* compartment_moves and the requests deciding
          rClaim     \* the user's claims on the ledger: main, scope

registryVars == <<rFeed, rEra, rCursor, rParked, rRow, rPolicy, rLock, rBuild, rTask>>
moveVars == <<rNow, rStanding, rMove, rClaim>>
rvars == <<registryVars, moveVars>>

States == {"active", "frozen", "closed"}
NoRow == [state |-> "none", version |-> -1]
NoOne == "no one"
Event == [kind : {"scope", "odd", "other", "unknown"}, state : States, version : 1..RegMaxFeed, id : 1..(2 * RegMaxFeed)]
Off == [at |-> "off", kept |-> "unchecked", replayed |-> FALSE, failed |-> FALSE, page |-> <<>>, after |-> 0, todo |-> {}]
NoMove == [at |-> "none", in |-> FALSE, amount |-> 0, since |-> 0, into |-> 0, day |-> 0, state |-> "none"]

IsSnapshot(e) == e.kind \in {"scope", "odd"}

(****************************** The stream *******************************)

\* A snapshot raises the scope's version; CLOSED is terminal on the identity plane, a fault aside.
Publish(kind, state) ==
    LET newest == Max({0} \cup {rFeed[i].version : i \in {j \in 1..Len(rFeed) : IsSnapshot(rFeed[j])}})
        e == [kind |-> kind, state |-> state, version |-> newest + 1, id |-> Len(rFeed) + 1 + (IF rEra = "first" THEN 0 ELSE RegMaxFeed)]
    IN
    /\ Len(rFeed) < RegMaxFeed
    /\ kind \notin {"scope", "odd"} => state = "active" /\ newest > 0
    /\ kind = "odd" /\ state = "active" => "odd_active" \in RegFaults
    /\ \/ "reopen" \in RegFaults
       \/ \A i \in 1..Len(rFeed) : IsSnapshot(rFeed[i]) /\ rFeed[i].state = "closed" => state = "closed"
    /\ rFeed' = Append(rFeed, IF IsSnapshot(e) THEN e ELSE [e EXCEPT !.version = newest])
    /\ UNCHANGED <<rEra, rCursor, rParked, rRow, rPolicy, rLock, rBuild, rTask, moveVars>>

\* A restore from a backup: the newest events are gone and their positions are used again.
Rewind(n) ==
    /\ rEra = "first" /\ n < Len(rFeed)
    /\ \/ "rewind" \in RegFaults /\ \A c \in RegConsumers : rTask[c].at = "off"
       \/ "rewind_unseen" \in RegFaults
    /\ rFeed' = SubSeq(rFeed, 1, n) /\ rEra' = IF n < rCursor.position THEN "behind" ELSE "ahead"
    /\ UNCHANGED <<rCursor, rParked, rRow, rPolicy, rLock, rBuild, rTask, moveVars>>

(***************************** The consumer ******************************)

Goto(c, at) == rTask' = [rTask EXCEPT ![c].at = at]

\* run: follow the stream only under the advisory lock.
Acquire(c) ==
    /\ rTask[c].at = "off" /\ rLock = NoOne
    /\ rLock' = c
    /\ rTask' = [rTask EXCEPT ![c] = [Off EXCEPT !.at = "cycle"]]
    /\ UNCHANGED <<rFeed, rEra, rCursor, rParked, rRow, rPolicy, rBuild, moveVars>>

\* A reaped backend releases the lock without its holder knowing.
LoseLock ==
    /\ "lock_lost" \in RegFaults /\ rLock # NoOne
    /\ rLock' = NoOne
    /\ UNCHANGED <<rFeed, rEra, rCursor, rParked, rRow, rPolicy, rBuild, rTask, moveVars>>

\* follow: parked events are replayed once per tenure, before the first pull.
BeginCycle(c) ==
    /\ rTask[c].at = "cycle"
    /\ rTask' = [rTask EXCEPT ![c] =
           IF @.replayed \/ rParked = {} THEN [@ EXCEPT !.at = "check", !.replayed = TRUE]
           ELSE [@ EXCEPT !.at = "replay", !.todo = rParked, !.failed = FALSE]]
    /\ UNCHANGED <<rFeed, rEra, rCursor, rParked, rRow, rPolicy, rLock, rBuild, moveVars>>

\* check_continuity: the event the cursor stands on must still be at its position.
StandsOn(p, id) == p = 0 \/ (p <= Len(rFeed) /\ rFeed[p].id = id)

Check(c) ==
    /\ rTask[c].at = "check"
    /\ \/ rTask' = [rTask EXCEPT ![c].at = IF StandsOn(rCursor.position, rCursor.id) THEN "pull" ELSE "end",
                                 ![c].kept = IF StandsOn(rCursor.position, rCursor.id) THEN "intact" ELSE "broken"]
       \/ rTask[c].kept = "intact" /\ Goto(c, "pull")     \* checked within CONTINUITY_CHECK_INTERVAL
       \/ rTask[c].kept = "broken" /\ Goto(c, "end")
    /\ UNCHANGED <<rFeed, rEra, rCursor, rParked, rRow, rPolicy, rLock, rBuild, moveVars>>

\* page_fault: a page that skips back, or ends elsewhere than on its last event, is not used.
WellFormed(after, page) ==
    /\ \A i \in 1..Len(page.events) : page.events[i] > (IF i = 1 THEN after ELSE page.events[i - 1])
    /\ page.next = (IF page.events = <<>> THEN after ELSE page.events[Len(page.events)])

\* What the stream answers a pull after a position, and the answers that break its contract.
PageAfter(after) ==
    LET last == Max({after} \cup {Min({after + RegPullLimit, Len(rFeed)})})
    IN  [events |-> [i \in 1..(last - after) |-> after + i], next |-> last]
BadPages(after) ==
    IF "page" \in RegFaults
    THEN {[events |-> <<>>, next |-> after + 1], [PageAfter(after) EXCEPT !.next = @ + 1]} \cup
         (IF after > 0 /\ after <= Len(rFeed) THEN {[events |-> <<after>>, next |-> after]} ELSE {})
    ELSE {}

Followed(c, page) ==
    IF page.events = <<>> \/ ~WellFormed(rCursor.position, page) THEN [rTask[c] EXCEPT !.at = "end"]
    ELSE [rTask[c] EXCEPT !.at = "apply", !.after = rCursor.position, !.page = [i \in 1..Len(page.events) |-> rFeed[page.events[i]]]]

Pull(c) ==
    /\ rTask[c].at = "pull"
    /\ \E page \in {PageAfter(rCursor.position)} \cup BadPages(rCursor.position) :
          rTask' = [rTask EXCEPT ![c] = Followed(c, page)]
    /\ UNCHANGED <<rFeed, rEra, rCursor, rParked, rRow, rPolicy, rLock, rBuild, moveVars>>

\* Whether c's build can name what the event says.
Names(c, e) == c \in rBuild \/ e.kind \in {"scope", "other"}

\* The state a newer snapshot leaves: a closed scope is never reopened.
Written(row, e) == IF row.state = "closed" THEN "closed" ELSE e.state

Newer(row, e) == e.version > row.version

\* apply_scope: what one transaction leaves of the row, and whether it parks the event.
Applied(c, row, e) ==
    CASE e.kind = "other" -> [row |-> row, park |-> FALSE]
      [] e.kind = "unknown" -> [row |-> row, park |-> c \notin rBuild]
      [] row = NoRow /\ Names(c, e) -> [row |-> [state |-> e.state, version |-> e.version], park |-> FALSE]
      [] row = NoRow /\ ~Names(c, e) -> [row |-> [state |-> "frozen", version |-> 0], park |-> TRUE]
      [] row # NoRow /\ ~Newer(row, e) -> [row |-> row, park |-> FALSE]
      [] row # NoRow /\ Newer(row, e) /\ ~Names(c, e) ->
            [row |-> [row EXCEPT !.state = IF @ = "active" THEN "frozen" ELSE @], park |-> TRUE]
      [] OTHER -> [row |-> [state |-> Written(row, e), version |-> e.version], park |-> FALSE]

\* A row a move is deciding against is held FOR SHARE: the writer's FOR UPDATE waits.
RowFree == \A m \in RegMoves : rMove[m].at # "decide"

\* register: a scope's first row comes with a policy closed to moves in (CLOSED_UNTIL_SET_KYC).
RegisterPolicy == IF rPolicy = "none" THEN "closed" ELSE rPolicy

Position(id) == ((id - 1) % RegMaxFeed) + 1
WriteEvent(c, e) ==
    LET result == Applied(c, rRow, e) IN
    /\ rRow # NoRow /\ IsSnapshot(e) => RowFree
    /\ rRow' = result.row
    /\ rPolicy' = IF rRow = NoRow /\ result.row # NoRow THEN RegisterPolicy ELSE rPolicy
    /\ rParked' = IF result.park /\ \A p \in rParked : Position(p) # Position(e.id) THEN rParked \cup {e.id} ELSE rParked

ApplyOne(c) ==
    LET page == rTask[c].page IN
    /\ rTask[c].at = "apply"
    /\ WriteEvent(c, Head(page))
    /\ rTask' = IF Len(page) = 1 THEN [rTask EXCEPT ![c].at = "advance"] ELSE [rTask EXCEPT ![c].page = Tail(page)]
    /\ UNCHANGED <<rFeed, rEra, rCursor, rLock, rBuild, moveVars>>

\* advance_cursor: compare-and-set from where the batch was pulled; a full batch pulls again.
AdvanceCursor(c) ==
    LET last == Head(rTask[c].page).id IN
    /\ rTask[c].at = "advance"
    /\ rCursor' = IF rCursor.position = rTask[c].after THEN [position |-> Position(last), id |-> last] ELSE rCursor
    /\ rTask' = [rTask EXCEPT ![c] = [@ EXCEPT !.page = <<>>,
                     !.at = IF Position(last) - rTask[c].after >= RegPullLimit THEN "pull" ELSE "end"]]
    /\ UNCHANGED <<rFeed, rEra, rParked, rRow, rPolicy, rLock, rBuild, moveVars>>

\* replay_one: re-pull a parked position alone; it must still hold the event parked there.
ReplayOne(c, p) ==
    /\ rTask[c].at = "replay" /\ p \in rTask[c].todo
    /\ IF StandsOn(Position(p), p)
       THEN /\ WriteEvent(c, rFeed[Position(p)])
            /\ rTask' = IF Applied(c, rRow, rFeed[Position(p)]).park THEN [rTask EXCEPT ![c].todo = @ \ {p}]
                        ELSE [rTask EXCEPT ![c].at = "unpark", ![c].after = p]
       ELSE /\ rTask' = [rTask EXCEPT ![c].todo = @ \ {p}]
            /\ UNCHANGED <<rRow, rPolicy, rParked>>
    /\ UNCHANGED <<rFeed, rEra, rCursor, rLock, rBuild, moveVars>>

\* The re-pull of one position failed: it stays parked and the replay stays pending.
ReplayFails(c, p) ==
    /\ "crash" \in RegFaults /\ rTask[c].at = "replay" /\ p \in rTask[c].todo
    /\ rTask' = [rTask EXCEPT ![c].todo = @ \ {p}, ![c].failed = TRUE]
    /\ UNCHANGED <<rFeed, rEra, rCursor, rParked, rRow, rPolicy, rLock, rBuild, moveVars>>

\* The DELETE is a statement of its own, after the commit; by position.
Unpark(c) ==
    /\ rTask[c].at = "unpark"
    /\ rParked' = {p \in rParked : Position(p) # Position(rTask[c].after)}
    /\ rTask' = [rTask EXCEPT ![c].at = "replay", ![c].todo = @ \ {rTask[c].after}]
    /\ UNCHANGED <<rFeed, rEra, rCursor, rRow, rPolicy, rLock, rBuild, moveVars>>

EndReplay(c) ==
    /\ rTask[c].at = "replay" /\ rTask[c].todo = {}
    /\ rTask' = [rTask EXCEPT ![c].at = "check", ![c].replayed = ~rTask[c].failed]
    /\ UNCHANGED <<rFeed, rEra, rCursor, rParked, rRow, rPolicy, rLock, rBuild, moveVars>>

\* After its wait a follower whose lock is gone starts over; another may hold it by now.
EndCycle(c) ==
    /\ rTask[c].at = "end"
    /\ rTask' = [rTask EXCEPT ![c] = IF rLock = c THEN [@ EXCEPT !.at = "cycle"] ELSE Off]
    /\ UNCHANGED <<rFeed, rEra, rCursor, rParked, rRow, rPolicy, rLock, rBuild, moveVars>>

\* A failed statement ends the cycle; what was committed stays.
CycleFails(c) ==
    /\ "crash" \in RegFaults /\ rTask[c].at \in {"check", "pull", "apply", "advance"}
    /\ rTask' = [rTask EXCEPT ![c] = [@ EXCEPT !.at = "end", !.page = <<>>]]
    /\ UNCHANGED <<rFeed, rEra, rCursor, rParked, rRow, rPolicy, rLock, rBuild, moveVars>>

\* A restart, possibly into the build that reads every event.
Restart(c) ==
    /\ "crash" \in RegFaults \/ c \notin rBuild
    /\ rTask[c].at # "off" \/ c \notin rBuild
    /\ rTask' = [rTask EXCEPT ![c] = Off]
    /\ rLock' = IF rLock = c THEN NoOne ELSE rLock
    /\ rBuild' \in {rBuild, rBuild \cup {c}}
    /\ UNCHANGED <<rFeed, rEra, rCursor, rParked, rRow, rPolicy, moveVars>>

(******************************* The moves *******************************)

Pending(in) == {m \in RegMoves : rMove[m].state = "pending" /\ rMove[m].in = in}
SumOf(S) == MapThenSumSet(LAMBDA m : rMove[m].amount, S)
UserLockFree == \A m \in RegMoves : rMove[m].at # "decide"

\* created_at is the transaction's start: it may wait for the locks while the clock runs.
Ask(m, in, a) ==
    /\ rMove[m].at = "none" /\ rRow # NoRow
    /\ rMove' = [rMove EXCEPT ![m] = [NoMove EXCEPT !.at = "wait", !.in = in, !.amount = a, !.since = rNow]]
    /\ UNCHANGED <<registryVars, rNow, rStanding, rClaim>>

\* record_move, locks taken: the sums of recorded moves and the row, held FOR SHARE.
InLast24h(m) ==
    {k \in RegMoves : rMove[k].in /\ rMove[k].state \in {"pending", "posted"} /\ rMove[k].since > rMove[m].since - RegDay}
LockAndSum(m) ==
    /\ rMove[m].at = "wait" /\ UserLockFree
    /\ rMove' = [rMove EXCEPT ![m] = IF @.in /\ (rRow.state # "active" \/ rStanding = "blocked")
                                     THEN [@ EXCEPT !.at = "refused"]
                                     ELSE [@ EXCEPT !.at = "decide", !.into = SumOf(Pending(TRUE)), !.day = SumOf(InLast24h(m))]]
    /\ UNCHANGED <<registryVars, rNow, rStanding, rClaim>>

\* Spendable is the ledger's balance, read after the recorded and unapplied debits.
Covers(m) == rClaim[IF rMove[m].in THEN "main" ELSE "scope"] - SumOf(Pending(rMove[m].in)) >= rMove[m].amount

PolicyAdmitsNoPending(m) ==
    LET r == rMove[m] IN
    /\ rPolicy = "set"
    /\ r.amount <= RegMaxPer
    /\ r.day + r.amount <= RegMaxDay
    /\ rClaim.scope + r.amount <= RegMaxBalance

\* admit_move_in: the facts against the policy.
PolicyAdmits(m) ==
    LET r == rMove[m] IN
    /\ rPolicy = "set"
    /\ r.amount <= RegMaxPer
    /\ r.day + r.amount <= RegMaxDay
    /\ rClaim.scope + r.into + r.amount <= RegMaxBalance

Admit(m) ==
    /\ rMove[m].at = "decide"
    /\ rMove' = [rMove EXCEPT ![m] = IF Covers(m) /\ (@.in => PolicyAdmits(m))
                                     THEN [@ EXCEPT !.at = "recorded", !.state = "pending"]
                                     ELSE [@ EXCEPT !.at = "refused"]]
    /\ UNCHANGED <<registryVars, rNow, rStanding, rClaim>>

\* The relay: the transfer first, the posted stamp in a statement of its own.
PostMove(m) ==
    LET r == rMove[m]
        from == IF r.in THEN "main" ELSE "scope"
        to == IF r.in THEN "scope" ELSE "main"
    IN
    /\ r.state = "pending" /\ r.at = "recorded"
    /\ IF rClaim[from] >= r.amount
       THEN /\ rClaim' = [rClaim EXCEPT ![from] = @ - r.amount, ![to] = @ + r.amount]
            /\ rMove' = [rMove EXCEPT ![m].at = "moved"]
       ELSE /\ rMove' = [rMove EXCEPT ![m].at = "refused", ![m].state = "failed"]
            /\ UNCHANGED rClaim
    /\ UNCHANGED <<registryVars, rNow, rStanding>>

MarkPosted(m) ==
    /\ rMove[m].at = "moved" /\ rMove[m].state = "pending"
    /\ rMove' = [rMove EXCEPT ![m].state = "posted"]
    /\ UNCHANGED <<registryVars, rNow, rStanding, rClaim>>

\* The operator sets the scope's policy (docs/RUNBOOK-scope-policy.md).
SetPolicy ==
    /\ rPolicy = "closed" /\ rPolicy' = "set"
    /\ UNCHANGED <<rFeed, rEra, rCursor, rParked, rRow, rLock, rBuild, rTask, moveVars>>

\* The lifecycle bridge mirrors a suspension.
Block ==
    /\ RegMoves # {} /\ rStanding = "clear" /\ rStanding' = "blocked"
    /\ UNCHANGED <<registryVars, rNow, rMove, rClaim>>

Tick ==
    /\ rNow < RegMaxTime /\ rNow' = rNow + 1
    /\ UNCHANGED <<registryVars, rStanding, rMove, rClaim>>

RegInit ==
    /\ rFeed = <<>> /\ rEra = "first" /\ rCursor = [position |-> 0, id |-> 0] /\ rParked = {}
    /\ rRow = (IF "seeded" \in RegFaults THEN [state |-> "active", version |-> 0] ELSE NoRow)
    /\ rPolicy = (IF "seeded" \in RegFaults THEN "set" ELSE "none")
    /\ rLock = NoOne
    /\ rBuild = (IF "old_build" \in RegFaults THEN {} ELSE RegConsumers)
    /\ rTask = [c \in RegConsumers |-> Off]
    /\ rNow = 0 /\ rStanding = "clear"
    /\ rMove = [m \in RegMoves |-> NoMove]
    /\ rClaim = [main |-> RegMain, scope |-> 0]

ConsumerStep(c) ==
    \/ Acquire(c) \/ BeginCycle(c) \/ Check(c) \/ Pull(c) \/ ApplyOne(c) \/ AdvanceCursor(c)
    \/ Unpark(c) \/ EndReplay(c) \/ EndCycle(c) \/ CycleFails(c) \/ Restart(c)
    \/ \E p \in rTask[c].todo : ReplayOne(c, p) \/ ReplayFails(c, p)

MoveStep(m) ==
    \/ \E in \in BOOLEAN, a \in RegAmounts : Ask(m, in, a)
    \/ LockAndSum(m) \/ Admit(m) \/ PostMove(m) \/ MarkPosted(m)

RegNext ==
    \/ \E kind \in RegKinds, state \in States : Publish(kind, state)
    \/ \E n \in 0..(RegMaxFeed - 1) : Rewind(n)
    \/ \E c \in RegConsumers : ConsumerStep(c)
    \/ \E m \in RegMoves : MoveStep(m)
    \/ LoseLock \/ SetPolicy \/ Block \/ Tick

RegSpec == RegInit /\ [][RegNext]_rvars

(****************************** Properties *******************************)

\* The registry, the parked events, the tasks and the moves have the shapes their tables give.
RegTypeOK ==
    /\ rFeed \in Seq(Event) /\ Len(rFeed) <= RegMaxFeed /\ rEra \in {"first", "ahead", "behind"}
    /\ rCursor \in [position : 0..RegMaxFeed, id : 0..(2 * RegMaxFeed)]
    /\ rParked \subseteq 1..(2 * RegMaxFeed)
    /\ rRow = NoRow \/ rRow \in [state : States, version : 0..RegMaxFeed]
    /\ rPolicy \in {"none", "closed", "set"} /\ (rRow # NoRow => rPolicy # "none")
    /\ rLock \in RegConsumers \cup {NoOne} /\ rBuild \subseteq RegConsumers
    /\ rStanding \in {"clear", "blocked"} /\ rNow \in 0..RegMaxTime
    /\ \A m \in RegMoves : rMove[m].state \in {"none", "pending", "posted", "failed"}
    /\ rClaim.main >= 0 /\ rClaim.scope >= 0

Consumed == {rFeed[i] : i \in 1..Min({rCursor.position, Len(rFeed)})}

\* Nothing the cursor has passed is lost or undone (scope_events.rs): every snapshot behind it is in
\* the row or parked for a build that can read it, the row takes money in only on the word of the
\* newest snapshot it was told of, and a scope once closed stays closed.
RegistryFollowsStream ==
    rEra = "first" =>
        /\ \A e \in Consumed : IsSnapshot(e) => e.version <= rRow.version \/ e.id \in rParked
        /\ rRow.state = "active" => \A e \in Consumed : IsSnapshot(e) /\ e.version >= rRow.version => e.state = "active" /\ e.version = rRow.version
        /\ (\E i \in 1..Len(rFeed) : rFeed[i].kind = "scope" /\ rFeed[i].state = "closed" /\ rFeed[i].version <= rRow.version)
              => rRow.state = "closed"
        /\ rRow.version > 0 => rRow.state \in {"frozen", "closed"} \/
              \E i \in 1..Len(rFeed) : rFeed[i].version = rRow.version /\ rFeed[i].state = rRow.state

\* A stream cut back behind the cursor while no consumer was following it is never followed
\* (check_continuity): the cursor stays on the event it stood on, whatever the stream grows to, and
\* no event published after the restore is applied.
RewoundIsHeld ==
    rEra = "behind" =>
        /\ rCursor.id <= RegMaxFeed
        /\ \A c \in RegConsumers : \A i \in 1..Len(rTask[c].page) : rTask[c].page[i].id <= RegMaxFeed

\* No move in is admitted past the policy however moves interleave with each other and with the
\* relay: the compartment never holds more than max_balance, and no 24 hours of recorded moves
\* in exceed max_moved_in_24h (compartments.rs, admit_move_in).
MovesWithinPolicy ==
    /\ rClaim.scope + SumOf({m \in Pending(TRUE) : rMove[m].at = "recorded"}) <= RegMaxBalance
    /\ \A t \in 0..RegMaxTime :
          SumOf({m \in RegMoves : rMove[m].in /\ rMove[m].state \in {"pending", "posted"}
                                  /\ rMove[m].since > t - RegDay /\ rMove[m].since <= t}) <= RegMaxDay

\* A freeze that has committed stops every move in not yet recorded (FOR UPDATE against FOR SHARE):
\* a move in is recorded only while the row says active.
RecordedWhileActive ==
    \A m \in RegMoves : rMove[m].in /\ rMove'[m].state = "pending" /\ rMove[m].state = "none"
        => rRow.state = "active" /\ rPolicy = "set"
=============================================================================
