------------------------------ MODULE Identity ------------------------------
(***************************************************************************)
(* Who a user is and which sessions stand.  The lifecycle bridge pulls the *)
(* identity plane's events (suspended, reinstated, role, sessions revoked) *)
(* after one global cursor and mirrors them on the users row; an event of  *)
(* a subject without a row is parked and replayed.  The auth plane issues  *)
(* refresh families against the row, rotates their secrets, and ends them  *)
(* when a rotated secret comes back, when the user is disabled, or when    *)
(* the revocation floor has moved past the family.                         *)
(*                                                                         *)
(* The identity plane is outside this repository: its feed is an           *)
(* append-only sequence of events, numbered per user.  Addresses, names    *)
(* and tiers are left out: they are mirrored exactly like the role.        *)
(***************************************************************************)
EXTENDS Integers, Sequences, FiniteSets, FiniteSetsExt

CONSTANTS IdUsers, IdConsumers, IdCalls, IdFamilies,
          IdMaxFeed,      \* events the identity plane publishes
          IdKinds,        \* kinds it publishes
          IdPullLimit,    \* events of one pull (PULL_LIMIT)
          IdMaxSecrets,   \* secrets of one family that are ever presented
          IdOps,          \* requests clients make
          IdFaults        \* \subseteq {"crash", "old_build", "stuck", "bump_lost", "no_created", "disable"}
                          \* "redis": families are kept in Redis, not in the process

VARIABLES iFeed,     \* published events, by position
          iCursor,   \* bridge_cursor.position
          iRow,      \* users, by auth_subject
          iParked,   \* bridge_deferred_event: positions
          iRoster,   \* governance_roster_change rows per user
          iBuild,    \* whether this build reads every kind
          iTask,     \* each consumer: where its drain stands
          iFam,      \* refresh families
          iIndex,    \* refresh:user:<id>, the families revoke_user reads
          iCall      \* one request each to the auth service

ivars == <<iFeed, iCursor, iRow, iParked, iRoster, iBuild, iTask, iFam, iIndex, iCall>>
bridgeVars == <<iFeed, iCursor, iParked, iRoster, iBuild, iTask>>
authVars == <<iFam, iIndex, iCall>>

Positions == 1..IdMaxFeed
Kinds == {"created", "suspended", "reinstated", "role", "other", "revoked"}
Event == [user : IdUsers, seq : Positions, kind : Kinds, owner : BOOLEAN, version : 0..IdMaxFeed]
UserRow == [seq : -1..IdMaxFeed, frozen : BOOLEAN, owner : BOOLEAN, disabled : BOOLEAN,
            floor : 0..IdMaxFeed, own : 0..Cardinality(IdCalls)]
Idle == [at |-> "idle", after |-> 0, next |-> 0, to |-> 0, list |-> {}, blocked |-> FALSE, more |-> FALSE]
FirstSecret == 1

EventsOf(u) == {i \in 1..Len(iFeed) : iFeed[i].user = u}
Provisioned(u) == iRow[u].seq >= 0

(***************************** The users row ******************************)

\* The row first sign-in inserts: banking knows nothing of the subject's events yet.
NewUser(seq, owner) ==
    [seq |-> seq, frozen |-> FALSE, owner |-> owner, disabled |-> FALSE, floor |-> 0, own |-> 0]
Absent == NewUser(-1, FALSE)

\* What an operation may read of a user: both revocation surfaces, both ways to be shut out.
Version(u) == IF iRow[u].floor > iRow[u].own THEN iRow[u].floor ELSE iRow[u].own
ShutOut(u) == iRow[u].frozen \/ iRow[u].disabled

Provision(u) ==
    /\ ~Provisioned(u)
    /\ iRow' = [iRow EXCEPT ![u] = NewUser(0, FALSE)]
    /\ UNCHANGED <<bridgeVars, authVars>>

Disable(u) ==
    /\ "disable" \in IdFaults /\ Provisioned(u) /\ ~iRow[u].disabled
    /\ iRow' = [iRow EXCEPT ![u].disabled = TRUE]
    /\ UNCHANGED <<bridgeVars, authVars>>

(******************************* The bridge *******************************)

\* The identity plane publishes one more event of u.  CREATED comes first, unless it fell out
\* of the outbox's window before banking was deployed.
Publish(u, kind) ==
    LET n == Cardinality(EventsOf(u)) + 1
        revoked == Cardinality({i \in EventsOf(u) : iFeed[i].kind = "revoked"})
    IN  /\ Len(iFeed) < IdMaxFeed
        /\ kind = "created" => n = 1
        /\ (n = 1 /\ "no_created" \notin IdFaults) => kind = "created"
        /\ \E owner \in IF kind \in {"created", "role"} THEN BOOLEAN ELSE {FALSE} :
               iFeed' = Append(iFeed, [user |-> u, seq |-> n, kind |-> kind, owner |-> owner,
                                       version |-> IF kind = "revoked" THEN revoked + 1 ELSE 0])
        /\ UNCHANGED <<iCursor, iRow, iParked, iRoster, iBuild, iTask, authVars>>

\* A build of before a kind was introduced cannot name it.
Readable(e) == iBuild \/ e.kind # "suspended"

Pull(c) ==
    LET last == IF Len(iFeed) < iCursor + IdPullLimit THEN Len(iFeed) ELSE iCursor + IdPullLimit
    IN  /\ iTask[c].at = "idle"
        /\ last > iCursor
        /\ iTask' = [iTask EXCEPT ![c] = [Idle EXCEPT !.at = "apply", !.after = iCursor, !.next = iCursor + 1,
                                              !.to = last, !.more = last - iCursor >= IdPullLimit]]
        /\ UNCHANGED <<iFeed, iCursor, iRow, iParked, iRoster, iBuild, authVars>>

\* The event a consumer applies now, and whether an earlier one of its subject is parked.
Current(c) == iTask[c].next
Blocked(i) == \E j \in iParked : iFeed[j].user = iFeed[i].user /\ iFeed[j].seq < iFeed[i].seq

ReadBlocked(c) ==
    /\ iTask[c].at \in {"apply", "replay"}
    /\ LET i == Current(c)
           step == IF iTask[c].at = "apply" THEN "write" ELSE "rewrite"
       IN  IF Readable(iFeed[i])
           THEN iTask' = [iTask EXCEPT ![c].at = step, ![c].blocked = Blocked(i)]
           ELSE iTask' = [iTask EXCEPT ![c] = [Idle EXCEPT !.at = "scan"]]   \* wedged: the cursor stays
    /\ UNCHANGED <<iFeed, iCursor, iRow, iParked, iRoster, iBuild, authVars>>

\* The row once e is mirrored on it.
Mirrored(row, e) ==
    [row EXCEPT !.seq = e.seq,
                !.frozen = CASE e.kind = "suspended" -> TRUE [] e.kind = "reinstated" -> FALSE [] OTHER -> @,
                !.owner = IF e.kind \in {"created", "role"} THEN e.owner ELSE @,
                !.floor = IF e.kind = "revoked" /\ e.version > @ THEN e.version ELSE @]

Newer(row, e) == e.seq > row.seq

\* What one transaction leaves: the row, the parked events, the roster changes.
Parks(c, u, e) == iTask[c].blocked \/ (~Provisioned(u) /\ e.kind # "created")

ApplyTo(c, i) ==
    LET e == iFeed[i]
        u == e.user
        before == iRow[u].owner
        after == IF ~Provisioned(u) THEN NewUser(e.seq, e.owner)
                 ELSE IF ~Newer(iRow[u], e) THEN iRow[u] ELSE Mirrored(iRow[u], e)
    IN  IF Parks(c, u, e)
        THEN /\ iParked' = iParked \cup {i}
             /\ UNCHANGED <<iRow, iRoster>>
        ELSE /\ iRow' = [iRow EXCEPT ![u] = after]
             /\ iRoster' = [iRoster EXCEPT ![u] = IF after.owner # before THEN @ + 1 ELSE @]
             /\ UNCHANGED iParked

Write(c) ==
    LET i == Current(c) IN
    /\ iTask[c].at = "write"
    /\ ApplyTo(c, i)
    /\ iTask' = IF i = iTask[c].to THEN [iTask EXCEPT ![c].at = "advance"]
                ELSE [iTask EXCEPT ![c].at = "apply", ![c].next = i + 1]
    /\ UNCHANGED <<iFeed, iCursor, iBuild, authVars>>

\* Compare-and-set, after every event of the batch.
AdvanceCursor(c) ==
    LET t == iTask[c] IN
    /\ t.at = "advance"
    /\ iCursor' = IF iCursor = t.after THEN t.to ELSE iCursor
    /\ iTask' = [iTask EXCEPT ![c] = [Idle EXCEPT !.at = "scan", !.more = t.more]]
    /\ UNCHANGED <<iFeed, iRow, iParked, iRoster, iBuild, authVars>>

\* The server returned events and no newer position: applied, and the drain ends.
Stuck(c) ==
    /\ "stuck" \in IdFaults /\ iTask[c].at = "advance"
    /\ iTask' = [iTask EXCEPT ![c] = [Idle EXCEPT !.at = "scan"]]
    /\ UNCHANGED <<iFeed, iCursor, iRow, iParked, iRoster, iBuild, authVars>>

\* replay_deferred takes the parked events of subjects with a row, in sequence order per subject.
Task(t, list) ==
    IF list = {} THEN Idle
    ELSE [t EXCEPT !.at = "replay", !.list = list, !.next = Min(list)]

ScanParked(c) ==
    /\ iTask[c].at = "scan"
    /\ iTask' = [iTask EXCEPT ![c] = Task(Idle, {j \in iParked : Provisioned(iFeed[j].user)})]
    /\ UNCHANGED <<iFeed, iCursor, iRow, iParked, iRoster, iBuild, authVars>>

Replay(c) ==
    LET i == Current(c) IN
    /\ iTask[c].at = "rewrite"
    /\ ApplyTo(c, i)
    /\ iTask' = IF Parks(c, iFeed[i].user, iFeed[i])
                THEN [iTask EXCEPT ![c] = Task(@, @.list \ {i})]
                ELSE [iTask EXCEPT ![c].at = "drop"]
    /\ UNCHANGED <<iFeed, iCursor, iBuild, authVars>>

\* The parked row is deleted by a statement of its own, after the commit.
DropParked(c) ==
    LET i == Current(c) IN
    /\ iTask[c].at = "drop"
    /\ iParked' = iParked \ {i}
    /\ iTask' = [iTask EXCEPT ![c] = Task(@, @.list \ {i})]
    /\ UNCHANGED <<iFeed, iCursor, iRow, iRoster, iBuild, authVars>>

\* A failed call or a restart between two statements: the next cycle starts from the cursor.
CycleFails(c) ==
    /\ "crash" \in IdFaults /\ iTask[c].at # "idle"
    /\ iTask' = [iTask EXCEPT ![c] = Idle]
    /\ UNCHANGED <<iFeed, iCursor, iRow, iParked, iRoster, iBuild, authVars>>

Upgrade ==
    /\ ~iBuild /\ iBuild' = TRUE
    /\ iTask' = [c \in IdConsumers |-> Idle]
    /\ UNCHANGED <<iFeed, iCursor, iRow, iParked, iRoster, authVars>>

\* A cycle with nothing to pull still replays.
PullNothing(c) ==
    /\ iTask[c].at = "idle" /\ iCursor = Len(iFeed)
    /\ \E j \in iParked : Provisioned(iFeed[j].user)
    /\ iTask' = [iTask EXCEPT ![c].at = "scan"]
    /\ UNCHANGED <<iFeed, iCursor, iRow, iParked, iRoster, iBuild, authVars>>

(****************************** The sessions ******************************)

\* Secrets of a family are numbered: the current one, the one it replaced (prev), older ones.
NoFamily == [state |-> "none", user |-> CHOOSE u \in IdUsers : TRUE, secret |-> 0, version |-> 0, born |-> 0]
Family == [state : {"none", "live", "expired", "gone"}, user : IdUsers, secret : 0..(IdMaxSecrets + 1),
           version : 0..(IdMaxFeed + Cardinality(IdCalls)), born : 0..(IdMaxFeed + Cardinality(IdCalls))]
Fresh == [op |-> "none", at |-> "none", family |-> CHOOSE f \in IdFamilies : TRUE, secret |-> 0,
          user |-> CHOOSE u \in IdUsers : TRUE, version |-> 0, seen |-> 0, shut |-> FALSE, replayed |-> FALSE, list |-> {}, reply |-> "none"]
Ops == {"signin", "refresh", "logout", "logout_all", "revoke_session", "list"}

Kept(f) == iFam[f].state \in {"live", "expired"}
Inspect(f, s) == IF Kept(f) /\ s = iFam[f].secret THEN "current"
                 ELSE IF Kept(f) /\ s = iFam[f].secret - 1 THEN "reuse" ELSE "invalid"

Step(k, at) == iCall' = [iCall EXCEPT ![k].at = at]
Reply(k, answer) == iCall' = [iCall EXCEPT ![k].at = "done", ![k].reply = answer]

\* concierge_user_id is learnt from CREATED; until then issuance cannot resolve the user.
Linked(u) == Provisioned(u) /\ iRow[u].seq >= 1 /\ \E i \in EventsOf(u) : iFeed[i].kind = "created"

Resolve(k, u) ==
    /\ iCall[k].op = "none" /\ Linked(u)
    /\ iCall' = [iCall EXCEPT ![k] =
           [Fresh EXCEPT !.op = "signin", !.user = u, !.version = Version(u), !.seen = iRow[u].floor + iRow[u].own,
                         !.at = IF ShutOut(u) THEN "done" ELSE "issue",
                         !.reply = IF ShutOut(u) THEN "denied" ELSE "none"]]
    /\ UNCHANGED <<bridgeVars, iRow, iFam, iIndex>>

Issue(k, f) ==
    /\ iCall[k].at = "issue" /\ iFam[f].state = "none"
    /\ iFam' = [iFam EXCEPT ![f] = [state |-> "live", user |-> iCall[k].user, secret |-> FirstSecret,
                                    version |-> iCall[k].version, born |-> iCall[k].seen]]
    /\ iIndex' = [iIndex EXCEPT ![iCall[k].user] = @ \cup {f}]
    /\ Reply(k, "minted")
    /\ UNCHANGED <<bridgeVars, iRow>>

\* A client presents a secret it was once given.
Present(k, op, f, s) ==
    LET u == iFam[f].user
        found == Inspect(f, s)
        next == CASE found = "current" /\ op = "refresh" -> "lookup"
                  [] found = "current" /\ op = "logout" -> "delete"
                  [] found = "current" /\ op = "logout_all" -> "bump"
                  [] found = "current" /\ op = "revoke_session" -> "pick"
                  [] found = "current" /\ op = "list" -> "prune"
                  [] found = "reuse" /\ op = "refresh" -> "members"
                  [] OTHER -> "done"
    IN  /\ iCall[k].op = "none" /\ iFam[f].state # "none" /\ s \in FirstSecret..iFam[f].secret
        /\ iCall' = [iCall EXCEPT ![k] =
               [Fresh EXCEPT !.op = op, !.family = f, !.secret = s, !.user = u, !.at = next,
                             !.seen = Version(u), !.shut = ShutOut(u),
                             !.replayed = Kept(f) /\ s = iFam[f].secret - 1,
                             !.reply = IF next = "members" THEN "reuse" ELSE IF next = "done" THEN "invalid" ELSE "none"]]
        /\ UNCHANGED <<bridgeVars, iRow, iFam, iIndex>>

Lookup(k) ==
    LET u == iCall[k].user IN
    /\ iCall[k].at = "lookup"
    /\ iCall' = [iCall EXCEPT ![k].version = Version(u),
                              ![k].at = IF ShutOut(u) THEN "members" ELSE "rotate",
                              ![k].reply = IF ShutOut(u) THEN "denied" ELSE "none"]
    /\ UNCHANGED <<bridgeVars, iRow, iFam, iIndex>>

\* A "revoke all" since the family was issued has moved the version past its snapshot.
OutdatedNever(k, f) == FALSE
Outdated(k, f) == iCall[k].version > iFam[f].version

\* The store's rotation is one script; what follows it in the handler reads only its answer.
Rotate(k) ==
    LET f == iCall[k].family
        s == iCall[k].secret
    IN  /\ iCall[k].at = "rotate"
        /\ CASE iFam[f].state = "expired" ->
                  iFam' = [iFam EXCEPT ![f].state = "gone"] /\ Reply(k, "invalid")
             [] iFam[f].state = "live" /\ s = iFam[f].secret ->
                  /\ iFam' = [iFam EXCEPT ![f].secret = s + 1]
                  /\ IF Outdated(k, f)
                     THEN iCall' = [iCall EXCEPT ![k].at = "members", ![k].reply = "revoked"]
                     ELSE Reply(k, "minted")
             [] iFam[f].state = "live" /\ s = iFam[f].secret - 1 ->
                  iCall' = [iCall EXCEPT ![k].at = "delete", ![k].reply = "reuse"] /\ UNCHANGED iFam
             [] OTHER -> Reply(k, "invalid") /\ UNCHANGED iFam
        /\ UNCHANGED <<bridgeVars, iRow, iIndex>>

\* delete_family: the family's hash and its entry in the user's index.
DeleteFamily(k) ==
    LET f == iCall[k].family IN
    /\ iCall[k].at = "delete"
    /\ iFam' = [iFam EXCEPT ![f].state = "gone"]
    /\ iIndex' = [iIndex EXCEPT ![iCall[k].user] = @ \ {f}]
    /\ iCall' = [iCall EXCEPT ![k].at = "done"]
    /\ UNCHANGED <<bridgeVars, iRow>>

\* revoke_user in the process: every family of the user, under one lock.
RevokeUser(k) ==
    LET u == iCall[k].user IN
    /\ iCall[k].at = "members" /\ "redis" \notin IdFaults
    /\ iFam' = [f \in IdFamilies |-> IF iFam[f].user = u /\ Kept(f) THEN [iFam[f] EXCEPT !.state = "gone"] ELSE iFam[f]]
    /\ iIndex' = [iIndex EXCEPT ![u] = {}]
    /\ iCall' = [iCall EXCEPT ![k].at = "done"]
    /\ UNCHANGED <<bridgeVars, iRow>>

\* revoke_user in Redis reads the index, then deletes what it read and the whole index: a
\* family issued in between stays, and is in no index.
ReadMembers(k) ==
    /\ iCall[k].at = "members" /\ "redis" \in IdFaults
    /\ iCall' = [iCall EXCEPT ![k].at = "purge", ![k].list = iIndex[iCall[k].user]]
    /\ UNCHANGED <<bridgeVars, iRow, iFam, iIndex>>

PurgeMembers(k) ==
    /\ iCall[k].at = "purge"
    /\ iFam' = [f \in IdFamilies |-> IF f \in iCall[k].list THEN [iFam[f] EXCEPT !.state = "gone"] ELSE iFam[f]]
    /\ iIndex' = [iIndex EXCEPT ![iCall[k].user] = {}]
    /\ iCall' = [iCall EXCEPT ![k].at = "done", ![k].list = {}]
    /\ UNCHANGED <<bridgeVars, iRow>>

\* logout everywhere: the durable half may fail, the store's half is done regardless.
BumpVersion(k) ==
    /\ iCall[k].at = "bump"
    /\ \/ iRow' = [iRow EXCEPT ![iCall[k].user].own = @ + 1]
       \/ "bump_lost" \in IdFaults /\ UNCHANGED iRow
    /\ Step(k, "members")
    /\ UNCHANGED <<bridgeVars, iFam, iIndex>>

\* A listed session of the caller's own is ended by its id.
PickSession(k) ==
    /\ iCall[k].at = "pick"
    /\ \/ \E g \in iIndex[iCall[k].user] :
              iCall' = [iCall EXCEPT ![k].at = "delete", ![k].family = g]
       \/ Reply(k, "invalid")
    /\ UNCHANGED <<bridgeVars, iRow, iFam, iIndex>>

\* Listing the sessions drops index entries whose family is gone.
PruneIndex(k) ==
    LET u == iCall[k].user IN
    /\ iCall[k].at = "prune"
    /\ iIndex' = [iIndex EXCEPT ![u] = {f \in @ : Kept(f)}]
    /\ Reply(k, "listed")
    /\ UNCHANGED <<bridgeVars, iRow, iFam>>

\* The sliding, idle or absolute bound of a family passes.
Expire(f) ==
    /\ iFam[f].state = "live"
    /\ iFam' = [iFam EXCEPT ![f].state = "expired"]
    /\ UNCHANGED <<bridgeVars, iRow, iIndex, iCall>>

(*************************** The specification ****************************)

IdInit ==
    /\ iFeed = <<>> /\ iCursor = 0 /\ iParked = {}
    /\ iRow = [u \in IdUsers |-> Absent]
    /\ iRoster = [u \in IdUsers |-> 0]
    /\ iBuild = ("old_build" \notin IdFaults)
    /\ iTask = [c \in IdConsumers |-> Idle]
    /\ iFam = [f \in IdFamilies |-> NoFamily]
    /\ iIndex = [u \in IdUsers |-> {}]
    /\ iCall = [k \in IdCalls |-> Fresh]

IdNext ==
    \/ \E u \in IdUsers : Provision(u) \/ Disable(u) \/ \E kind \in IdKinds : Publish(u, kind)
    \/ \E c \in IdConsumers : \/ Pull(c) \/ PullNothing(c) \/ ReadBlocked(c) \/ Write(c) \/ AdvanceCursor(c)
                              \/ Stuck(c) \/ ScanParked(c) \/ Replay(c) \/ DropParked(c) \/ CycleFails(c)
    \/ Upgrade
    \/ \E k \in IdCalls :
          \/ "signin" \in IdOps /\ \E u \in IdUsers : Resolve(k, u)
          \/ \E f \in IdFamilies : Issue(k, f)
          \/ \E op \in IdOps \ {"signin"}, f \in IdFamilies, s \in FirstSecret..IdMaxSecrets : Present(k, op, f, s)
          \/ Lookup(k) \/ Rotate(k) \/ DeleteFamily(k) \/ RevokeUser(k) \/ ReadMembers(k) \/ PurgeMembers(k)
          \/ BumpVersion(k) \/ PickSession(k) \/ PruneIndex(k)
    \/ \E f \in IdFamilies : Expire(f)

IdSpec == IdInit /\ [][IdNext]_ivars

(****************************** Properties ********************************)

\* The types of the feed, the users rows, the consumers, the families and the requests.
IdTypeOK ==
    /\ iFeed \in Seq(Event) /\ iCursor \in 0..Len(iFeed)
    /\ iRow \in [IdUsers -> UserRow]
    /\ iParked \subseteq 1..Len(iFeed)
    /\ iRoster \in [IdUsers -> 0..IdMaxFeed]
    /\ iFam \in [IdFamilies -> Family]
    /\ iIndex \in [IdUsers -> SUBSET IdFamilies]
    /\ \A k \in IdCalls : iCall[k].op \in Ops \cup {"none"} /\ iCall[k].family \in IdFamilies

\* The last event of u of one of the kinds, among the first n of u.
LastOf(u, kinds, n) ==
    LET is == {i \in EventsOf(u) : iFeed[i].kind \in kinds /\ iFeed[i].seq <= n}
    IN  IF is = {} THEN [kind |-> "none", owner |-> FALSE, version |-> 0] ELSE iFeed[Max(is)]

\* The users row is what the identity plane's first row.seq events of the subject say, no event
\* skipped on the way, and no event behind the cursor is lost: it is mirrored or parked
\* (bridge.rs: "nothing is ever consumed without being applied").  Every change of the owner
\* role is a row of the roster log, once.
MirrorFollowsFeed ==
    /\ \A i \in 1..iCursor :
           LET u == iFeed[i].user IN i \in iParked \/ (Provisioned(u) /\ iFeed[i].seq <= iRow[u].seq)
    /\ \A u \in IdUsers : Provisioned(u) =>
           LET n == iRow[u].seq
               roles == {i \in EventsOf(u) : iFeed[i].kind \in {"created", "role"} /\ iFeed[i].seq <= n}
           IN  /\ iRow[u].frozen = (LastOf(u, {"suspended", "reinstated"}, n).kind = "suspended")
               /\ iRow[u].owner = LastOf(u, {"created", "role"}, n).owner
               /\ iRow[u].floor = LastOf(u, {"revoked"}, n).version
               /\ iRoster[u] = Cardinality({i \in roles :
                      iFeed[i].owner # LastOf(u, {"created", "role"}, iFeed[i].seq - 1).owner})

\* A refresh that began after the user was shut out, or after the version had passed the
\* family's snapshot, mints nothing, whatever revocations, rotations and sign-ins ran meanwhile.
RevokedNeverRefreshes ==
    \A k \in IdCalls : iCall[k].op = "refresh" /\ iCall[k].reply = "minted" =>
        ~iCall[k].shut /\ iFam[iCall[k].family].version >= iCall[k].seen

\* A secret buys one rotation however many requests present it at once.
SecretBuysOnce ==
    \A k, l \in IdCalls :
        (/\ k # l /\ iCall[k].op = "refresh" /\ iCall[l].op = "refresh"
         /\ iCall[k].reply = "minted" /\ iCall[l].reply = "minted")
        => <<iCall[k].family, iCall[k].secret>> # <<iCall[l].family, iCall[l].secret>>

\* Once a request that presents a rotated secret is answered the family is dead: neither
\* holder can go on.  (In Redis a family issued while revoke_user runs is in no index, and
\* four requests let it outlive the replay: this is asked of the store in the process.)
ReplayedSecretEndsFamily ==
    \A k \in IdCalls :
        (/\ iCall[k].op = "refresh" /\ iCall[k].at = "done"
         /\ iCall[k].replayed \/ iCall[k].reply = "reuse")
        => iFam[iCall[k].family].state = "gone"
=============================================================================
