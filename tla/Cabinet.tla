------------------------------ MODULE Cabinet ------------------------------
(***************************************************************************)
(* One user's requests through the cabinet backend to the hub: the gates   *)
(* of each route (routes/*.rs), the cached banking pair that every money   *)
(* route forwards (session.rs), the auth plane's families as the pair uses *)
(* them, the hub's gates in front of each RPC (services/support.rs), and   *)
(* the eviction of the pair when an answer is 401.  Revokes, freezes, the  *)
(* read-only switch and seat changes happen between any two steps.         *)
(***************************************************************************)
EXTENDS Integers, FiniteSets, Sequences, TLC

CONSTANTS
    CabReqs,      \* requests of the user, each taken once
    CabRoutes,    \* the routes they may ask for, a subset of DOMAIN Routes
    CabTtl,       \* life of an access token
    CabRefresh,   \* life of a refresh secret
    CabSkew,      \* how long before its expiry a cached access token is given up
    CabDeadline,  \* REQUEST_DEADLINE: a request this old is aborted
    CabWindow,    \* MONEY_MUTATION_WINDOW
    CabLimit,     \* MONEY_MUTATIONS_PER_WINDOW
    CabWarm,      \* TRUE: an earlier request has left a pair in the cache
    CabMaxTime,   \* bound on the clock
    CabMaxFloor,  \* bound on revokes
    CabFaults     \* subset of {"lost", "failed", "revoke", "freeze", "pause", "seat", "concierge"}

VARIABLES
    kNow,     \* the clock both planes and the cabinet read
    kHub,     \* the user's row at the hub, and the read-only switch
    kSeat,    \* TRUE when the user's seat carries the console's permissions
    kMap,     \* the slot the cache holds for the user, 0 when none
    kSlots,   \* slots ever made: the pair in each
    kFams,    \* families at the auth plane: version at birth, current secret, alive
    kReq,     \* requests
    kHits,    \* the limiter's window for the user
    kLost,    \* an answer to a rotation has been lost
    kHealed   \* a pair was evicted after the last revoke

cvars == <<kNow, kHub, kSeat, kMap, kSlots, kFams, kReq, kHits, kLost, kHealed>>

----------------------------------------------------------------------------
(* What each route of the cabinet asks for before it forwards, and the RPC *)
(* it forwards to.  "plane" is where the RPC goes: only "bank" routes take *)
(* the banking token.                                                      *)
Route(gate, plane, rpc) == [gate |-> gate, plane |-> plane, rpc |-> rpc]
Reads(rpc) == Route("session", "bank", rpc)
Posts(rpc) == Route("csrf", "bank", rpc)
Moves(rpc) == Route("money", "bank", rpc)
ConsoleReads(rpc) == Route("console", "bank", rpc)
ConsolePosts(rpc) == Route("console_csrf", "bank", rpc)
Identity(gate, rpc) == Route(gate, "concierge", rpc)

WalletRoutes ==
    [get_wallet |-> Reads("get_wallet"), deposit_address |-> Reads("get_deposit_address"),
     list_withdrawals |-> Reads("list_withdrawals"), list_deposits |-> Reads("list_deposits"),
     list_compartments |-> Reads("list_compartments"), get_compartment |-> Reads("get_compartment"),
     move_in |-> Moves("move_in"), move_back |-> Moves("move_back"), list_operations |-> Reads("list_operations"),
     request_withdrawal |-> Moves("request_withdrawal"),
     cancel_withdrawal |-> Route("origin", "bank", "cancel_withdrawal")]

\* Consenting to a later debit also needs a recent sign-in; refusing one does not.
ConsentRoutes ==
    [get_payable_invoice |-> Reads("get_payable_invoice"), pay_invoice |-> Moves("pay_invoice"),
     list_mandates |-> Reads("list_mandates"), get_mandate_request |-> Reads("get_mandate_request"),
     grant_mandate |-> Route("fresh", "bank", "grant_mandate"), revoke_mandate |-> Moves("revoke_mandate"),
     list_payment_confirmations |-> Reads("list_payment_confirmations"),
     get_payment_confirmation |-> Reads("get_payment_confirmation"),
     approve_payment |-> Route("fresh", "bank", "approve_payment"), reject_payment |-> Moves("reject_payment")]

FundRoutes ==
    [catalog |-> Reads("list_allocations"), get_allocation |-> Reads("get_allocation"), fund_nav |-> Reads("get_fund_nav"),
     fund_nav_history |-> Reads("list_fund_nav_history"), fee_policy |-> Reads("get_fee_policy"),
     accrued_fees |-> Reads("get_accrued_fees"), list_positions |-> Reads("list_positions"),
     list_redemptions |-> Reads("list_redemptions"), subscribe |-> Posts("subscribe"), redeem |-> Posts("redeem"),
     cancel_redemption |-> Posts("cancel_redemption")]

BookRoutes ==
    [get_book |-> Reads("get_book"), list_trades |-> Reads("list_trades"), list_candles |-> Reads("list_candles"),
     get_policy |-> Reads("get_book_policy"), place_order |-> Posts("place_order"), cancel_order |-> Posts("cancel_order"),
     list_open_orders |-> Reads("list_open_orders"), list_order_history |-> Reads("list_order_history"),
     list_fills |-> Reads("list_user_trades")]

PaymentRoutes ==
    [payments |-> ConsoleReads("list_payments"), payment |-> ConsoleReads("get_payment"),
     open_payment |-> ConsolePosts("open_payment"), cancel_payment |-> ConsolePosts("cancel_payment")]

\* The consilium page asks for the session alone: the hub decides who may see or open one.
ConsiliumRoutes ==
    [consilia |-> Reads("list_consilia"), consilium |-> Reads("get_consilium"),
     open_holder_grant |-> Posts("open_holder_grant"), cancel_consilium |-> Posts("cancel_consilium")]

OwnerRoutes ==
    [owners |-> Identity("session", "list_owners"), resign |-> Identity("csrf", "resign_ownership"),
     list_removals |-> Identity("session", "list_removals"), open_removal |-> Identity("csrf", "open_owner_removal"),
     vote_removal |-> Identity("csrf", "submit_peer_vote"), cancel_removal |-> Identity("csrf", "cancel_owner_removal"),
     list_admissions |-> Identity("session", "list_admissions"), open_admission |-> Identity("csrf", "open_owner_admission"),
     vote_admission |-> Identity("csrf", "submit_admission_vote"),
     cancel_admission |-> Identity("csrf", "cancel_owner_admission")]

ProposalRoutes ==
    [list_proposals |-> Identity("session", "list_user_proposals"),
     open_suspension |-> Identity("csrf", "open_user_suspension"),
     open_reinstatement |-> Identity("csrf", "open_user_reinstatement"),
     open_admin_admission |-> Identity("csrf", "open_admin_admission"),
     vote_proposal |-> Identity("csrf", "submit_user_proposal_vote"),
     cancel_proposal |-> Identity("csrf", "cancel_user_proposal")]

UserConsoleRoutes ==
    [list_users |-> Identity("console", "list_users"), get_user |-> Identity("console", "get_user"),
     set_role |-> Identity("console_csrf", "set_role"), hold_user |-> Identity("console_csrf", "hold_user"),
     reinstate_user |-> Identity("console_csrf", "reinstate_user")]

AccountConsoleRoutes ==
    [revoke_sessions |-> Identity("console_csrf", "revoke_tokens"),
     set_kyc |-> Identity("console_csrf", "set_kyc_level"), user_balance |-> ConsoleReads("get_user_balance")]

TreasuryConsoleRoutes ==
    [treasury |-> ConsoleReads("get_treasury"), record_treasury_deposit |-> ConsolePosts("record_deposit"),
     seed_capital |-> ConsolePosts("seed_capital")]

FeeConsoleRoutes ==
    [list_fee_policies |-> ConsoleReads("list_fee_policies"), schedule_fee_policy |-> ConsolePosts("schedule_fee_policy"),
     cancel_fee_policy_change |-> ConsolePosts("cancel_fee_policy_change"),
     acknowledge_undelivered_notices |-> ConsolePosts("acknowledge_undelivered_notices"),
     list_fee_policy_changes |-> ConsoleReads("list_fee_policy_changes"), fee_shares |-> ConsoleReads("get_fee_shares"),
     settle_fee_shares |-> ConsolePosts("settle_fee_shares"),
     fund_fee_assessments |-> ConsoleReads("list_fund_fee_assessments")]

AllocationConsoleRoutes ==
    [redemption_queue |-> ConsoleReads("list_redemption_queue"), list_allocations |-> ConsoleReads("list_all_allocations"),
     register_allocation |-> ConsolePosts("register_allocation"), update_allocation |-> ConsolePosts("update_allocation"),
     set_allocation_state |-> ConsolePosts("set_allocation_state"),
     set_allocation_unit_cap |-> ConsolePosts("set_allocation_unit_cap")]

AccessConsoleRoutes ==
    [set_allocation_access |-> ConsolePosts("set_allocation_access"),
     set_allocation_backing |-> ConsolePosts("set_allocation_backing"),
     list_allocation_access_grants |-> ConsoleReads("list_allocation_access_grants")]

GrantConsoleRoutes ==
    [grant_allocation_access |-> ConsolePosts("grant_allocation_access"),
     revoke_allocation_access |-> ConsolePosts("revoke_allocation_access")]

UnitConsoleRoutes ==
    [issue_units |-> ConsolePosts("issue_units"), list_unit_holders |-> ConsoleReads("list_unit_holders"),
     retire_units |-> ConsolePosts("retire_units"), set_book_policy |-> ConsolePosts("set_book_policy"),
     post_valuation |-> ConsolePosts("post_fund_valuation"),
     propose_valuation_override |-> ConsolePosts("open_valuation_override")]

OperatorConsoleRoutes ==
    [settle_redemption |-> ConsolePosts("settle_redemption"), fail_redemption |-> ConsolePosts("fail_redemption"),
     withdrawal_queue |-> ConsoleReads("list_withdrawal_queue"), dispatch_withdrawal |-> ConsolePosts("dispatch_withdrawal"),
     settle_withdrawal |-> ConsolePosts("settle_withdrawal"), fail_withdrawal |-> ConsolePosts("fail_withdrawal"),
     fund_revenue |-> ConsoleReads("get_fund_revenue"), parked_events |-> ConsoleReads("list_parked_events"),
     unpark_event |-> ConsolePosts("unpark_event")]

PlatformConsoleRoutes ==
    [cabinet_config |-> Identity("console", "platform_config"),
     set_maintenance |-> Identity("console_csrf", "set_maintenance_mode"),
     set_read_only |-> ConsolePosts("set_operations_mode"), rails |-> ConsoleReads("list_rails"),
     set_rail_frozen |-> ConsolePosts("set_rail_frozen"), set_announcement |-> Identity("console_csrf", "set_announcement"),
     set_flag |-> Identity("console_csrf", "set_feature_flag")]

NotificationRoutes ==
    [notifications |-> Identity("session", "list_notifications"), unread_count |-> Identity("session", "unread_notifications"),
     mark_read |-> Identity("csrf", "mark_notifications_read"), settings |-> Identity("session", "notification_settings"),
     set_channel |-> Identity("csrf", "set_notification_channel"), set_topic |-> Identity("csrf", "set_notification_topic")]

TenantRoutes ==
    [tenant_grants |-> Identity("session", "list_grants"), tenant_grant |-> Identity("csrf", "grant_permission"),
     tenant_revoke |-> Identity("csrf", "revoke_permission")]

Routes ==
    WalletRoutes @@ ConsentRoutes @@ FundRoutes @@ BookRoutes @@ PaymentRoutes @@ ConsiliumRoutes @@ OwnerRoutes
      @@ ProposalRoutes @@ UserConsoleRoutes @@ AccountConsoleRoutes @@ TreasuryConsoleRoutes @@ FeeConsoleRoutes
      @@ AllocationConsoleRoutes @@ AccessConsoleRoutes @@ GrantConsoleRoutes @@ UnitConsoleRoutes @@ OperatorConsoleRoutes @@ PlatformConsoleRoutes
      @@ NotificationRoutes @@ TenantRoutes

----------------------------------------------------------------------------
(* What the hub asks for in front of each RPC.  "caller" verifies the      *)
(* token alone; "row" compares it with the user's row, and refuses a       *)
(* frozen account where freeze is "gate"; "permission" also reads the      *)
(* mirrored permissions.  A use case may answer the freeze itself.         *)
Gate(kind, pause, freeze) == [kind |-> kind, pause |-> pause, freeze |-> freeze]
Caller == Gate("caller", FALSE, "none")
Unfrozen == Gate("row", TRUE, "gate")
Permission == Gate("permission", FALSE, "gate")
PausedPermission == Gate("permission", TRUE, "gate")

\* A read that serves everyone and shows a manager more resolves the row all the same.
Widened == Gate("row", FALSE, "gate")

CallerOnly(names) == [n \in names |-> Caller]
WidenedFor(names) == [n \in names |-> Widened]
Permitted(names) == [n \in names |-> Permission]

WalletRpcs ==
    CallerOnly({"get_wallet", "get_deposit_address", "cancel_withdrawal", "list_withdrawals", "list_deposits"})
      @@ [request_withdrawal |-> Unfrozen]

OperationRpcs == CallerOnly({"list_operations"})

\* Money going back to main is stopped by neither the pause nor the freeze.
CompartmentRpcs ==
    CallerOnly({"list_compartments", "get_compartment", "get_mandate_request", "list_mandates"})
      @@ [move_in |-> Gate("row", TRUE, "app"), move_back |-> Gate("row", FALSE, "none"),
          grant_mandate |-> Gate("row", FALSE, "gate"), revoke_mandate |-> Gate("row", FALSE, "none")]

InvoiceRpcs == [get_payable_invoice |-> Caller, pay_invoice |-> Gate("row", TRUE, "app")]

FundRpcs ==
    CallerOnly({"cancel_redemption", "list_positions", "list_redemptions"})
      @@ WidenedFor({"get_fund_nav", "list_fund_nav_history"})
      @@ [subscribe |-> Unfrozen, redeem |-> Unfrozen]

BookRpcs ==
    CallerOnly({"cancel_order", "list_open_orders", "list_order_history", "list_user_trades"}) @@ [place_order |-> Unfrozen]

TapeRpcs ==
    WidenedFor({"get_book", "list_trades", "list_candles", "get_book_policy"}) @@ [set_book_policy |-> Permission]

PaymentRpcs ==
    Permitted({"open_payment", "list_payments", "get_payment", "cancel_payment"})
      @@ CallerOnly({"list_payment_confirmations", "get_payment_confirmation", "reject_payment"})
      @@ [approve_payment |-> Unfrozen]

ConsiliumRpcs ==
    Permitted({"open_holder_grant", "open_valuation_override", "cancel_consilium", "get_consilium", "list_consilia"})

FeeRpcs ==
    CallerOnly({"get_accrued_fees"}) @@ WidenedFor({"get_fee_policy", "list_fee_policies", "list_fee_policy_changes"})
      @@ Permitted({"schedule_fee_policy", "cancel_fee_policy_change", "acknowledge_undelivered_notices",
                    "list_fund_fee_assessments"})

FeeShareRpcs == [get_fee_shares |-> Permission, settle_fee_shares |-> PausedPermission]

AllocationRpcs ==
    CallerOnly({"list_allocations"}) @@ WidenedFor({"get_allocation"})
      @@ Permitted({"list_all_allocations", "register_allocation", "update_allocation", "set_allocation_unit_cap",
                    "set_allocation_state"})

AccessRpcs ==
    Permitted({"set_allocation_access", "set_allocation_backing", "grant_allocation_access", "revoke_allocation_access",
               "list_allocation_access_grants"})

UnitRpcs == Permitted({"list_unit_holders"}) @@ [issue_units |-> PausedPermission, retire_units |-> PausedPermission]

TreasuryRpcs == Permitted({"get_treasury", "seed_capital", "record_deposit"})

OperatorRpcs ==
    Permitted({"dispatch_withdrawal", "settle_withdrawal", "fail_withdrawal", "settle_redemption", "fail_redemption",
               "list_redemption_queue"})
      @@ [post_fund_valuation |-> PausedPermission]

PlatformRpcs ==
    Permitted({"set_operations_mode", "list_rails", "set_rail_frozen", "list_parked_events", "unpark_event",
               "list_withdrawal_queue", "get_fund_revenue"})

UserRpcs == Permitted({"get_user_balance"})

Rpcs == WalletRpcs @@ OperationRpcs @@ CompartmentRpcs @@ InvoiceRpcs @@ FundRpcs @@ BookRpcs @@ TapeRpcs @@ PaymentRpcs
          @@ ConsiliumRpcs @@ FeeRpcs @@ FeeShareRpcs @@ AllocationRpcs @@ AccessRpcs @@ UnitRpcs @@ TreasuryRpcs @@ OperatorRpcs
          @@ PlatformRpcs @@ UserRpcs

----------------------------------------------------------------------------
EmptyPair == [ver |-> 0, accExp |-> 0, fam |-> 0, secret |-> 0, refExp |-> 0]
NoRequest == [at |-> "idle", rpc |-> "none", gate |-> Caller, slot |-> 0, ver |-> 0, exp |-> 0, since |-> 0,
              barred |-> {}, healed |-> FALSE, counted |-> FALSE, answer |-> "none"]

CabInit ==
    /\ kNow = 0
    /\ kHub = [floor |-> 0, disabled |-> FALSE, paused |-> FALSE, raised |-> 0]
    /\ kSeat \in (IF "seat" \in CabFaults THEN BOOLEAN ELSE {FALSE})
    /\ kMap = IF CabWarm THEN 1 ELSE 0
    /\ kSlots = IF CabWarm THEN <<[ver |-> 0, accExp |-> CabTtl, fam |-> 1, secret |-> 1, refExp |-> CabRefresh]>> ELSE <<>>
    /\ kFams = IF CabWarm THEN <<[ver |-> 0, secret |-> 1, alive |-> TRUE, replayed |-> FALSE]>> ELSE <<>>
    /\ kReq = [r \in CabReqs |-> NoRequest]
    /\ kHits = [started |-> 0, attempts |-> 0]
    /\ kLost = FALSE /\ kHealed = FALSE

InFlight(r) == kReq[r].at \notin {"idle", "end"}
End(r, answer) == kReq' = [kReq EXCEPT ![r].at = "end", ![r].answer = answer]

\* What bars the user at this moment, whatever route they take.
Barred == (IF kHub.disabled THEN {"frozen"} ELSE {}) \cup (IF kHub.paused THEN {"paused"} ELSE {})
            \cup (IF kSeat THEN {} ELSE {"seatless"})

\* AttemptLimiter::allow counts the attempt first, in a window that restarts when it has run out.
Window(now) == IF now - kHits.started >= CabWindow \/ kHits.attempts = 0 THEN [started |-> now, attempts |-> 0] ELSE kHits
Counted == [Window(kNow) EXCEPT !.attempts = @ + 1]
Allow(hits) == hits.attempts <= CabLimit

Limited(gate) == gate \in {"money", "fresh"}
Console(gate) == gate \in {"console", "console_csrf"}

\* A request that passes its route's gates goes on to its token; GetMe failing reads as 401.
Arrive(r, name, fresh) ==
    LET route == Routes[name]
        begun == [NoRequest EXCEPT !.rpc = route.rpc, !.since = kNow, !.barred = Barred,
                      !.gate = IF route.plane = "bank" THEN Rpcs[route.rpc] ELSE Caller]
        stop(answer) == kReq' = [kReq EXCEPT ![r] = [begun EXCEPT !.at = "end", !.answer = answer]]
    IN  /\ kReq[r].at = "idle"
        /\ kHits' = IF Limited(route.gate) THEN Counted ELSE kHits
        /\ IF Limited(route.gate) /\ ~Allow(Counted) THEN stop("exhausted")
           ELSE IF route.gate = "fresh" /\ ~fresh THEN stop("step_up")
           ELSE IF Console(route.gate) /\ ~kSeat THEN stop("denied")
           ELSE IF route.plane = "concierge" THEN stop("forwarded")
           ELSE kReq' = [kReq EXCEPT ![r] = [begun EXCEPT !.at = "lookup", !.counted = Limited(route.gate)]]
        /\ UNCHANGED <<kNow, kHub, kSeat, kMap, kSlots, kFams, kLost, kHealed>>

ConciergeFails(r, name) ==
    /\ "concierge" \in CabFaults /\ kReq[r].at = "idle" /\ Console(Routes[name].gate)
    /\ kReq' = [kReq EXCEPT ![r] = [NoRequest EXCEPT !.at = "evict", !.since = kNow, !.answer = "unauthenticated"]]
    /\ UNCHANGED <<kNow, kHub, kSeat, kMap, kSlots, kFams, kHits, kLost, kHealed>>

\* The slot's own lock is held across the exchange with the auth plane.
LockFree(s) == TRUE
Unlocked(s) == \A q \in CabReqs : kReq[q].at \in {"rotate", "mint"} => kReq[q].slot # s

\* Under the map's lock: entries nobody holds and whose pair has run out are dropped, then
\* the user's slot is found or made.
Keeps(s) == ~Unlocked(s) \/ kSlots[s].refExp > kNow \/ kSlots[s].accExp > kNow
FindSlot(r) ==
    LET kept == kMap # 0 /\ Keeps(kMap)
        slot == IF kept THEN kMap ELSE Len(kSlots) + 1
    IN  /\ kReq[r].at = "lookup"
        /\ kMap' = slot
        /\ kSlots' = IF kept THEN kSlots ELSE Append(kSlots, EmptyPair)
        /\ kReq' = [kReq EXCEPT ![r].at = "wait", ![r].slot = slot, ![r].healed = kHealed]
        /\ UNCHANGED <<kNow, kHub, kSeat, kFams, kHits, kLost, kHealed>>

Usable(pair) == pair.accExp > kNow + CabSkew
TakeLock(r) ==
    LET pair == kSlots[kReq[r].slot] IN
    /\ kReq[r].at = "wait" /\ Unlocked(kReq[r].slot)
    /\ kReq' = [kReq EXCEPT ![r].at = IF Usable(pair) THEN "call" ELSE IF pair.refExp > kNow THEN "rotate" ELSE "mint",
                            ![r].ver = IF Usable(pair) THEN pair.ver ELSE 0,
                            ![r].exp = IF Usable(pair) THEN pair.accExp ELSE 0]
    /\ UNCHANGED <<kNow, kHub, kSeat, kMap, kSlots, kFams, kHits, kLost, kHealed>>

\* The pair the auth plane answers with, and the request that goes on with it.
Pair(fam, secret) == [ver |-> kHub.floor, accExp |-> kNow + CabTtl, fam |-> fam, secret |-> secret, refExp |-> kNow + CabRefresh]
Apply(r, pair) ==
    /\ kSlots' = [kSlots EXCEPT ![kReq[r].slot] = pair]
    /\ kReq' = [kReq EXCEPT ![r].at = "call", ![r].ver = pair.ver, ![r].exp = pair.accExp]

\* The auth plane's Refresh: a secret rotated out, a frozen user or a version moved on ends
\* every family of the user.
Current(pair) == kFams[pair.fam].alive /\ kFams[pair.fam].secret = pair.secret
Replayed(pair) == kFams[pair.fam].alive /\ kFams[pair.fam].secret # pair.secret
Honoured(pair) == Current(pair) /\ ~kHub.disabled /\ kFams[pair.fam].ver >= kHub.floor
AllEnded == [f \in DOMAIN kFams |-> [kFams[f] EXCEPT !.alive = FALSE]]
Rotated(pair) == [kFams EXCEPT ![pair.fam].secret = @ + 1]

RotateAnswers(r) ==
    LET pair == kSlots[kReq[r].slot] IN
    /\ kReq[r].at = "rotate"
    /\ \/ /\ Honoured(pair)
          /\ kFams' = Rotated(pair) /\ Apply(r, Pair(pair.fam, pair.secret + 1))
       \/ /\ ~Honoured(pair)
          /\ kFams' = IF kFams[pair.fam].alive
                      THEN [f \in DOMAIN kFams |-> [AllEnded[f] EXCEPT !.replayed = @ \/ (f = pair.fam /\ Replayed(pair))]]
                      ELSE kFams
          /\ kReq' = [kReq EXCEPT ![r].at = "mint"] /\ UNCHANGED kSlots
    /\ UNCHANGED <<kNow, kHub, kSeat, kMap, kHits, kLost, kHealed>>

\* A transport failure, or the deadline, with the rotation done or not: the pair stays.
RotateFails(r) ==
    LET pair == kSlots[kReq[r].slot] IN
    /\ kReq[r].at = "rotate"
    /\ \/ "failed" \in CabFaults /\ UNCHANGED <<kFams, kLost>>
       \/ "lost" \in CabFaults /\ Honoured(pair) /\ kFams' = Rotated(pair) /\ kLost' = TRUE
    /\ End(r, "not_issued")
    /\ UNCHANGED <<kNow, kHub, kSeat, kMap, kSlots, kHits, kHealed>>

Family == [ver |-> kHub.floor, secret |-> 1, alive |-> TRUE, replayed |-> FALSE]
MintAnswers(r) ==
    /\ kReq[r].at = "mint"
    /\ \/ /\ ~kHub.disabled
          /\ kFams' = Append(kFams, Family) /\ Apply(r, Pair(Len(kFams) + 1, 1))
       \/ /\ kHub.disabled
          /\ End(r, "refused_token") /\ UNCHANGED <<kFams, kSlots>>
    /\ UNCHANGED <<kNow, kHub, kSeat, kMap, kHits, kLost, kHealed>>

MintFails(r) ==
    /\ kReq[r].at = "mint"
    /\ \/ "failed" \in CabFaults /\ UNCHANGED kFams
       \/ "lost" \in CabFaults /\ ~kHub.disabled /\ kFams' = Append(kFams, Family)
    /\ End(r, "not_issued")
    /\ UNCHANGED <<kNow, kHub, kSeat, kMap, kSlots, kHits, kLost, kHealed>>

\* The hub's listener verifies the token; the gate then reads the user's row.
Expired(r) == kReq[r].exp <= kNow
Revoked(r) == kReq[r].gate.kind # "caller" /\ kReq[r].ver < kHub.floor
Frozen(r) == kReq[r].gate.freeze = "gate" /\ kReq[r].gate.kind # "caller" /\ kHub.disabled
ReadRow(r) ==
    /\ kReq[r].at = "call"
    /\ kReq' = [kReq EXCEPT ![r].at = IF Expired(r) \/ Revoked(r) THEN "evict" ELSE IF Frozen(r) THEN "end" ELSE "act",
                            ![r].answer = IF Expired(r) THEN "expired" ELSE IF Revoked(r) THEN "unauthenticated"
                                          ELSE IF Frozen(r) THEN "denied" ELSE "none"]
    /\ UNCHANGED <<kNow, kHub, kSeat, kMap, kSlots, kFams, kHits, kLost, kHealed>>

\* The pause and the permissions are read after the row; the use case follows.
Stopped(r) ==
    \/ kReq[r].gate.pause /\ kHub.paused
    \/ kReq[r].gate.kind = "permission" /\ ~kSeat
    \/ kReq[r].gate.freeze = "app" /\ kHub.disabled
Act(r) ==
    /\ kReq[r].at = "act"
    /\ End(r, IF Stopped(r) THEN "denied" ELSE "done")
    /\ UNCHANGED <<kNow, kHub, kSeat, kMap, kSlots, kFams, kHits, kLost, kHealed>>

\* A 401 drops the slot from the map; whoever holds it goes on with it.
Forget(r) == kMap' = 0
Evict(r) ==
    /\ kReq[r].at = "evict"
    /\ Forget(r)
    /\ kHealed' = TRUE
    /\ kReq' = [kReq EXCEPT ![r].at = "end"]
    /\ UNCHANGED <<kNow, kHub, kSeat, kSlots, kFams, kHits, kLost>>

\* The deadline aborts the handler where it stands, the eviction layer included; an exchange
\* in flight then ends as RotateFails and MintFails say.
Overdue(r) == InFlight(r) /\ kNow - kReq[r].since >= CabDeadline
Abort(r) ==
    /\ Overdue(r) /\ kReq[r].at \in {"lookup", "wait", "call", "act", "evict"}
    /\ \E answer \in (IF kReq[r].at = "act" /\ ~Stopped(r) THEN {"timeout", "done"} ELSE {"timeout"}) : End(r, answer)
    /\ UNCHANGED <<kNow, kHub, kSeat, kMap, kSlots, kFams, kHits, kLost, kHealed>>

Tick ==
    /\ kNow < CabMaxTime
    /\ \A r \in CabReqs : ~Overdue(r)
    /\ kNow' = kNow + 1
    /\ UNCHANGED <<kHub, kSeat, kMap, kSlots, kFams, kReq, kHits, kLost, kHealed>>

----------------------------------------------------------------------------
(* What others do to the user meanwhile.                                   *)
Lifts(what) == kReq' = [r \in CabReqs |-> [kReq[r] EXCEPT !.barred = @ \ {what}]]

RevokeAll ==
    /\ "revoke" \in CabFaults /\ kHub.floor < CabMaxFloor
    /\ kHub' = [kHub EXCEPT !.floor = @ + 1, !.raised = kNow]
    /\ kHealed' = FALSE
    /\ kReq' = [r \in CabReqs |-> [kReq[r] EXCEPT !.healed = FALSE]]
    /\ UNCHANGED <<kNow, kSeat, kMap, kSlots, kFams, kHits, kLost>>

SetFrozen(b) ==
    /\ "freeze" \in CabFaults /\ kHub.disabled # b
    /\ kHub' = [kHub EXCEPT !.disabled = b]
    /\ IF b THEN UNCHANGED kReq ELSE Lifts("frozen")
    /\ UNCHANGED <<kNow, kSeat, kMap, kSlots, kFams, kHits, kLost, kHealed>>

SetPaused(b) ==
    /\ "pause" \in CabFaults /\ kHub.paused # b
    /\ kHub' = [kHub EXCEPT !.paused = b]
    /\ IF b THEN UNCHANGED kReq ELSE Lifts("paused")
    /\ UNCHANGED <<kNow, kSeat, kMap, kSlots, kFams, kHits, kLost, kHealed>>

SetSeat(b) ==
    /\ "seat" \in CabFaults /\ kSeat # b
    /\ kSeat' = b
    /\ IF b THEN Lifts("seatless") ELSE UNCHANGED kReq
    /\ UNCHANGED <<kNow, kHub, kMap, kSlots, kFams, kHits, kLost, kHealed>>

Others == Tick \/ RevokeAll \/ \E b \in BOOLEAN : SetFrozen(b) \/ SetPaused(b) \/ SetSeat(b)
Serve(r) == FindSlot(r) \/ TakeLock(r) \/ RotateAnswers(r) \/ RotateFails(r) \/ MintAnswers(r) \/ MintFails(r)
              \/ ReadRow(r) \/ Act(r) \/ Evict(r) \/ Abort(r)
CabNext ==
    \/ Others
    \/ \E r \in CabReqs : \/ Serve(r)
                          \/ \E name \in CabRoutes : ConciergeFails(r, name) \/ \E fresh \in BOOLEAN : Arrive(r, name, fresh)
CabSpec == CabInit /\ [][CabNext]_cvars

----------------------------------------------------------------------------
CabTypeOK ==
    /\ kNow \in 0..CabMaxTime /\ kMap \in 0..Len(kSlots)
    /\ kHub.floor \in 0..CabMaxFloor /\ kHub.raised \in 0..kNow
    /\ {kHub.disabled, kHub.paused, kSeat, kLost, kHealed} \subseteq BOOLEAN
    /\ \A s \in DOMAIN kSlots : kSlots[s].fam \in 0..Len(kFams) /\ kSlots[s].ver \in 0..kHub.floor
    /\ \A r \in CabReqs : /\ kReq[r].slot \in 0..Len(kSlots) /\ kReq[r].since \in 0..kNow
                          /\ kReq[r].at \in {"idle", "lookup", "wait", "rotate", "mint", "call", "act", "evict", "end"}
    /\ kHits.attempts \in 0..Cardinality(CabReqs)

Done(r) == kReq[r].answer = "done"

(***************************************************************************)
(* The cabinet presents a refresh secret it has already rotated out only   *)
(* when the answer to that rotation was lost: two requests of one user     *)
(* never present one secret, so the cabinet does not end its own families  *)
(* (session.rs, token_for).                                                *)
(***************************************************************************)
NoOwnReplay == \A f \in DOMAIN kFams : kFams[f].replayed => kLost

(***************************************************************************)
(* After a revoke, one refused request is enough: a request that looks up  *)
(* its slot once a pair was evicted, with no revoke since, is not refused  *)
(* as unauthenticated; and no request is refused because its token ran out *)
(* on the way (routes/mod.rs, evict_banking_pair_on_unauthorized).         *)
(***************************************************************************)
OneRefusalHeals ==
    \A r \in CabReqs : kReq[r].at = "evict" /\ kReq[r].slot # 0 => ~kReq[r].healed /\ kReq[r].answer # "expired"

(***************************************************************************)
(* A revoke ends what the cached token can do: nothing is served with a    *)
(* token older than the revoke once the token's life has passed, on the    *)
(* routes whose gate never reads the row too.                              *)
(***************************************************************************)
RevokeEndsService ==
    \A r \in CabReqs : kReq[r].at = "act" /\ kReq[r].ver < kHub.floor => kNow <= kHub.raised + CabTtl

\* What the wallet, fund and book RPCs do with the user's own money, and the operator's acts.
Outflows == {"request_withdrawal", "move_in", "pay_invoice", "subscribe", "redeem", "place_order", "approve_payment"}
Consents == {"grant_mandate"}
UnitActs == {"issue_units", "retire_units", "settle_fee_shares", "post_fund_valuation"}
OperatorActs ==
    UnitActs \cup {"open_payment", "cancel_payment", "open_holder_grant", "open_valuation_override", "record_deposit",
                   "seed_capital", "schedule_fee_policy", "set_allocation_access", "grant_allocation_access",
                   "dispatch_withdrawal", "settle_withdrawal", "fail_withdrawal", "settle_redemption", "fail_redemption",
                   "unpark_event", "set_operations_mode", "set_rail_frozen", "set_book_policy", "register_allocation"}

(***************************************************************************)
(* What the user was barred from for the whole of a request does not       *)
(* happen in it, whichever route it took and whatever the cabinet had      *)
(* cached: no outflow while frozen or while the hub is read-only, no unit  *)
(* act while read-only, no operator's act without a seat.                  *)
(***************************************************************************)
BarredIsRefused ==
    \A r \in CabReqs : Done(r) =>
        /\ kReq[r].rpc \in Outflows => kReq[r].barred \cap {"frozen", "paused"} = {}
        /\ kReq[r].rpc \in Consents => "frozen" \notin kReq[r].barred
        /\ kReq[r].rpc \in UnitActs => "paused" \notin kReq[r].barred
        /\ kReq[r].rpc \in OperatorActs => kReq[r].barred \cap {"frozen", "seatless"} = {}

(***************************************************************************)
(* The fixed window admits at most two quotas of a user's mutations in any *)
(* span of its length (approval.rs, AttemptLimiter::allow).                *)
(***************************************************************************)
MutationsBounded ==
    \A t \in 0..CabMaxTime :
        Cardinality({r \in CabReqs : kReq[r].counted /\ kReq[r].since \in t..(t + CabWindow - 1)}) <= 2 * CabLimit

CabinetSafe == NoOwnReplay /\ OneRefusalHeals /\ RevokeEndsService /\ BarredIsRefused /\ MutationsBounded
=============================================================================
