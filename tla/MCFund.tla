------------------------------- MODULE MCFund -------------------------------
(***************************************************************************)
(* A product's fees, units and order book in one model; the variable scene *)
(* says which part a behaviour is about.                                   *)
(*   admin    an administrator makes the terms dearer while a sweep runs   *)
(*   owners   the same through the owners' consilium                       *)
(*   marks    the price moves, nobody changes the terms                    *)
(*   exits    a subscription, two redemptions and a fee charge             *)
(*   unparked the same without the charge, its parked rows driven again    *)
(*   keys     units minted and retired, two requests under one key, and a  *)
(*            fee charge beside them                                       *)
(*   marked   valuations, a redemption and the fee class settled           *)
(*   shut     the registry row changes under a subscription                *)
(*   book     four orders that cross, one of them post-only, one market    *)
(*   short    the seller's units leave before the relay escrows them       *)
(*   closing  the book closes and opens; a subscriber watches              *)
(***************************************************************************)
EXTENDS Fees, Shares, Book, TLC

CONSTANTS h1, f1, f2, w1, u1, s1, r1, r2, i1, i2, i3, k1, p1, d1, d2, q1, q2, v1

VARIABLE scene

First   == [fee |-> 1, hurdle |-> 1]
Planned == f1 :> [fee |-> 2, hurdle |-> 1] @@ f2 :> [fee |-> 1, hurdle |-> 0]
Asked   == f1 :> 0 @@ f2 :> 2

SubTerms   == s1 :> [user |-> u1, cash |-> 2]
RedTerms   == r1 :> [user |-> u1, units |-> 2] @@ r2 :> [user |-> u1, units |-> 1]
IssueTerms == i1 :> [user |-> u1, units |-> 1, source |-> "mint", key |-> 1, basis |-> 1] @@
              i2 :> [user |-> u1, units |-> 2, source |-> "retire", key |-> 2, basis |-> 0] @@
              i3 :> [user |-> u1, units |-> 2, source |-> "mint", key |-> 1, basis |-> 1]
DueTerms   == k1 :> [user |-> u1, units |-> 1]
Paid       == p1 :> 1
Pockets    == u1 :> 2

Request(u, side, kind, tif, p, n) == [user |-> u, side |-> side, kind |-> kind, tif |-> tif, price |-> p, size |-> n]
Requests ==
    "s1" :> Request("a", "sell", "limit", "gtc", 10, 2) @@ "s2" :> Request("a", "sell", "limit", "alo", 10, 1) @@
    "b1" :> Request("b", "buy", "limit", "gtc", 10, 2)  @@ "b2" :> Request("b", "buy", "market", "ioc", 0, 1)
Purses   == "a" :> 0 @@ "b" :> 50
Stocks   == "a" :> 3 @@ "b" :> 0

Flat    == INSTANCE Fees WITH Prices <- {1}
Exits   == INSTANCE Shares WITH Issues <- {}, Payouts <- {}, Aums <- {}, Desks <- {d1}, ShareFaults <- {"lost", "other"}
Unparked == INSTANCE Shares WITH Issues <- {}, Payouts <- {}, Dues <- {}, Aums <- {}, Desks <- {d1}, ShareFaults <- {"lost", "unpark"}
Keys    == INSTANCE Shares WITH Subs <- {}, Reds <- {}, Payouts <- {}, Aums <- {}, ShareFaults <- {"lost"}
Marked  == INSTANCE Shares WITH Subs <- {}, Reds <- {r2}, Issues <- {}, Desks <- {d1}, ShareFaults <- {"stale"}
Shut    == INSTANCE Shares WITH Reds <- {}, Issues <- {}, Dues <- {}, Payouts <- {}, Aums <- {}, Desks <- {d1}, ShareFaults <- {"shut"}
Matched == INSTANCE Book WITH Watchers <- {}, BookFaults <- {"lost"}
Short   == INSTANCE Book WITH Orders <- {"s1", "b1"}, Watchers <- {}, BookFaults <- {"spend"}
Closing == INSTANCE Book WITH Orders <- {"s1", "b1"}, BookFaults <- {"close"}

NoFees   == FeesInitWith({}, {}) /\ price = 1
NoShares == SharesInitWith("closed")
NoBook   == BookInitWith(FALSE)

SceneInit ==
    \/ scene = "admin"  /\ FeesInitWith({h1}, {f1}) /\ price = 1 /\ NoShares /\ NoBook
    \/ scene = "owners" /\ FeesInitWith({h1}, {f2}) /\ price = 1 /\ NoShares /\ NoBook
    \/ scene = "marks"  /\ FeesInitWith({h1}, {}) /\ NoShares /\ NoBook
    \/ scene \in {"exits", "unparked", "keys", "marked", "shut"} /\ NoFees /\ SharesInit /\ NoBook
    \/ scene \in {"book", "short", "closing"} /\ NoFees /\ NoShares /\ BookInit
SceneNext ==
    \/ /\ UNCHANGED <<scene, sharesVars, bookAll>>
       /\ \/ scene = "admin" /\ Flat!FeesNext /\ clock' < Horizon
          \/ scene = "owners" /\ Flat!FeesNext
          \/ scene = "marks" /\ FeesNext
    \/ /\ UNCHANGED <<scene, feesVars, bookAll>>
       /\ \/ scene = "exits"  /\ Exits!SharesNext
          \/ scene = "unparked" /\ Unparked!SharesNext
          \/ scene = "keys"   /\ Keys!SharesNext
          \/ scene = "marked" /\ Marked!SharesNext
          \/ scene = "shut"   /\ Shut!SharesNext
    \/ /\ UNCHANGED <<scene, feesVars, sharesVars>>
       /\ \/ scene = "book"    /\ Matched!BookNext
          \/ scene = "short"   /\ Short!BookNext
          \/ scene = "closing" /\ Closing!BookNext
SceneSpec == SceneInit /\ [][SceneNext]_<<scene, feesVars, sharesVars, bookAll>>

\* The types of terms, positions, units, orders and escrows.
FundTypeOK == FeesTypeOK /\ SharesTypeOK /\ BookTypeOK
=============================================================================
