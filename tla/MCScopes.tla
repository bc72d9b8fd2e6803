------------------------------ MODULE MCScopes ------------------------------
(***************************************************************************)
(* Holds under mandates, and operations that move money out of a scope, in *)
(* one model; the variable scene says which part a behaviour is about.     *)
(*   draws    a hold and a charge draw on one mandate                      *)
(*   regrant  a hold while one mandate replaces another; the outcome of a  *)
(*            row may be impossible to record                              *)
(*   fills    two holds already placed are captured into other users'      *)
(*            compartments under one fill cap, with every fault            *)
(*   payouts  a payout that needs approval, one that does not, and a cross *)
(*            transfer, carried by two executors during a deploy           *)
(*   shut     the same with one executor, the scope freezing and a         *)
(*            recipient blocked                                            *)
(***************************************************************************)
EXTENDS ScopeHolds, ScopeOperations, TLC

CONSTANTS h1, h2, h3, k1, m1, m2, q1, q2, o1, o2, i1, x1, x2

VARIABLE scene

HoldAmounts == h1 :> 2 @@ h2 :> 1 @@ h3 :> 1
HoldTtls == h1 :> FALSE @@ h2 :> TRUE @@ h3 :> FALSE
ChargeAmounts == k1 :> 1
MandateCaps ==
    m1 :> [perOp |-> 2, day |-> 2, outstanding |-> 2, fill |-> 1, limited |-> TRUE] @@
    m2 :> [perOp |-> 1, day |-> 3, outstanding |-> 1, fill |-> 2, limited |-> FALSE]
Kinds == o1 :> "payout" @@ o2 :> "cross"
Totals == o1 :> 2 @@ o2 :> 1 @@ i1 :> 1

\* Two holds placed under m1 and reserved on the ledger.
Placed ==
    LET both == {h2, h3} IN
    /\ hstate = [h \in Holds |-> IF h \in both THEN "active" ELSE "voided"]
    /\ captured = [h \in Holds |-> 0]
    /\ version = [h \in Holds |-> IF h \in both THEN 1 ELSE 0]
    /\ standing = [h \in Holds |-> IF h \in both THEN 1 ELSE 0]
    /\ under = [h \in Holds |-> m1] /\ ttlPast = {} /\ clamp = [h \in Holds |-> {}]
    /\ refusedAt = {} /\ capRows = {}
    /\ charge = [k \in ChargeIds |-> "failed"]
    /\ mandate = [m \in Mandates |-> IF m = m1 THEN "current" ELSE "revoked"]
    /\ lapsed = {} /\ aged = {} /\ frozen = FALSE
    /\ task = [c \in Callers |-> NoTask] /\ rows = <<>>
    /\ reserved = [h \in Holds |-> IF h \in both THEN {1} ELSE {}]
    /\ voided = [h \in Holds |-> {}] /\ taken = [h \in Holds |-> <<>>]
    /\ free = Balance - 2 /\ ledgerNo = {}
    /\ feed = [h \in Holds |-> IF h \in both THEN <<[version |-> 1, remaining |-> 1]>> ELSE <<>>]

Draw    == INSTANCE ScopeHolds WITH HoldFaults <- {"foreign", "park", "frozen"}
Regrant == INSTANCE ScopeHolds WITH HoldFaults <- {"unrecorded"}

Deploy == INSTANCE ScopeOperations WITH OpFaults <- {"crash", "lost", "refused"}
Shut   == INSTANCE ScopeOperations WITH Carriers <- {x1}, OpFaults <- {"frozen", "blocked", "lost", "mismatch"}

SceneInit ==
    \/ scene = "draws"   /\ HoldsInitWith({h1}, {k1}, {m1}) /\ OpInitWith({})
    \/ scene = "regrant" /\ HoldsInitWith({h1}, {}, {m1, m2}) /\ OpInitWith({})
    \/ scene = "fills"   /\ Placed /\ OpInitWith({})
    \/ scene = "payouts" /\ HoldsInitWith({}, {}, {}) /\ (OpInitWith({o1, i1}) \/ OpInitWith({o2}))
    \/ scene = "shut"    /\ HoldsInitWith({}, {}, {}) /\ OpInitWith({o1})
SceneNext ==
    \/ scene = "draws"   /\ Draw!HoldsNext    /\ UNCHANGED <<scene, opVars>>
    \/ scene = "regrant" /\ Regrant!HoldsNext /\ UNCHANGED <<scene, opVars>>
    \/ scene = "fills"   /\ HoldsNext         /\ UNCHANGED <<scene, opVars>>
    \/ scene = "payouts" /\ Deploy!OpNext /\ UNCHANGED <<scene, holdsVars>>
    \/ scene = "shut"    /\ Shut!OpNext   /\ UNCHANGED <<scene, holdsVars>>
SceneSpec == SceneInit /\ [][SceneNext]_<<scene, holdsVars, opVars>>

Symmetric == Permutations({q1, q2}) \union Permutations({x1, x2})

\* The types of holds, mandates, operations and the rows that carry them.
ScopesTypeOK == HoldsTypeOK /\ OpTypeOK
=============================================================================
