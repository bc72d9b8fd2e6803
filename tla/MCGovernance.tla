---------------------------- MODULE MCGovernance ----------------------------
(***************************************************************************)
(* Payment orders and the consilium in one model; the variable scene says  *)
(* which part a behaviour is about, every other order and request having   *)
(* expired before it.                                                      *)
(*   concierge  a fund's order decided by concierge, two executors and     *)
(*              outages                                                    *)
(*   lost       the same with one executor that may crash                  *)
(*   investor   a withdrawal consented to by mail and a transfer consented *)
(*              to in a session, of one claim that covers one of them      *)
(*   mailed     the withdrawal alone, with two executors                   *)
(*   quorum     a fund's order decided by three owners whose roster may    *)
(*              change, carried out by the consilium's runner              *)
(*   outage     the same while the roster stands and calls may fail        *)
(*   policy     a fee policy decided by the owners, with outages and       *)
(*              crashes of its runner                                      *)
(***************************************************************************)
EXTENDS Consilium, TLC

CONSTANTS f, g, u, o1, o2, o3, o4, c1, c2, u1, u2, u3, x1, x2, r1, r2

VARIABLE scene

SourceOf == o1 :> f @@ o2 :> u @@ o3 :> u @@ o4 :> g
TierOf   == o1 :> "service" @@ o2 :> "external" @@ o3 :> "internal" @@ o4 :> "service"
SeatOf   == o1 :> "concierge" @@ o2 :> "consent" @@ o3 :> "session" @@ o4 :> "consilium"
CostOf   == o1 :> 2 @@ o2 :> 1 @@ o3 :> 1 @@ o4 :> 1
FundsOf  == f :> 2 @@ u :> 1 @@ g :> 1
KindOf   == c1 :> "payment" @@ c2 :> "fee_policy"
Subject  == c1 :> o4 @@ c2 :> o4
ClaimOf  == c1 :> g @@ c2 :> "fees"
OpenedBy == c1 :> u1 @@ c2 :> u1

\* The part of each scene that moves, and the faults it meets.
Concierge == INSTANCE Payments WITH Claims <- {f}, PayFaults <- {"unavailable"}
Lost      == INSTANCE Payments WITH Claims <- {f}, Executors <- {x1}
Investor  == INSTANCE Payments WITH Claims <- {u}, Executors <- {x1}, PayFaults <- {"crash", "hold"}
Mailed    == INSTANCE Payments WITH Claims <- {}, PayFaults <- {"crash"}
Quorate   == INSTANCE Consilium WITH
    Consilia <- {c1}, Claims <- {}, Executors <- {}, Runners <- {r1}, PayFaults <- {}
Outage    == INSTANCE Consilium WITH
    Consilia <- {c1}, Claims <- {}, Executors <- {}, Runners <- {r1}, PayFaults <- {"unavailable"}
Policy    == INSTANCE Consilium WITH Consilia <- {c2}, Runners <- {r1}

SceneInit ==
    \/ scene \in {"concierge", "lost"} /\ PayInitWith({o1}) /\ ConsiliumInitWith({})
    \/ scene = "investor"  /\ PayInitWith({o2, o3}) /\ ConsiliumInitWith({})
    \/ scene = "mailed"    /\ PayInitWith({o2}) /\ ConsiliumInitWith({})
    \/ scene \in {"quorum", "outage"}  /\ PayInitWith({o4}) /\ ConsiliumInitWith({c1})
    \/ scene = "policy"    /\ PayInitWith({}) /\ ConsiliumInitWith({c2})
SceneNext ==
    \/ scene = "concierge" /\ Concierge!PayNext /\ UNCHANGED <<scene, consiliumVars>>
    \/ scene = "lost"      /\ Lost!PayNext      /\ UNCHANGED <<scene, consiliumVars>>
    \/ scene = "investor"  /\ Investor!PayNext  /\ UNCHANGED <<scene, consiliumVars>>
    \/ scene = "mailed"    /\ Mailed!PayNext    /\ UNCHANGED <<scene, consiliumVars>>
    \/ scene = "quorum"    /\ Quorate!ConsiliumNext /\ UNCHANGED scene
    \/ scene = "outage"    /\ Outage!ConsiliumNext  /\ UNCHANGED <<scene, owners>>
    \/ scene = "policy"    /\ Policy!ConsiliumStep  /\ UNCHANGED scene
SceneSpec == SceneInit /\ [][SceneNext]_<<scene, allVars>>

OutageSpec ==
    /\ scene = "outage" /\ PayInitWith({o4}) /\ ConsiliumInitWith({c1})
    /\ [][Outage!ConsiliumNext /\ UNCHANGED scene]_<<scene, allVars>>

OwnerSymmetry == Permutations({u2, u3})
=============================================================================
