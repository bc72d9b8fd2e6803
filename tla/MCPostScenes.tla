---------------------------- MODULE MCPostScenes ----------------------------
(***************************************************************************)
(* Postings over one user's account and two accounts of a scope; the       *)
(* variable scene says which instance of ScopePostings a behaviour belongs *)
(* to, the other postings never being requested in it.                     *)
(*   contend  a move and a charge ask for an account that covers one       *)
(*   invoice  an invoice whose payer's money other flows bring and take    *)
(*   route    a fee sweep with banking's route of it                       *)
(***************************************************************************)
EXTENDS ScopePostings, TLC

CONSTANTS p1, p2, p3, p4, p5, u1, s1, s2, r1, r2, x1

VARIABLE scene

Sorts   == p1 :> "move" @@ p2 :> "charge" @@ p3 :> "invoice" @@ p4 :> "sweep" @@ p5 :> "route"
Routing == p4 :> p5
Debited == p1 :> u1 @@ p2 :> u1 @@ p3 :> u1 @@ p4 :> u1 @@ p5 :> s1
Payee   == p1 :> s1 @@ p2 :> s1 @@ p3 :> s1 @@ p4 :> s1 @@ p5 :> s2
Two     == [p \in {p1, p2, p3, p4, p5} |-> 2]
Just    == u1 :> 2 @@ s1 :> 0 @@ s2 :> 0      \* covers one posting
Loose   == u1 :> 1 @@ s1 :> 0 @@ s2 :> 0      \* other flows move one unit of the user's
Still   == u1 :> 0 @@ s1 :> 0 @@ s2 :> 0
NoRoute == [s \in {} |-> s]

Contend == INSTANCE ScopePostings WITH
    Postings <- {p1, p2}, RouteOf <- NoRoute, MaxVersion <- 1, MaxEvents <- 4,
    Faults <- {"unavailable", "stamp_lost", "conflict", "rollback", "crash", "old_build"}
Invoice == INSTANCE ScopePostings WITH
    Postings <- {p3}, RouteOf <- NoRoute,
    Faults <- {"unavailable", "stamp_lost", "unrecordable", "old_build", "crash", "lock_drop"}
Route == INSTANCE ScopePostings WITH
    Postings <- {p4, p5}, MaxVersion <- 1, MaxDeposits <- Still, MaxForeign <- Still,
    Faults <- {"unavailable", "unrecordable", "route_lost", "old_build", "lock_drop"}

SceneInit == scene \in {"contend", "invoice", "route"} /\ Init
SceneNext == \/ scene = "contend" /\ Contend!Next /\ UNCHANGED scene
             \/ scene = "invoice" /\ Invoice!Next /\ UNCHANGED scene
             \/ scene = "route"   /\ Route!Next   /\ UNCHANGED scene
SceneSpec == SceneInit /\ [][SceneNext]_<<scene, vars>>

RelaySymmetry == Permutations({r1, r2})
=============================================================================
