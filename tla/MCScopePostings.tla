--------------------------- MODULE MCScopePostings ---------------------------
(***************************************************************************)
(* An instance of ScopePostings for liveness: a fee sweep with banking's   *)
(* route of it.                                                            *)
(***************************************************************************)
EXTENDS ScopePostings, TLC

CONSTANTS p1, p2, u1, s1, s2, r1, r2, x1

SweepAndRoute == p1 :> "sweep" @@ p2 :> "route"
SweepRoute == p1 :> p2
SweepFrom == p1 :> u1 @@ p2 :> s1
SweepAmount == p1 :> 2 @@ p2 :> 2
SweepTo == p1 :> s1 @@ p2 :> s2
SweepFunds == u1 :> 2 @@ s1 :> 0 @@ s2 :> 0
SweepStill == u1 :> 0 @@ s1 :> 0 @@ s2 :> 0

\* FairSpec, written with steps that change something: the same behaviours.  The faults this
\* instance leaves out have their steps in MCPostScenes.
LiveSpec == Init /\ [][Next /\ vars' # vars]_vars /\ Fairness
=============================================================================
