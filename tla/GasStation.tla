----------------------------- MODULE GasStation -----------------------------
(***************************************************************************)
(* The gas station that funds deposit addresses so that they can be swept  *)
(* (sweep.rs, tron_sweep.rs and ton_sweep.rs top_up_gas, rails.rs          *)
(* RefusalBackoff).  On the EVM rails its nonces are handed out by an      *)
(* in-memory allocator over the node's pending count; on TON one message   *)
(* is in flight at a time behind a seqno gate.  Everything the sweep       *)
(* remembers is in memory and a restart forgets it.                        *)
(***************************************************************************)
EXTENDS Naturals, FiniteSets

CONSTANTS GasAddresses,
          GasMaxNonce,    \* transactions the station may send
          GasWindow,      \* VALID_WINDOW_SECS, in ticks
          GasMaxTime,
          GasHolds,       \* strikes after which the hold stops doubling (CAP)
          GasFaults       \* subset of {"lagging", "ambiguous", "rejected", "signer", "refused",
                          \*            "restart", "unlanded"}

GasAssumption == {GasMaxNonce, GasWindow, GasMaxTime, GasHolds} \subseteq Nat

NoNonce == GasMaxNonce + 1
Station == "station"
HoldKeys == GasAddresses \cup {Station}

VARIABLES gMined,    \* nonces of the station mined
          gPool,     \* its transactions in the mempool: [nonce, to]
          gDry,      \* addresses without gas for their sweep
          gNext,     \* GasState.next_nonce
          gGrace,    \* GasState.recent_topups still within their grace
          gStep,     \* the top-up in progress
          gGate,     \* TON: last_gas_seqno and last_gas_at
          gHeld,     \* RefusalBackoff: key -> [strikes, until]
          gNow

gvars == <<gMined, gPool, gDry, gNext, gGrace, gStep, gGate, gHeld, gNow>>

GasHigh(a, b) == IF a > b THEN a ELSE b
GasLow(a, b) == IF a < b THEN a ELSE b
NoStep == [pc |-> "idle", to |-> CHOOSE a \in GasAddresses : TRUE, nonce |-> 0]
Unheld == [strikes |-> 0, until |-> 0]
OpenGate == [seqno |-> NoNonce, at |-> 0]

GasInit ==
    /\ gMined = 0 /\ gPool = {} /\ gDry = GasAddresses
    /\ gNext = NoNonce /\ gGrace = {} /\ gStep = NoStep /\ gGate = OpenGate
    /\ gHeld = [k \in HoldKeys |-> Unheld]
    /\ gNow = 0

-----------------------------------------------------------------------------
(* RefusalBackoff: each refusal of a key doubles its hold up to a cap; a   *)
(* signature clears it.                                                    *)

IsHeld(k) == gNow < gHeld[k].until
Strike(k) ==
    LET strikes == GasLow(gHeld[k].strikes + 1, GasHolds) IN
    gHeld' = [gHeld EXCEPT ![k] = [strikes |-> strikes,
                                   until |-> gNow + 2^(GasLow(strikes, GasHolds) - 1)]]
Released(k) == gHeld' = [gHeld EXCEPT ![k] = Unheld]

\* GasState::allocate and free: never below the node's count, and only the last
\* nonce can be handed back.
Allocated(chain) == IF gNext = NoNonce THEN chain ELSE GasHigh(gNext, chain)
FreeNonce(n) == gNext' = IF gNext = n + 1 THEN n ELSE gNext

\* The node's pending count: its mempool may still be short of what was sent.
PendingViews ==
    LET top == gMined + Cardinality(gPool) IN
    IF "lagging" \in GasFaults THEN gMined..top ELSE {top}

-----------------------------------------------------------------------------
(* The EVM top-up.                                                         *)

\* sweep_address found too little gas; the grace and the station's hold are
\* looked up before the nonce is allocated.
TopUpGas(a) ==
    /\ gStep.pc = "idle"
    /\ a \in gDry /\ ~IsHeld(a)
    /\ a \notin gGrace
    /\ ~IsHeld(Station)
    /\ \E chain \in PendingViews :
          /\ Allocated(chain) < GasMaxNonce
          /\ gStep' = [pc |-> "sign", to |-> a, nonce |-> Allocated(chain)]
          /\ gNext' = Allocated(chain) + 1
    /\ UNCHANGED <<gMined, gPool, gDry, gGrace, gHeld, gNow, gGate>>

\* sign_native: the signature clears the station's hold and starts the grace.
SignTopUp ==
    /\ gStep.pc = "sign"
    /\ gStep' = [gStep EXCEPT !.pc = "send"]
    /\ gGrace' = gGrace \cup {gStep.to}
    /\ Released(Station)
    /\ UNCHANGED <<gMined, gPool, gDry, gNext, gNow, gGate>>

\* The signer is away, or refuses on the merits: the nonce goes back, and a
\* refusal holds the station, not the address.
SignFails ==
    /\ gStep.pc = "sign"
    /\ FreeNonce(gStep.nonce)
    /\ \/ "signer" \in GasFaults /\ UNCHANGED gHeld
       \/ "refused" \in GasFaults /\ Strike(Station)
    /\ gStep' = NoStep
    /\ UNCHANGED <<gMined, gPool, gDry, gGrace, gNow, gGate>>

\* The node takes a transaction at a nonce that is neither mined nor taken.
Admits(n) == n >= gMined /\ \A t \in gPool : t.nonce # n
Pooled == IF Admits(gStep.nonce) THEN gPool \cup {[nonce |-> gStep.nonce, to |-> gStep.to]}
          ELSE gPool

\* Admitted: taken now, or already accounted for ("already known", "nonce too
\* low", "replacement transaction underpriced").
BroadcastAdmitted ==
    /\ gStep.pc = "send"
    /\ gPool' = Pooled
    /\ gStep' = NoStep
    /\ UNCHANGED <<gMined, gDry, gNext, gGrace, gHeld, gNow, gGate>>

\* Rejected: in no mempool; the nonce and the grace are given back.
BroadcastRejected ==
    /\ "rejected" \in GasFaults
    /\ gStep.pc = "send" /\ Admits(gStep.nonce)
    /\ FreeNonce(gStep.nonce)
    /\ gGrace' = gGrace \ {gStep.to}
    /\ gStep' = NoStep
    /\ UNCHANGED <<gMined, gPool, gDry, gHeld, gNow, gGate>>

\* Ambiguous: it may have got there.  The nonce is given back, the grace is not.
BroadcastAmbiguous ==
    /\ "ambiguous" \in GasFaults
    /\ gStep.pc = "send"
    /\ gPool' \in {gPool, Pooled}
    /\ FreeNonce(gStep.nonce)
    /\ gStep' = NoStep
    /\ UNCHANGED <<gMined, gDry, gGrace, gHeld, gNow, gGate>>

MineTopUp ==
    /\ \E t \in gPool : /\ t.nonce = gMined
                        /\ gPool' = gPool \ {t}
                        /\ gDry' = gDry \ {t.to}
    /\ gMined' = gMined + 1
    /\ UNCHANGED <<gNext, gGrace, gStep, gHeld, gNow, gGate>>

\* A sweep spends an address's gas; its signature may be refused, which holds
\* the address.
SweepSpends(a) ==
    /\ a \notin gDry /\ ~IsHeld(a) /\ gStep.pc = "idle"
    /\ \/ gDry' = gDry \cup {a} /\ Released(a)
       \/ "refused" \in GasFaults /\ Strike(a) /\ UNCHANGED gDry
    /\ UNCHANGED <<gMined, gPool, gNext, gGrace, gStep, gNow, gGate>>

GraceEnds(a) ==
    /\ a \in gGrace
    /\ gGrace' = gGrace \ {a}
    /\ UNCHANGED <<gMined, gPool, gDry, gNext, gStep, gHeld, gNow, gGate>>

GasTick ==
    /\ gNow < GasMaxTime /\ gNow' = gNow + 1
    /\ UNCHANGED <<gMined, gPool, gDry, gNext, gGrace, gStep, gHeld, gGate>>

GasRestart ==
    /\ "restart" \in GasFaults
    /\ gNext' = NoNonce /\ gGrace' = {} /\ gStep' = NoStep /\ gGate' = OpenGate
    /\ gHeld' = [k \in HoldKeys |-> Unheld]
    /\ UNCHANGED <<gMined, gPool, gDry, gNow>>

GasNext ==
    \/ \E a \in GasAddresses : TopUpGas(a) \/ SweepSpends(a) \/ GraceEnds(a)
    \/ SignTopUp \/ SignFails \/ BroadcastAdmitted \/ BroadcastRejected
    \/ BroadcastAmbiguous \/ MineTopUp \/ GasTick \/ GasRestart

-----------------------------------------------------------------------------
(* The TON station: gMined is its seqno on chain and gPool the messages    *)
(* signed for it, which a window bounds.                                   *)

\* A message is dropped unless its seqno is the chain's.
Live(m) == m.nonce = gMined /\ gNow <= m.until /\ ~m.dropped
GateClosed == gGate.seqno # NoNonce /\ gMined <= gGate.seqno /\ gNow < gGate.at + GasWindow

\* The gate moves only when the endpoint accepted the message, which does not
\* mean that it lands.
TonTopUp(a) ==
    /\ a \in gDry /\ a \notin gGrace
    /\ ~IsHeld(Station)
    /\ ~GateClosed
    /\ gMined < GasMaxNonce
    /\ \E dropped \in IF "unlanded" \in GasFaults THEN BOOLEAN ELSE {FALSE},
          accepted \in IF "ambiguous" \in GasFaults THEN BOOLEAN ELSE {TRUE} :
          /\ gPool' = {m \in gPool : gNow <= m.until}
                       \cup {[nonce |-> gMined, to |-> a, until |-> gNow + GasWindow,
                              dropped |-> dropped]}
          /\ gGate' = IF accepted THEN [seqno |-> gMined, at |-> gNow] ELSE gGate
    /\ gGrace' = gGrace \cup {a}
    /\ Released(Station)
    /\ UNCHANGED <<gMined, gDry, gNext, gStep, gNow>>

TonRefused(a) ==
    /\ "refused" \in GasFaults
    /\ a \in gDry /\ a \notin gGrace
    /\ ~IsHeld(Station)
    /\ ~GateClosed
    /\ Strike(Station)
    /\ UNCHANGED <<gMined, gPool, gDry, gNext, gGrace, gStep, gGate, gNow>>

TonLands ==
    /\ \E m \in gPool : /\ Live(m)
                        /\ gDry' = gDry \ {m.to}
    /\ gMined' = gMined + 1
    /\ gPool' = {}
    /\ UNCHANGED <<gNext, gGrace, gStep, gGate, gHeld, gNow>>

TonGasNext ==
    \/ \E a \in GasAddresses : TonTopUp(a) \/ TonRefused(a) \/ SweepSpends(a) \/ GraceEnds(a)
    \/ TonLands \/ GasTick \/ GasRestart

-----------------------------------------------------------------------------
GasTypeOK ==
    /\ gMined \in 0..GasMaxNonce /\ gNext \in 0..NoNonce
    /\ \A t \in gPool : t.nonce \in 0..GasMaxNonce /\ t.to \in GasAddresses
    /\ gDry \subseteq GasAddresses /\ gGrace \subseteq GasAddresses
    /\ \A k \in HoldKeys : gHeld[k].strikes \in 0..GasHolds
    /\ gNow \in 0..GasMaxTime

(* The station's transactions in the pool leave no nonce out, and the next *)
(* one is not signed above them: a nonce that was consumed and never sent  *)
(* would queue every later top-up behind it (sweep.rs free_gas_nonce).     *)
NoNonceGap ==
    /\ \A t \in gPool, n \in 0..GasMaxNonce :
           gMined <= n /\ n < t.nonce => \E s \in gPool : s.nonce = n
    /\ gStep.pc = "idle" /\ gNext # NoNonce => gNext <= gMined + Cardinality(gPool)

(* The TON gate waits only for a message that may still land: once all of  *)
(* them have expired top-ups go out again, though the endpoint accepted    *)
(* one and the seqno never moved (ton_sweep.rs top_up_gas).                *)
GateWaitsForTheLiving ==
    GateClosed => \E m \in gPool : gNow <= m.until

=============================================================================
