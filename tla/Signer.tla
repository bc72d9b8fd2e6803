------------------------------- MODULE Signer -------------------------------
(* The signer of piggybank/signer: the keys it holds, the boot guard of the  *)
(* KEK they are sealed under, and the spend windows a transfer is charged to *)
(* before it is signed.  One rail is modelled; its wallets are the treasury, *)
(* the gas station and the users' deposit wallets.  A key is named by its    *)
(* wallet and the order in which it was minted, and so is its address.       *)
(*                                                                           *)
(* A signing request is its sequence of database and backend calls: the      *)
(* brake, the class rule, the jetton pin, one window per asset (opened and   *)
(* recorded under the window's advisory lock) and the signature.  A key      *)
(* command (provision, rotate, migrate) is its reads, its mint and its       *)
(* write.  Nothing serialises requests or commands with each other.          *)
EXTENDS Naturals, FiniteSets, FiniteSetsExt

CONSTANTS
    SigWallets,     \* the wallet ids
    Treasury,       \* the wallet payouts leave from
    Station,        \* the gas station
    SigReqs,        \* signing requests
    SigCmds,        \* key commands, each with its kind
    SigReplicas,    \* signer processes
    SigKeks,        \* the KEKs a process may be started with
    SigCustodian,   \* is the process composed with the key custodian?
    SigTon,         \* is the rail TON (jetton pins) or another?
    SigCap,         \* what the environment allows a window to hold
    SigFeeBudget,   \* the fee budget of one transfer
    SigAmounts,     \* amounts of a request
    SigKinds,       \* what requests move: subset of {"token", "native"}
    SigBrakes,      \* the rows the operator may set the brake to
    SigWindow,      \* length of the sliding window, in ticks
    SigMaxTime,     \* bound on the clock
    SigMaxKeys,     \* bound on the keys of one wallet
    SigOldKeys,     \* are there keys sealed under a KEK that is gone?
    SigFaults       \* subset of {"crash", "dropped", "refused", "release_failed"}

(* SigCap bounds both windows and the brake's ceilings; SigMaxKeys is past   *)
(* what the commands of one scene can mint.                                  *)
SignerAssumption ==
    /\ {Treasury, Station} \subseteq SigWallets
    /\ SigCap \in Nat /\ SigFeeBudget \in Nat /\ SigAmounts \subseteq Nat
    /\ SigMaxKeys \in Nat \ {0}

VARIABLES
    sNow,       \* the database's clock
    sBrake,     \* the operator's brake row
    sRows,      \* native_spend: the charges that count
    sReq,       \* each request's progress
    sSigned,    \* history: the charges of every signature produced
    sKeys,      \* wallet_secrets: every key, archived ones included
    sActive,    \* wallet -> its active key, 0 for none
    sPin,       \* jetton_wallets: the key whose jetton wallet is pinned
    sCmd,       \* each command's progress
    sRetired,   \* history: the keys archived, and on what ground
    sSentinel,  \* kek_sentinel: the KEK this database belongs to
    sBoot       \* each process's boot

spendVars == <<sNow, sBrake, sRows, sReq, sSigned>>
keyVars == <<sKeys, sActive, sPin, sCmd, sRetired>>
bootVars == <<sSentinel, sBoot>>
svars == <<spendVars, keyVars, bootVars>>

Assets == {"usdt", "native"}
NoKek == "none"
Lost == "lost"      \* the KEK of an earlier epoch, held by no process
Backends == {"local", "turnkey"}

Key == [kek : SigKeks \cup {Lost}, backend : Backends]
Charge == [req : SigReqs, wallet : SigWallets, asset : Assets, spend : Nat, at : Nat, cap : Nat]
Request == [at : {"new", "rule", "pin", "usdt", "usdt_open", "native", "native_open", "sign", "done"},
            wallet : SigWallets, kind : {"token", "native"}, amount : Nat, fee : Nat, cap : Nat, spent : Nat,
            charged : SUBSET Charge, by : SigReplicas]
Command == [at : {"new", "find", "supersede", "watch", "mint", "insert", "reread", "candidate", "migrate", "done"},
            wallet : SigWallets, seen : Nat, by : SigReplicas]
Process == [at : {"down", "sentinel", "init", "reread", "up"}, kek : SigKeks]

KindOf(c) == c[1]

(***************************************************************************)
(* Boot: the KEK guard                                                     *)
(***************************************************************************)
Up == {p \in SigReplicas : sBoot[p].at = "up"}
Verified(p) == sSentinel = sBoot[p].kek

\* enforce reads the sentinel first; a database without one is pinned.
StartBoot(p) ==
    /\ sBoot[p].at = "down"
    /\ \E k \in SigKeks : sBoot' = [sBoot EXCEPT ![p] = [at |-> "sentinel", kek |-> k]]
    /\ UNCHANGED <<spendVars, keyVars, sSentinel>>

ReadSentinel(p) ==
    /\ sBoot[p].at = "sentinel"
    /\ sBoot' = [sBoot EXCEPT ![p].at = IF sSentinel = NoKek THEN "init"
                                        ELSE IF Verified(p) THEN "up" ELSE "down"]
    /\ UNCHANGED <<spendVars, keyVars, sSentinel>>

InitSentinel(p) ==
    /\ sBoot[p].at = "init"
    /\ sSentinel' = IF sSentinel = NoKek THEN sBoot[p].kek ELSE sSentinel
    /\ sBoot' = [sBoot EXCEPT ![p].at = "reread"]
    /\ UNCHANGED <<spendVars, keyVars>>

\* The racer that lost the insert verifies against the winner's row.
RereadSentinel(p) ==
    /\ sBoot[p].at = "reread"
    /\ sBoot' = [sBoot EXCEPT ![p].at = IF Verified(p) THEN "up" ELSE "down"]
    /\ UNCHANGED <<spendVars, keyVars, sSentinel>>

\* A process dies with what it was doing: the charges it committed stay.
Ended(q) == [q EXCEPT !.at = "done"]
Underway(q, p) == q.by = p /\ q.at \notin {"new", "done"}
Stop(p) ==
    /\ "crash" \in SigFaults /\ sBoot[p].at # "down"
    /\ sBoot' = [sBoot EXCEPT ![p].at = "down"]
    /\ sReq' = [r \in SigReqs |-> IF Underway(sReq[r], p) THEN Ended(sReq[r]) ELSE sReq[r]]
    /\ sCmd' = [c \in SigCmds |-> IF Underway(sCmd[c], p) THEN Ended(sCmd[c]) ELSE sCmd[c]]
    /\ UNCHANGED <<sNow, sBrake, sRows, sSigned, sKeys, sActive, sPin, sRetired, sSentinel>>

(***************************************************************************)
(* Keys                                                                    *)
(***************************************************************************)
ActiveKey(w) == sKeys[w][sActive[w]]
Opens(k, p) == k.backend = "local" /\ sBoot[p].kek = k.kek
\* What the serving backend can sign with: a sealed key that opens, or a
\* custodian's key where the process is composed with it.
Usable(k, p) == IF SigCustodian THEN k.backend = "turnkey" ELSE Opens(k, p)

Count(w) == Cardinality(DOMAIN sKeys[w])
AddKey(w, k) == [sKeys EXCEPT ![w] = [i \in 1 .. Count(w) + 1 |-> IF i <= Count(w) THEN sKeys[w][i] ELSE k]]
Minted(p) == [kek |-> sBoot[p].kek, backend |-> IF SigCustodian THEN "turnkey" ELSE "local"]

SetCmd(c, at, seen) == sCmd' = [sCmd EXCEPT ![c].at = at, ![c].seen = seen]
CmdDone(c) == SetCmd(c, "done", sCmd[c].seen)

StartCmd(c) ==
    /\ sCmd[c].at = "new"
    /\ \E w \in SigWallets, p \in Up :
         sCmd' = [sCmd EXCEPT ![c] = [at |-> CASE KindOf(c) = "provision" -> "watch"
                                               [] KindOf(c) = "rotate" -> "find"
                                               [] OTHER -> "candidate",
                                      wallet |-> w, seen |-> 0, by |-> p]]
    /\ UNCHANGED <<spendVars, bootVars, sKeys, sActive, sPin, sRetired>>

\* provision: an active key is answered as it stands.
FindWatch(c) ==
    LET w == sCmd[c].wallet IN
    /\ sCmd[c].at = "watch"
    /\ IF sActive[w] # 0 THEN CmdDone(c) ELSE SetCmd(c, "insert", 0)
    /\ UNCHANGED <<spendVars, bootVars, sKeys, sActive, sPin, sRetired>>

\* insert, insert_turnkey: ON CONFLICT DO NOTHING on the active row.
Insert(c) ==
    LET w == sCmd[c].wallet IN
    /\ sCmd[c].at = "insert"
    /\ IF sActive[w] = 0
       THEN /\ Count(w) < SigMaxKeys
            /\ sKeys' = AddKey(w, Minted(sCmd[c].by))
            /\ sActive' = [sActive EXCEPT ![w] = Count(w) + 1]
       ELSE UNCHANGED <<sKeys, sActive>>
    /\ SetCmd(c, "reread", 0)
    /\ UNCHANGED <<spendVars, bootVars, sPin, sRetired>>

\* The re-read answers the active row, or fails when it was superseded since.
Reread(c) ==
    /\ sCmd[c].at = "reread" /\ CmdDone(c)
    /\ UNCHANGED <<spendVars, bootVars, sKeys, sActive, sPin, sRetired>>

\* rotate_address: only a key that does not open is rotated.
FindSealed(c) ==
    LET w == sCmd[c].wallet IN
    /\ sCmd[c].at = "find"
    /\ IF sActive[w] # 0 /\ ActiveKey(w).backend = "local" /\ ~Opens(ActiveKey(w), sCmd[c].by)
       THEN SetCmd(c, "supersede", sActive[w])
       ELSE CmdDone(c)
    /\ UNCHANGED <<spendVars, bootVars, sKeys, sActive, sPin, sRetired>>

\* supersede archives whatever key is active by now, and its pin with it.
Supersede(c) ==
    LET w == sCmd[c].wallet IN
    /\ sCmd[c].at = "supersede"
    /\ IF sActive[w] # 0
       THEN /\ sRetired' = sRetired \cup {[wallet |-> w, key |-> sActive[w], ground |-> "rotated"]}
            /\ sActive' = [sActive EXCEPT ![w] = 0]
            /\ sPin' = [sPin EXCEPT ![w] = 0]
       ELSE UNCHANGED <<sRetired, sActive, sPin>>
    /\ SetCmd(c, "watch", sCmd[c].seen)
    /\ UNCHANGED <<spendVars, bootVars, sKeys>>

\* migrate_address_to_custodian: the gates on the candidate it reads.
FindCandidate(c) ==
    LET w == sCmd[c].wallet IN
    /\ sCmd[c].at = "candidate"
    /\ IF SigCustodian /\ sActive[w] # 0 /\ Opens(ActiveKey(w), sCmd[c].by)
       THEN SetCmd(c, "mint", sActive[w])
       ELSE CmdDone(c)
    /\ UNCHANGED <<spendVars, bootVars, sKeys, sActive, sPin, sRetired>>

\* The mint is a call to the custodian outside any transaction; an account
\* that is minted and never written is an orphan that costs nothing.
Mint(c) ==
    /\ sCmd[c].at = "mint"
    /\ \/ SetCmd(c, "migrate", sCmd[c].seen)
       \/ "refused" \in SigFaults /\ CmdDone(c)
    /\ UNCHANGED <<spendVars, bootVars, sKeys, sActive, sPin, sRetired>>

\* migrate_to_custodian compares by the id of the key it read.
IsCandidate(w, seen) == sActive[w] = seen
Migrate(c) ==
    LET w == sCmd[c].wallet IN
    /\ sCmd[c].at = "migrate"
    /\ IF IsCandidate(w, sCmd[c].seen)
       THEN /\ Count(w) < SigMaxKeys
            /\ sRetired' = sRetired \cup
                 {[wallet |-> w, key |-> sActive[w], ground |-> IF sActive[w] = sCmd[c].seen THEN "drained" ELSE "undrained"]}
            /\ sKeys' = AddKey(w, Minted(sCmd[c].by))
            /\ sActive' = [sActive EXCEPT ![w] = Count(w) + 1]
            /\ sPin' = [sPin EXCEPT ![w] = 0]
       ELSE UNCHANGED <<sKeys, sActive, sPin, sRetired>>
    /\ CmdDone(c)
    /\ UNCHANGED <<spendVars, bootVars>>

\* The caller hangs up: the handler is dropped between two of its steps.
CmdDies(c) ==
    /\ "dropped" \in SigFaults /\ sCmd[c].at \notin {"new", "done"} /\ CmdDone(c)
    /\ UNCHANGED <<spendVars, bootVars, sKeys, sActive, sPin, sRetired>>

(***************************************************************************)
(* Signing requests                                                        *)
(***************************************************************************)
SetReq(r, at) == sReq' = [sReq EXCEPT ![r].at = at]

SetBrake ==
    /\ sBrake' \in SigBrakes \ {sBrake}
    /\ UNCHANGED <<sNow, sRows, sReq, sSigned, keyVars, bootVars>>

\* tightened: the stricter of the environment's ceiling and the brake's.
Tightened(b) == Min({SigCap, b.cap})

\* FeeBudget::check: every part of the fee that is quoted is under its ceiling; only a
\* transfer of TON itself quotes none.
WithinBudget(fee) == fee <= SigFeeBudget /\ (~SigTon => fee > 0)

\* The brake is read before anything else, once; the parse and the fee budget
\* follow on the request alone.
BeginSign(r) ==
    /\ sReq[r].at = "new" /\ ~sBrake.halted
    /\ \E w \in SigWallets, p \in Up, k \in SigKinds, a \in SigAmounts, f \in 0 .. SigFeeBudget :
         /\ WithinBudget(f)
         /\ sReq' = [sReq EXCEPT ![r] = [at |-> "rule", wallet |-> w, kind |-> k, amount |-> a, fee |-> f,
                                        cap |-> Tightened(sBrake), spent |-> 0, charged |-> {}, by |-> p]]
    /\ UNCHANGED <<sNow, sBrake, sRows, sSigned, keyVars, bootVars>>

\* guard_token_transfer, guard_native_transfer: a token leaves the treasury
\* within the cap, or a deposit wallet for the treasury; gas leaves the
\* station for an address whose key is held, or the treasury where opted in.
PassesRule(r) ==
    LET q == sReq[r] IN
    CASE q.wallet = Treasury -> q.amount <= q.cap
      [] q.wallet = Station -> /\ q.kind = "native" /\ q.amount <= SigCap
                               /\ \E w \in SigWallets : sActive[w] # 0
      [] OTHER -> q.kind = "token" /\ sActive[Treasury] # 0

Pinned(r) == SigTon /\ sReq[r].kind = "token"
FirstCharge(r) == IF sReq[r].wallet = Treasury /\ sReq[r].kind = "token" THEN "usdt" ELSE "native"

Rule(r) ==
    /\ sReq[r].at = "rule"
    /\ SetReq(r, IF ~PassesRule(r) THEN "done" ELSE IF Pinned(r) THEN "pin" ELSE FirstCharge(r))
    /\ UNCHANGED <<sNow, sBrake, sRows, sSigned, keyVars, bootVars>>

\* learn_or_read: the first transfer of a wallet pins the jetton wallet it
\* names (the hub derives it from the key it believes in), the others must
\* name the same one.
LearnLatest(w, named) == named
LearnOrRead(w, named) == IF sPin[w] = 0 THEN named ELSE sPin[w]
Pin(r) ==
    LET w == sReq[r].wallet IN
    /\ sReq[r].at = "pin"
    /\ \E named \in 1 .. Count(w) :
         /\ sPin' = [sPin EXCEPT ![w] = LearnOrRead(w, named)]
         /\ SetReq(r, IF LearnOrRead(w, named) = named THEN FirstCharge(r) ELSE "done")
    /\ UNCHANGED <<sNow, sBrake, sRows, sSigned, sKeys, sActive, sCmd, sRetired, bootVars>>

SpendOf(q, asset) ==
    IF asset = "usdt" THEN q.amount
    ELSE q.fee + IF q.kind = "native" THEN q.amount ELSE 0

Opening(asset) == IF asset = "usdt" THEN "usdt_open" ELSE "native_open"
InWindow(w, asset) == {x \in sRows : x.wallet = w /\ x.asset = asset /\ x.at + SigWindow >= sNow}
Sum(rows) == FoldSet(LAMBDA x, acc : x.spend + acc, 0, rows)

\* The advisory lock of (wallet, asset), held until the charge commits.
LockFree(r, asset) ==
    \A o \in SigReqs \ {r} : ~(sReq[o].at = Opening(asset) /\ sReq[o].wallet = sReq[r].wallet)

\* open: what has aged out of the window is dropped, the rest is summed.
Open(r, asset) ==
    /\ sReq[r].at = asset /\ LockFree(r, asset)
    /\ sReq' = [sReq EXCEPT ![r].at = Opening(asset), ![r].spent = Sum(InWindow(sReq[r].wallet, asset))]
    /\ sRows' = {x \in sRows : x.wallet = sReq[r].wallet /\ x.asset = asset => x \in InWindow(x.wallet, asset)}
    /\ UNCHANGED <<sNow, sBrake, sSigned, keyVars, bootVars>>

\* or_release: a request without a signature gives its charges back; a charge
\* whose release fails counts until it ages out.
Released(r) ==
    \E kept \in SUBSET sReq[r].charged :
        /\ kept # {} => "release_failed" \in SigFaults
        /\ sRows' = sRows \ (sReq[r].charged \ kept)
Refuse(r) == Released(r) /\ sReq' = [sReq EXCEPT ![r].at = "done", ![r].charged = {}]

ChargeOf(r, asset) ==
    [req |-> r, wallet |-> sReq[r].wallet, asset |-> asset, spend |-> SpendOf(sReq[r], asset),
     at |-> sNow, cap |-> sReq[r].cap]
\* check_native_spend_window, check_treasury_usdt_window, then record.
Record(r, asset) ==
    LET x == ChargeOf(r, asset) IN
    /\ sReq[r].at = Opening(asset)
    /\ IF sReq[r].spent + x.spend <= sReq[r].cap
       THEN /\ sRows' = sRows \cup {x}
            /\ sReq' = [sReq EXCEPT ![r].at = IF asset = "usdt" THEN "native" ELSE "sign",
                                    ![r].charged = @ \cup {x}, ![r].spent = 0]
       ELSE Refuse(r)
    /\ UNCHANGED <<sNow, sBrake, sSigned, keyVars, bootVars>>

\* sign_digest: a key the backend can use signs; a refusal releases.
CanSign(r) == sActive[sReq[r].wallet] # 0 /\ Usable(ActiveKey(sReq[r].wallet), sReq[r].by)
Sign(r) ==
    /\ sReq[r].at = "sign" /\ CanSign(r)
    /\ sSigned' = sSigned \cup sReq[r].charged
    /\ sReq' = [sReq EXCEPT ![r].at = "done", ![r].charged = {}]
    /\ UNCHANGED <<sNow, sBrake, sRows, keyVars, bootVars>>
SignRefused(r) ==
    /\ sReq[r].at = "sign"
    /\ CanSign(r) => "refused" \in SigFaults
    /\ Refuse(r)
    /\ UNCHANGED <<sNow, sBrake, sSigned, keyVars, bootVars>>

\* The caller hangs up: the charges the request committed stay.
ReqDies(r) ==
    /\ "dropped" \in SigFaults /\ sReq[r].at \notin {"new", "done"}
    /\ sReq' = [sReq EXCEPT ![r].at = "done", ![r].charged = {}]
    /\ UNCHANGED <<sNow, sBrake, sRows, sSigned, keyVars, bootVars>>

\* now() is the start of the transaction that opens a window; the lock is held
\* for two statements, which the clock's unit does not resolve.
SigTick ==
    /\ sNow < SigMaxTime
    /\ \A r \in SigReqs : sReq[r].at \notin {"usdt_open", "native_open"}
    /\ sNow' = sNow + 1
    /\ UNCHANGED <<sBrake, sRows, sReq, sSigned, keyVars, bootVars>>

(***************************************************************************)
(* Specification                                                           *)
(***************************************************************************)
NewReq == [at |-> "new", wallet |-> Treasury, kind |-> "token", amount |-> 0, fee |-> 0, cap |-> 0, spent |-> 0,
           charged |-> {}, by |-> CHOOSE p \in SigReplicas : TRUE]

\* A database that belongs to no KEK yet, or one with keys of every epoch and a
\* process that serves it.
SigInit ==
    /\ sNow = 0 /\ sRows = {} /\ sSigned = {} /\ sRetired = {}
    /\ sBrake = [halted |-> FALSE, cap |-> SigCap]
    /\ sReq = [r \in SigReqs |-> NewReq]
    /\ sCmd = [c \in SigCmds |-> [at |-> "new", wallet |-> Treasury, seen |-> 0, by |-> CHOOSE p \in SigReplicas : TRUE]]
    /\ sPin = [w \in SigWallets |-> 0]
    /\ \E k \in SigKeks :
         \/ /\ sSentinel = NoKek
            /\ sBoot = [p \in SigReplicas |-> [at |-> "down", kek |-> k]]
            /\ sKeys = [w \in SigWallets |-> <<>>] /\ sActive = [w \in SigWallets |-> 0]
         \/ /\ sSentinel = k
            /\ sBoot = [p \in SigReplicas |-> [at |-> "up", kek |-> k]]
            /\ \E epoch \in [SigWallets -> {k} \cup IF SigOldKeys THEN {Lost} ELSE {}] :
                 sKeys = [w \in SigWallets |-> <<[kek |-> epoch[w], backend |-> "local"]>>]
            /\ sActive = [w \in SigWallets |-> 1]

BootNext == \E p \in SigReplicas :
    \/ StartBoot(p)
    \/ ReadSentinel(p)
    \/ InitSentinel(p)
    \/ RereadSentinel(p)
    \/ Stop(p)
KeyNext == \E c \in SigCmds :
    \/ StartCmd(c)
    \/ FindWatch(c)
    \/ Insert(c)
    \/ Reread(c)
    \/ FindSealed(c)
    \/ Supersede(c)
    \/ FindCandidate(c)
    \/ Mint(c)
    \/ Migrate(c)
    \/ CmdDies(c)
SpendNext ==
    \/ SetBrake
    \/ SigTick
    \/ \E r \in SigReqs :
         \/ BeginSign(r)
         \/ Rule(r)
         \/ Pin(r)
         \/ \E asset \in Assets : Open(r, asset) \/ Record(r, asset)
         \/ Sign(r)
         \/ SignRefused(r)
         \/ ReqDies(r)
SigNext == BootNext \/ KeyNext \/ SpendNext
SigSpec == SigInit /\ [][SigNext]_svars

(***************************************************************************)
(* Properties                                                              *)
(***************************************************************************)
SigTypeOK ==
    /\ sNow \in 0 .. SigMaxTime /\ sBrake \in [halted : BOOLEAN, cap : 0 .. SigCap]
    /\ sRows \subseteq Charge /\ sSigned \subseteq Charge
    /\ sReq \in [SigReqs -> Request]
    /\ \A w \in SigWallets : \A i \in DOMAIN sKeys[w] : sKeys[w][i] \in Key
    /\ \A w \in SigWallets : sActive[w] \in {0} \cup DOMAIN sKeys[w] /\ sPin[w] \in {0} \cup DOMAIN sKeys[w]
    /\ sCmd \in [SigCmds -> Command]
    /\ sSentinel \in SigKeks \cup {NoKek} /\ sBoot \in [SigReplicas -> Process]

(* What is signed out of one wallet within a window never exceeds the widest *)
(* ceiling that one of its requests read off the brake, whatever was charged *)
(* side by side, released, left behind by a crash or aged out (charge,       *)
(* native_spend.rs).                                                         *)
SpendWithinWindow ==
    \A x \in sSigned :
        LET spent == {y \in sSigned : /\ y.wallet = x.wallet /\ y.asset = x.asset
                                      /\ y.at <= x.at /\ y.at + SigWindow >= x.at}
        IN  Sum(spent) <= Max({y.cap : y \in spent})

(* An archived key was provably dead, or its address was the one the hub had *)
(* cleared for the very command that archived it: no command retires a key   *)
(* that serves (rotate_address, migrate_address_to_custodian).               *)
RetiredWasDeadOrDrained ==
    \A x \in sRetired :
        \/ x.ground = "drained"
        \/ sKeys[x.wallet][x.key].kek # sSentinel

(* Every process that serves holds the KEK the database was pinned to, and   *)
(* every sealed key minted since opens under it, however many processes      *)
(* boot at once on a fresh database (kek_guard.rs, enforce).                 *)
SealedUnderThePin ==
    /\ \A p \in Up : sBoot[p].kek = sSentinel
    /\ \A w \in SigWallets : \A i \in DOMAIN sKeys[w] :
         sKeys[w][i].kek \in {sSentinel, Lost}

(* A jetton pin stands as long as its key: two first transfers racing learn  *)
(* one address (jetton_wallets.rs, learn_or_read).                           *)
PinKept == \A w \in SigWallets : sPin[w] # 0 /\ sPin'[w] # sPin[w] => sActive'[w] # sActive[w]

(* The keys' and the windows' safety in one.                                 *)
SignerSafe == SpendWithinWindow /\ RetiredWasDeadOrDrained /\ SealedUnderThePin
=============================================================================
