----------------------------- MODULE SpendGuard -----------------------------
(***************************************************************************)
(* The payment guard's signing path and its running totals: guardEvmSigner *)
(* (x402-guard/src/evm.ts), guardSigner (x402-guard/src/index.ts) and the  *)
(* spend tracker of x402-guard/src/policy.ts.                              *)
(*                                                                         *)
(* One guard, one tracker, several signing calls in flight.  JavaScript    *)
(* runs one call at a time between awaits: `running` is the call inside    *)
(* its holding or releasing loop, and nothing else moves until the loop is *)
(* done.  A call that awaits (signature recovery, intentFor, the signer's  *)
(* chain, the wallet) leaves `running` free, and the host may put another  *)
(* spending policy into the options meanwhile.                             *)
(*                                                                         *)
(* An amount of n base units is n units, so that a total is the size of a  *)
(* set of units.                                                           *)
(***************************************************************************)
EXTENDS Integers, Sequences, FiniteSets

CONSTANTS
    Calls,          \* the signing calls made on the guard
    Assets,         \* token addresses or mints, NATIVE_ASSET included
    Payees,         \* addresses a payment may go to
    Nonces,         \* EIP-3009 nonces
    Requests,       \* what the calls ask to have signed
    Policies,       \* the spending policies the host's options may carry
    MaxAmount,      \* the largest amount of a movement
    MaxMoves,       \* the most movements one call may have
    WalletOutcomes, \* what a wallet may do with a call
    NoCall, NoNonce, Unset, Unreadable

ASSUME SpendAssumption ==
    /\ IsFiniteSet(Calls)
    /\ MaxAmount \in Nat
    /\ MaxMoves \in Nat
    /\ NoCall \notin Calls
    /\ NoNonce \notin Nonces
    /\ WalletOutcomes \subseteq {"signs", "throws", "signs_then_throws"}

Movement == [asset : Assets, payTo : Payees, amount : 1..MaxAmount]

(* "payment" is a typed-data request or one Solana transaction, "batch" is *)
(* signAllTransactions, "auth" an already-signed EIP-3009 payload,         *)
(* "permit" a Permit2 allowance and "tx" an EVM transaction with an intent.*)
Kinds == {"payment", "batch", "auth", "permit", "tx"}

Request == [kind : Kinds, conforms : BOOLEAN, nonce : Nonces \cup {NoNonce},
            moves : Seq(Movement)]

(* A map of amounts: base units for some of the assets. *)
IsAmountMap(f) == DOMAIN f \subseteq Assets /\ f \in [DOMAIN f -> Nat]

(* A ReadPolicy: every limit is absent (null) or has a value. *)
IsReadPolicy(p) ==
    /\ DOMAIN p = {"assets", "payees", "maxPerPayment", "maxTotal"}
    /\ p.assets # Unset => p.assets \subseteq Assets
    /\ p.payees # Unset => p.payees \subseteq Payees
    /\ p.maxPerPayment # Unset => IsAmountMap(p.maxPerPayment)
    /\ p.maxTotal # Unset => IsAmountMap(p.maxTotal)

ASSUME InputAssumption ==
    /\ \A r \in Requests : r \in Request /\ Len(r.moves) \in 1..MaxMoves
    /\ \A p \in Policies \ {Unreadable} : IsReadPolicy(p)

VARIABLES
    policy,   \* options.spendPolicy as the host has it now
    seen,     \* options.seenNonces
    spent,    \* the tracker's Map: units counted against each asset's total
    pc,       \* where each call is
    req,      \* what each call asks for, as read once
    pinned,   \* the policy each call read
    held,     \* the movements whose release closure is still live
    running,  \* the call inside a synchronous loop, or NoCall
    sigs      \* the calls the wallet has signed

vars == <<policy, seen, spent, pc, req, pinned, held, running, sigs>>

Settled == {"signed", "refused", "failed"}
Places == {"idle", "recover", "recovered", "intent", "chain", "hold", "undo",
           "wallet", "release"} \cup Settled

Moves(c) == req[c].moves
MoveIndex(c) == DOMAIN Moves(c)

-----------------------------------------------------------------------------
(* policy.ts: the checks of one payment, and the tracker.                  *)

(* checkSpendPolicy: the policy has no finding for this movement. *)
PolicyAllows(p, m) ==
    /\ p.assets # Unset => m.asset \in p.assets
    /\ p.payees # Unset => m.payTo \in p.payees
    /\ p.maxPerPayment # Unset =>
          /\ m.asset \in DOMAIN p.maxPerPayment
          /\ m.amount <= p.maxPerPayment[m.asset]

(* The check's verdict is allow: what is asked matches the quote or the    *)
(* intent, and the pinned policy has no finding for any movement.          *)
CheckAllows(r, p) ==
    /\ r.conforms
    /\ \A i \in DOMAIN r.moves : PolicyAllows(p, r.moves[i])

(* Mutant: the amount asked is left out of the comparison. *)
FitsBefore(p, m) ==
    /\ m.asset \in DOMAIN p.maxTotal
    /\ spent[m.asset] < p.maxTotal[m.asset]

(* createSpendTracker().reserve does not return a finding. *)
Fits(p, m) ==
    /\ m.asset \in DOMAIN p.maxTotal
    /\ spent[m.asset] + m.amount <= p.maxTotal[m.asset]

Reserve(c, i) ==
    /\ spent' = [spent EXCEPT ![Moves(c)[i].asset] = @ + Moves(c)[i].amount]
    /\ held' = [held EXCEPT ![c] = @ \cup {i}]

(* Mutant: the closure is spent and the amount stays counted. *)
ReleaseKeepsCount(c, i) ==
    /\ i \in held[c]
    /\ held' = [held EXCEPT ![c] = @ \ {i}]
    /\ UNCHANGED spent

(* Mutant: the closure captures the loop's last movement and trusts itself. *)
ReleaseLast(c, i) ==
    LET m == Moves(c)[Len(Moves(c))] IN
    /\ i \in held[c]
    /\ held' = [held EXCEPT ![c] = @ \ {i}]
    /\ spent' = [spent EXCEPT ![m.asset] = @ - m.amount]

(* The release closure of movement i: at most once, and never below zero.  *)
Release(c, i) ==
    LET m == Moves(c)[i] IN
    /\ i \in held[c]
    /\ held' = [held EXCEPT ![c] = @ \ {i}]
    /\ spent' = [spent EXCEPT ![m.asset] = IF @ <= m.amount THEN 0 ELSE @ - m.amount]

-----------------------------------------------------------------------------
Init ==
    /\ policy \in Policies
    /\ seen = {}
    /\ spent = [a \in Assets |-> 0]
    /\ pc = [c \in Calls |-> "idle"]
    /\ req \in [Calls -> Requests]
    /\ pinned = [c \in Calls |-> Unreadable]
    /\ held = [c \in Calls |-> {}]
    /\ running = NoCall
    /\ sigs = {}

Goto(c, place) == pc' = [pc EXCEPT ![c] = place]

(* Where a call goes when its check has passed: into the holding loop,     *)
(* without an await in between.                                            *)
StartHolding(c) == Goto(c, "hold") /\ running' = c

Refuse(c) == Goto(c, "refused") /\ running' = NoCall

(* The host replaces, edits or removes the policy in its options object.   *)
SetPolicy ==
    /\ running = NoCall
    /\ policy' \in Policies \ {policy}
    /\ UNCHANGED <<seen, spent, pc, req, pinned, held, running, sigs>>

(* guardFn, permitGuard and txGuardFn up to their first await: the policy  *)
(* is pinned, and a synchronous check runs at once.                        *)
Begin(c) ==
    /\ running = NoCall
    /\ pc[c] = "idle"
    /\ pinned' = [pinned EXCEPT ![c] = policy]
    /\ \/ policy = Unreadable /\ Refuse(c)
       \/ /\ policy # Unreadable
          /\ req[c].kind \in {"payment", "batch"}
          /\ IF CheckAllows(req[c], policy) THEN StartHolding(c) ELSE Refuse(c)
       \/ /\ policy # Unreadable
          /\ req[c].kind = "auth"
          /\ Goto(c, "recover") /\ UNCHANGED running
       \/ /\ policy # Unreadable
          /\ req[c].kind \in {"permit", "tx"}
          /\ Goto(c, "intent") /\ UNCHANGED running
    /\ UNCHANGED <<policy, seen, spent, req, held, sigs>>

(* Mutant: the session's nonces are consulted and never added to. *)
CommitNothing(c, allow) == UNCHANGED seen

(* A nonce is committed on a verdict of allow only. *)
CommitNonce(c, allow) ==
    seen' = IF allow /\ req[c].nonce # NoNonce THEN seen \cup {req[c].nonce} ELSE seen

(* inspectAuthorization after `await recoverTypedDataAddress`: the nonce   *)
(* is looked up and, on a verdict of allow, committed.  The guard itself   *)
(* goes on in a later microtask.                                           *)
Recovered(c) ==
    LET allow == CheckAllows(req[c], pinned[c]) /\ req[c].nonce \notin seen IN
    /\ running = NoCall
    /\ pc[c] = "recover"
    /\ IF allow THEN Goto(c, "recovered") ELSE Goto(c, "refused")
    /\ CommitNonce(c, allow)
    /\ UNCHANGED <<policy, spent, req, pinned, held, running, sigs>>

(* Mutant: signing calls are put in line behind whoever is at the wallet.  *)
ResumeInLine(c) ==
    /\ running = NoCall
    /\ pc[c] = "recovered"
    /\ \A d \in Calls : pc[d] # "wallet"
    /\ StartHolding(c)
    /\ UNCHANGED <<policy, seen, spent, req, pinned, held, sigs>>

(* guardFn after `await inspectAuthorization`. *)
ResumeSigned(c) ==
    /\ running = NoCall
    /\ pc[c] = "recovered"
    /\ StartHolding(c)
    /\ UNCHANGED <<policy, seen, spent, req, pinned, held, sigs>>

(* permitGuard and txGuardFn after `await intentFor`: no intent, a throw,  *)
(* or a check that does not allow refuses; a transaction then asks the     *)
(* signer for its chain, a permit goes straight to holding.                *)
IntentAnswered(c) ==
    /\ running = NoCall
    /\ pc[c] = "intent"
    /\ \/ Refuse(c)
       \/ /\ CheckAllows(req[c], pinned[c])
          /\ IF req[c].kind = "tx" THEN Goto(c, "chain") /\ UNCHANGED running
                                   ELSE StartHolding(c)
    /\ UNCHANGED <<policy, seen, spent, req, pinned, held, sigs>>

(* txGuardFn after `await signerChain`: another chain than the intent's is *)
(* refused (X402-701).                                                     *)
ChainAnswered(c) ==
    /\ running = NoCall
    /\ pc[c] = "chain"
    /\ Refuse(c) \/ StartHolding(c)
    /\ UNCHANGED <<policy, seen, spent, req, pinned, held, sigs>>

(* Mutant: the options are read again for the totals. *)
PolicyReadAgain(c) == IF policy = Unreadable THEN pinned[c] ELSE policy

(* The policy the totals are held against: the one the check has used. *)
TotalsPolicy(c) == pinned[c]

(* A movement that does not fit gives up what the call holds so far. *)
GiveUp(c) == Goto(c, "undo")

(* One turn of holdAll's loop, or of the batch loop in guardSigner. *)
HoldNext(c) ==
    LET i == Cardinality(held[c]) + 1
        p == TotalsPolicy(c) IN
    /\ running = c
    /\ pc[c] = "hold"
    /\ p.maxTotal # Unset
    /\ i \in MoveIndex(c)
    /\ IF Fits(p, Moves(c)[i])
       THEN Reserve(c, i) /\ UNCHANGED pc
       ELSE GiveUp(c) /\ UNCHANGED <<spent, held>>
    /\ UNCHANGED <<policy, seen, req, pinned, running, sigs>>

(* Mutant: one movement held is taken for all of them. *)
AnyHeld(c) == TotalsPolicy(c).maxTotal # Unset => held[c] # {}

AllHeld(c) == TotalsPolicy(c).maxTotal # Unset => held[c] = MoveIndex(c)

(* signHeld calls the wallet: every movement is held, or the policy sets   *)
(* no totals and there is nothing to hold.                                 *)
CallWallet(c) ==
    /\ running = c
    /\ pc[c] = "hold"
    /\ AllHeld(c)
    /\ Goto(c, "wallet")
    /\ running' = NoCall
    /\ UNCHANGED <<policy, seen, spent, req, pinned, held, sigs>>

(* The wallet's promise resolves. *)
WalletSigns(c) ==
    /\ running = NoCall
    /\ pc[c] = "wallet"
    /\ "signs" \in WalletOutcomes
    /\ Goto(c, "signed")
    /\ sigs' = sigs \cup {c}
    /\ UNCHANGED <<policy, seen, spent, req, pinned, held, running>>

(* The wallet throws or its promise rejects, having signed or not. *)
WalletThrows(c) ==
    /\ running = NoCall
    /\ pc[c] = "wallet"
    /\ \/ "throws" \in WalletOutcomes /\ UNCHANGED sigs
       \/ "signs_then_throws" \in WalletOutcomes /\ sigs' = sigs \cup {c}
    /\ Goto(c, "release")
    /\ running' = c
    /\ UNCHANGED <<policy, seen, spent, req, pinned, held>>

(* One turn of releaseAll: after a movement that did not fit, or after a   *)
(* wallet that threw.                                                      *)
ReleaseNext(c) ==
    /\ running = c
    /\ pc[c] \in {"undo", "release"}
    /\ \E i \in held[c] : (\A j \in held[c] : i <= j) /\ Release(c, i)
    /\ UNCHANGED <<policy, seen, pc, req, pinned, running, sigs>>

(* Nothing is left to release: the call ends with its error. *)
Released(c) ==
    /\ running = c
    /\ pc[c] \in {"undo", "release"}
    /\ held[c] = {}
    /\ Goto(c, IF pc[c] = "undo" THEN "refused" ELSE "failed")
    /\ running' = NoCall
    /\ UNCHANGED <<policy, seen, spent, req, pinned, held, sigs>>

(* The steps JavaScript itself takes once it may: a synchronous loop, and  *)
(* the microtasks of signature recovery.                                   *)
Own(c) ==
    \/ Recovered(c) \/ ResumeSigned(c) \/ HoldNext(c) \/ CallWallet(c)
    \/ ReleaseNext(c) \/ Released(c)

(* The steps that wait for the caller, the host's hooks or the wallet. *)
Others(c) ==
    \/ Begin(c) \/ IntentAnswered(c) \/ ChainAnswered(c)
    \/ WalletSigns(c) \/ WalletThrows(c)

Next == SetPolicy \/ \E c \in Calls : Own(c) \/ Others(c)

Spec == Init /\ [][Next]_vars

(* The runtime runs what is ready; hooks, wallet and host owe nothing. *)
FairSpec == Spec /\ \A c \in Calls : WF_vars(Own(c))

-----------------------------------------------------------------------------
(* Properties.                                                             *)

TypeOK ==
    /\ policy \in Policies
    /\ seen \subseteq Nonces
    /\ spent \in [Assets -> Nat]
    /\ pc \in [Calls -> Places]
    /\ req \in [Calls -> Requests]
    /\ pinned \in [Calls -> Policies \cup {Unreadable}]
    /\ held \in [Calls -> SUBSET (1..MaxMoves)]
    /\ running \in Calls \cup {NoCall}
    /\ sigs \subseteq Calls

Unit == Calls \X (1..MaxMoves) \X (1..MaxAmount)

(* Unit x is one of the base units its call's movement x[2] moves in a. *)
UnitOf(x, a) ==
    /\ x[2] \in MoveIndex(x[1])
    /\ Moves(x[1])[x[2]].asset = a
    /\ x[3] <= Moves(x[1])[x[2]].amount

HeldUnits(a) == {x \in Unit : x[2] \in held[x[1]] /\ UnitOf(x, a)}

(* The calls whose payments count: signed while a total was set. *)
CountedSigners == {c \in sigs : pinned[c].maxTotal # Unset}

SignedUnits(a) == {x \in Unit : x[1] \in CountedSigners /\ UnitOf(x, a)}

SignersOf(a) == {c \in CountedSigners : \E i \in MoveIndex(c) : Moves(c)[i].asset = a}

(* The tracker's total for an asset is exactly what live holds add up to:  *)
(* no failed call, partial batch or call made under another policy leaves  *)
(* anything behind or refunds what another call holds (policy.ts 555-563). *)
SpentIsHeld == \A a \in Assets : spent[a] = Cardinality(HeldUnits(a))

(* The most one guard may sign in total (policy.ts 42): all that was ever  *)
(* signed in an asset while a total was set, over concurrent calls and a   *)
(* total that is raised, lowered or removed meanwhile, is within the total *)
(* that one of the signing calls had read.                                 *)
LifetimeTotal ==
    \A a \in Assets : SignersOf(a) # {} =>
        \E c \in SignersOf(a) :
            /\ a \in DOMAIN pinned[c].maxTotal
            /\ Cardinality(SignedUnits(a)) <= pinned[c].maxTotal[a]

(* A call that reaches its wallet was checked and counted under one and    *)
(* the same policy, whatever the host did to its options while the call    *)
(* waited: every movement passes that policy's checks, and every movement  *)
(* is held if that policy sets totals, none if it does not.                *)
OnePolicyPerSigning ==
    \A c \in Calls : pc[c] \in {"wallet", "signed"} =>
        /\ pinned[c] # Unreadable
        /\ CheckAllows(req[c], pinned[c])
        /\ held[c] = IF pinned[c].maxTotal = Unset THEN {} ELSE MoveIndex(c)

(* Of the calls carrying one authorization nonce, at most one ever reaches *)
(* the wallet, though each looks the nonce up only after an await and goes *)
(* on only after another (evm.ts 1123-1159).                               *)
NonceSignedOnce ==
    \A c, d \in Calls :
        /\ c # d
        /\ req[c].kind = "auth" /\ req[d].kind = "auth"
        /\ req[c].nonce = req[d].nonce /\ req[c].nonce # NoNonce
        => ~ (pc[c] \in {"wallet", "signed", "release", "failed"}
              /\ pc[d] \in {"wallet", "signed", "release", "failed"})

(* An already-signed payment never hangs in the guard itself: it reaches   *)
(* the wallet or is refused, with nothing but JavaScript's own scheduling. *)
AuthSettles ==
    \A c \in Calls : pc[c] = "recover" ~> pc[c] \in {"wallet"} \cup Settled

-----------------------------------------------------------------------------
(* The budget of SpendBudget, as this guard keeps it.                      *)

Claim(c) == {x \in Assets \X (1..MaxMoves) \X (1..MaxAmount) :
                UnitOf(<<c, x[2], x[3]>>, x[1])}

budgetState == [c \in Calls |->
    CASE pc[c] \in {"wallet", "release"} -> "taken"
      [] pc[c] = "signed" -> "signed"
      [] pc[c] \in {"refused", "failed"} -> "closed"
      [] OTHER -> "open"]

budgetTaken == [c \in Calls |->
    IF pc[c] \in {"wallet", "release", "signed"} /\ pinned[c].maxTotal # Unset
    THEN Claim(c) ELSE {}]

Budget == INSTANCE SpendBudget WITH
    Limits <- {p.maxTotal : p \in {q \in Policies \ {Unreadable} : q.maxTotal # Unset}},
    state <- budgetState, taken <- budgetTaken

(* The tracker, its loops and its awaits amount to the budget: claims are  *)
(* taken whole, fit when taken, and are given back whole or kept for good. *)
KeepsBudget == Budget!BudgetSpec
=============================================================================
