----------------------------- MODULE WalletGuard -----------------------------
(* x402-guard/src/evm.ts, guardEvmSigner, and the message signers of        *)
(* index.ts, guardSigner: one call on a guarded signer, from the arguments  *)
(* the host hands in to what the wallet is asked to sign.                   *)
(*                                                                          *)
(* The arguments are the host's own object.  Whenever the call awaits (the  *)
(* intent, the signer's chain, the recovery of a signature) the host may    *)
(* edit that object and the options, the clock moves, and the wallet may    *)
(* change chains.  The lifetime totals are SpendGuard's: holding one either *)
(* succeeds or ends the call.                                               *)
EXTENDS EvmPayment, SignIn, Presets

CONSTANTS
    Calls,      \* [method, args, quote, payer, skew, origin, resource, intentFor, policy]
    Requests,   \* what the host may put in the arguments' place
    Intents,    \* what intentFor may answer; Unread when it throws or answers null
    SwapOptions,    \* what the host may give presets.uniswapV4
    Policies,   \* what the host may put into options.spendPolicy
    Wallets,    \* how a wallet picks the chain it signs for
    MaxEdits,   \* bound: what changes under a call
    MaxTime

(* A viem wallet client signs for the chain its node is on, and asserts the *)
(* chain it is handed; an ethers signer refuses another chain than its own; *)
(* a local account signs for the chain id in the transaction.               *)
ASSUME GuardAssumption == Wallets \subseteq {"client", "ethers", "local"}

(* An intent names a chain, or one that cannot be read; a value and a time  *)
(* are numbers, or what cannot be read; and a text is made of lines.        *)
ASSUME InputAssumption ==
    /\ None \notin Intents /\ \A i \in Intents \ {Unread} : i.chain # None
    /\ \A c \in Calls : c.method = "transaction" => c.args.tx.value \in {Unread} \cup Int
    /\ \A c \in Calls : c.method = "typedData" =>
          /\ c.skew \in Int
          /\ c.quote # None => c.quote.timeout \in {None, Unread} \cup Int
          /\ c.args.typed # None /\ c.args.typed.primary = "transfer" =>
                c.args.typed.before \in {Unread} \cup Int /\ ~ Has(c.args.typed, "signer")
          /\ c.args.signed # None =>
                /\ {c.args.signed.after, c.args.signed.before} \subseteq {Unread} \cup Int
                /\ ~ Has(c.args.signed, "domain")
    /\ \A c \in Calls : c.method \in {"message", "allowed"} => c.args.messages \in Seq(Seq(Line))
    /\ \A c \in Calls : c.method = "signIn" =>
          \A n \in DOMAIN c.args.inputs : c.args.inputs[n].statement \in Seq(Line)

VARIABLES
    call,       \* the call, as made
    args,       \* the arguments, as the host has them now
    policy,     \* options.spendPolicy, as the host has it now
    now,
    wallet,     \* [kind, chain]
    seen,       \* options.seenNonces
    pc,
    read,       \* the one reading of the arguments
    pinned,     \* the policy read for this signing
    intent,     \* what intentFor answered
    handed,     \* what the wallet is handed
    signed,     \* what it signed: [what, chain], None if nothing
    edits

vars == <<call, args, policy, now, wallet, seen, pc, read, pinned, intent, handed, signed, edits>>
outside == <<args, policy, now, wallet, edits>>
mine == <<call, read, pinned, intent, handed, seen>>

Init ==
    /\ call \in Calls
    /\ args = call.args
    /\ policy = call.policy
    /\ now = 1
    /\ wallet \in [kind : IF call.method = "transaction" THEN Wallets ELSE {"local"},
                   chain : Chains]         \* no other call asks the wallet for its chain
    /\ seen \in IF call.method = "typedData" /\ call.quote # None
               THEN {{}, {<<c, a, b, 1>> : c \in Chains, a \in Accounts, b \in Accounts}}
               ELSE {{}}
    /\ pc = "called"
    /\ read = None /\ pinned = None /\ intent = None /\ handed = None /\ signed = None
    /\ edits = 0

Options == [payer |-> call.payer, now |-> now, skew |-> call.skew]
Site == ResolveOrigin(call.origin, call.resource)
Refuse == pc' = "refused" /\ UNCHANGED <<outside, mine, signed>>
At(place, method) == pc = place /\ call.method = method

-----------------------------------------------------------------------------
(* Which check the call takes: guardFn, txGuardFn, the message guards.      *)

IntentGiven == call.intentFor = "given"
Typed == args.typed
IsPermit == Typed # None /\ args.form # "ambiguous" /\ Typed.primary = "PermitSingle"

(* A method nobody modelled, an intentFor that is no function, no quote to  *)
(* check against, a policy that cannot be read; and a transaction without   *)
(* an intentFor, which takes the payment path and has no payment in it (a   *)
(* call that has one is a "typedData" call here, whatever its method).      *)
RefuseCall ==
    /\ pc = "called"
    /\ \/ call.method = "unmodelled"
       \/ call.method \in {"transaction", "typedData"} /\
             \/ call.intentFor = "unreadable"
             \/ policy = Unread
             \/ call.quote = None /\ ~ (IntentGiven /\ (call.method = "transaction" \/ IsPermit))
       \/ At("called", "transaction") /\ ~ IntentGiven
    /\ Refuse

Taken(method) ==
    /\ At("called", method)
    /\ policy # Unread /\ call.intentFor # "unreadable"
    /\ pinned' = policy

(* txGuardFn: the transaction is read once, before the intent is asked for. *)
ReadTransaction ==
    /\ Taken("transaction") /\ IntentGiven
    /\ IF ReadFindings(args.tx) = {}
       THEN read' = Reading(args.tx) /\ pc' = "intent"
       ELSE read' = None /\ pc' = "refused"
    /\ UNCHANGED <<call, outside, intent, handed, signed, seen>>

(* permitGuard: so is a PermitSingle.                                       *)
ReadPermit ==
    /\ Taken("typedData") /\ IntentGiven /\ IsPermit
    /\ IF Absent(args.signed) /\ Typed.plain
       THEN read' = Typed /\ pc' = "intent"
       ELSE read' = None /\ pc' = "refused"
    /\ UNCHANGED <<call, outside, intent, handed, signed, seen>>

(* intentFor answers.  What can be read is held to it at once. *)
Answered(i) ==
    /\ pc = "intent"
    /\ intent' = i
    /\ LET verdict == IF i = Unread THEN "abstain"
                      ELSE IF call.method = "transaction" THEN CheckTransaction(i, read, pinned)
                      ELSE CheckPermit(i, read, pinned)
       IN pc' = IF verdict # "allow" THEN "refused"
                ELSE IF call.method = "transaction" THEN "chain" ELSE "hold"
    /\ handed' = IF call.method = "transaction" THEN handed ELSE read
    /\ UNCHANGED <<call, outside, read, pinned, signed, seen>>

(* A client or an ethers signer may leave its chain unsaid: no getChainId,  *)
(* one that throws, or no provider to ask.                                  *)
SignerChain == IF wallet.kind = "local" THEN {None} ELSE {None, wallet.chain}

(* Mutant: a client is trusted to stay on the chain it said it was on.      *)
HandedAsRead(i) == [read EXCEPT !.chainId = i.chain]

(* The transaction as read, the intent's chain pinned on it: as an id, and  *)
(* as viem's chain, which a client asserts when it signs.                   *)
Handed(i) ==
    [read EXCEPT !.chainId = i.chain,
                 !.chain = IF Absent(@) /\ wallet.kind = "client" THEN i.chain ELSE @]

(* The signer says which chain it is on, if it does. *)
ChainAnswered ==
    /\ pc = "chain"
    /\ \E on \in SignerChain :
          IF on \in {None, intent.chain}
          THEN pc' = "hold" /\ handed' = Handed(intent)
          ELSE pc' = "refused" /\ UNCHANGED handed
    /\ UNCHANGED <<call, outside, read, pinned, intent, signed, seen>>

-----------------------------------------------------------------------------
(* The payment path. *)

(* typedDataFrom, signedPayloadFrom: a call that could be signed two ways,  *)
(* and one with no payment in it, are refused.                              *)
Ambiguous == args.form = "ambiguous" \/ (Typed # None /\ args.signed # None)

PaymentPath ==
    /\ Taken("typedData")
    /\ ~ (IntentGiven /\ IsPermit)
    /\ call.quote # None

RefusePayment ==
    /\ PaymentPath
    /\ Ambiguous \/ (Typed = None /\ (Absent(args.signed) \/ args.more))
    /\ pc' = "refused"
    /\ UNCHANGED <<call, outside, read, intent, handed, signed, seen>>

(* A request to sign: checked and signed in one turn. *)
TypedPayment ==
    /\ PaymentPath /\ ~ Ambiguous /\ Typed # None
    /\ IF CheckTyped(call.quote, Typed, Options, policy) = "allow"
       THEN pc' = "hold" /\ handed' = Typed
       ELSE pc' = "refused" /\ UNCHANGED handed
    /\ read' = Typed
    /\ UNCHANGED <<call, outside, intent, signed, seen>>

(* A signed payment: up to the recovery of its signer. *)
SignedPayment ==
    /\ PaymentPath /\ ~ Ambiguous /\ Typed = None /\ args.signed # None /\ ~ args.more
    /\ read' = args.signed
    /\ pc' = IF Presented(call.quote, args.signed, Options, policy) = "recover"
             THEN "recover" ELSE "refused"
    /\ UNCHANGED <<call, outside, intent, handed, signed, seen>>

(* The signer is known.  The rest is judged on what was read before, at     *)
(* the time it is now.  The wallet is handed the host's own object, as it   *)
(* is now: what was judged, or whatever the host has made of it since.      *)
Recovered ==
    /\ pc = "recover"
    /\ LET verdict == Judged(call.quote, read, Options, pinned, read.signer, seen) IN
       IF verdict = "allow"
       THEN /\ pc' = "hold"
            /\ seen' = seen \cup {NonceKey(call.quote, read)}
            /\ handed' = IF Typed # None THEN Typed ELSE args.signed
       ELSE pc' = "refused" /\ UNCHANGED <<seen, handed>>
    /\ UNCHANGED <<call, outside, read, pinned, intent, signed>>

-----------------------------------------------------------------------------
(* Messages and logins.  index.ts, guardSigner: every one of them is looked *)
(* at before the wallet sees any.                                           *)

(* Mutant: only the first argument is looked at. *)
FirstMessage(m) == IF m = <<>> THEN FALSE ELSE CheckText(m[1], Site)

(* signInGuard, signMessageGuard: a message that cannot be read, reads as   *)
(* two, or is a transaction, is refused like a login for another site.      *)
CheckMessages(m) == m # <<>> /\ \A n \in DOMAIN m : CheckText(m[n], Site)
CheckInputs(m) == m # <<>> /\ \A n \in DOMAIN m : CheckInput(m[n], Site)

(* evm.ts, signInGuard: an EVM wallet's signMessage takes one argument, and *)
(* that one is looked at; any others go along, and nothing signs them.      *)
AllowedMessage ==
    /\ At("called", "allowed")
    /\ IF ~ args.opaque /\ args.messages # <<>> /\ CheckText(args.messages[1], Site)
       THEN pc' = "wallet" /\ handed' = <<args.messages[1]>>
       ELSE pc' = "refused" /\ UNCHANGED handed
    /\ UNCHANGED <<call, outside, read, pinned, intent, signed, seen>>

Message ==
    /\ pc = "called" /\ call.method \in {"message", "signIn"}
    /\ IF /\ ~ args.opaque
          /\ IF call.method = "message" THEN CheckMessages(args.messages)
                                        ELSE CheckInputs(args.inputs)
       THEN /\ pc' = "wallet"
            /\ handed' = IF call.method = "message" THEN args.messages ELSE args.inputs
       ELSE pc' = "refused" /\ UNCHANGED handed
    /\ UNCHANGED <<call, outside, read, pinned, intent, signed, seen>>

-----------------------------------------------------------------------------
(* The wallet.                                                              *)

(* holdAll, reserveTotal: the movements fit the lifetime totals, or not.    *)
Hold ==
    /\ pc = "hold"
    /\ pc' \in IF pinned = None THEN {"wallet"} ELSE {"wallet", "refused"}
    /\ UNCHANGED <<outside, mine, signed>>

ChainSigned ==
    IF call.method # "transaction" THEN None
    ELSE IF wallet.kind = "local" THEN handed.chainId ELSE wallet.chain

WalletAccepts ==
    call.method = "transaction" =>
        CASE wallet.kind = "client" -> handed.chain \in {None, wallet.chain}
          [] wallet.kind = "ethers" -> handed.chainId = wallet.chain
          [] OTHER                  -> TRUE

WalletSigns ==
    /\ pc = "wallet" /\ WalletAccepts
    /\ signed' = [what |-> handed, chain |-> ChainSigned]
    /\ pc' = "signed"
    /\ UNCHANGED <<outside, mine>>

WalletThrows ==
    /\ pc = "wallet"
    /\ pc' = "failed"
    /\ UNCHANGED <<outside, mine, signed>>

(* The host, the clock and the wallet's node, while the call awaits.        *)
Awaiting == pc \in {"intent", "chain", "recover"} \/ (pc = "wallet" /\ call.method = "transaction")

Edit ==
    /\ Awaiting /\ edits < MaxEdits
    /\ edits' = edits + 1
    /\ UNCHANGED <<mine, pc, signed>>
    /\ \/ /\ \E r \in Requests : DOMAIN r = DOMAIN args /\ args' = r
          /\ UNCHANGED <<policy, now, wallet>>
       \/ policy' \in Policies /\ UNCHANGED <<args, now, wallet>>
       \/ now < MaxTime /\ now' = now + 1 /\ UNCHANGED <<args, policy, wallet>>
       \/ \E c \in Chains : wallet' = [wallet EXCEPT !.chain = c] /\ UNCHANGED <<args, policy, now>>

Next ==
    \/ RefuseCall \/ ReadTransaction \/ ReadPermit
    \/ \E i \in Intents : Answered(i)
    \/ ChainAnswered
    \/ RefusePayment \/ TypedPayment \/ SignedPayment \/ Recovered
    \/ Message \/ AllowedMessage
    \/ Hold \/ WalletSigns \/ WalletThrows
    \/ Edit

Spec == Init /\ [][Next]_vars

-----------------------------------------------------------------------------
(* Properties. *)

Conforms(i, t) ==
    /\ t.to = Target(i) /\ InRange(t.value, ValueBound(i))
    /\ CASE i.kind = "native.transfer" -> t.data = Empty
         [] i.kind = "erc20.transfer"  -> /\ t.data.fn = "transfer" /\ t.data.clean
                                          /\ t.data.args[1].w \in i.to
                                          /\ InRange(t.data.args[2].w, i.amount)
         [] i.kind = "erc20.approve"   -> /\ t.data.fn = "approve" /\ t.data.clean
                                          /\ t.data.args[1].w = i.spender
                                          /\ i.amount \in {Unlimited, t.data.args[2].w}
         [] i.kind = "call"            -> /\ t.data.fn = i.fn /\ t.data.clean
                                          /\ DOMAIN t.data.args = DOMAIN i.args
                                          /\ \A n \in DOMAIN i.args :
                                                Means(Signature[i.fn][n], i.args[n], t.data.args[n])

ConformingPermit(i, r) ==
    /\ r.domain = <<i.chain, Target(i)>> /\ r.struct
    /\ r.token = i.token /\ r.spender = i.spender /\ i.amount \in {Unlimited, r.amount}
    /\ InRange(r.expiration, i.expiration) /\ InRange(r.deadline, i.deadline)

UnderIntent == signed # None /\ intent # None

(* tx.ts, evm.ts: what the wallet signs under an intent is what the intent  *)
(* names, in every part, whatever became of the caller's object meanwhile;  *)
(* and a transaction is signed for the intent's chain, wherever the wallet  *)
(* has moved to since it was asked.                                         *)
SignsWhatWasNamed ==
    UnderIntent =>
        IF call.method = "transaction"
        THEN Conforms(intent, signed.what) /\ signed.chain = intent.chain
        ELSE ConformingPermit(intent, signed.what)

(* Another reading of the same intent, to compare a grant with. *)
AlsoAllowed(t) == CheckTransaction(intent, t, None) = "allow"
Readings ==
    {Reading(c.args.tx) : c \in {c \in Calls : c.method = "transaction" /\ ReadFindings(c.args.tx) = {}}}
Terms(t) == <<t.to, t.data.fn, [n \in Standing[t.data.fn].exact |-> t.data.args[n]]>>

CallSigned == UnderIntent /\ call.method = "transaction" /\ intent.kind = "call"

(* What a call grants is settled by its intent, and without limit by name.  *)
GrantNamed ==
    CallSigned => LET t == signed.what
                      fn == t.data.fn
                  IN fn \in DOMAIN Standing =>
                        /\ \A u \in Readings : AlsoAllowed(u) => Terms(u) = Terms(t)
                        /\ GrantsUnlimited(fn, t.data.args) => intent.unlimited

(* Nor does a router it calls, in any plan within its plan.                 *)
RouterGrantNamed ==
    CallSigned => LET data == signed.what.data
                  IN data.fn = "execute" /\ RouterGrants(MaxAmount, data.args) => intent.unlimited

(* No call runs another contract's code as the account. *)
NoDelegate ==
    CallSigned => LET data == signed.what.data
                  IN /\ data.fn = "safeExecute" => data.args[4].w = 0
                     /\ data.fn = "execute7579" => data.args[1].w = 0
                     /\ data.fn = "multiSend" => \A n \in DOMAIN data.args[1].b.records :
                                                    data.args[1].b.records[n] = 0

(* tx.ts, standing authority: under an intent that names a call, who is     *)
(* granted what and how much is settled by the intent alone (every other    *)
(* transaction it allows grants the same); a grant without limit, a         *)
(* router's permits included, is signed only with unlimited: true; and      *)
(* nothing signed runs another contract's code as the account.              *)
StandingNamed == GrantNamed /\ RouterGrantNamed /\ NoDelegate

(* The swaps a router call runs: the input of its swap command is a plan of *)
(* actions, and the input of a swap among them begins with what it swaps.   *)
SwapPositions(plan) == {n \in DOMAIN plan[1].b.commands : plan[1].b.commands[n] = "swap"}
PlansOf(plan) == {plan[2].l[n].b.enc : n \in SwapPositions(plan)}
SwapsRun(t) == {input[1].l : input \in UNION {PlansOf(plan) : plan \in PlansOf(t.data.args)}}

SwapIntents == {SwapExactInSingle(p) : p \in SwapOptions} \ {Unread}

(* tx.ts, presets.uniswapV4: what is signed under its intent runs one swap. *)
(* A swap of the native coin sends the router just what the swap takes, so  *)
(* nothing is left in it for anyone to sweep; a swap of a token sends it no *)
(* coin at all.                                                             *)
NothingLeftInRouter ==
    (UnderIntent /\ call.method = "transaction" /\ intent \in SwapIntents) =>
        \E swap \in SwapsRun(signed.what) :
            /\ SwapsRun(signed.what) = {swap}
            /\ signed.what.value = IF swap[1].l[1].w = Coin THEN swap[2].w ELSE 0

(* A payment pays the quote: its payee, its amount, in the quoted asset's   *)
(* own domain, out of the expected wallet, within the policy.  One still to *)
(* be signed must end within the window the quote asked for; one already    *)
(* signed is its payer's own, and its time is now.                          *)
Pays(m) ==
    LET q == call.quote IN
    /\ m.to = q.payTo /\ m.value = q.amount
    /\ <<q.chain, q.asset>> \in Trusted
    /\ ~ Absent(call.payer) => m.from = call.payer
    /\ ~ PolicyRefuses(pinned, Move(q.asset, m.to, m.value))
    /\ Has(m, "domain") =>             \* a request to sign
          /\ m.primary = "transfer" /\ m.domain = <<q.chain, q.asset>>
          /\ m.before - now <= Day
          /\ q.timeout # None => m.before - now <= q.timeout + Slack
    /\ Has(m, "signer") =>             \* a signed payment
          /\ m.signer = m.from
          /\ now <= m.before + call.skew /\ m.after <= now + call.skew

UnderQuote == signed # None /\ call.method = "typedData" /\ intent = None

(* evm.ts, guardFn: what the wallet is handed as a payment pays the quote,  *)
(* judged by the policy read at first and by the time it is now, as long as *)
(* the host leaves its own object alone while the signer is recovered.  One *)
(* it edits then is handed on as it has become, judged as it was.           *)
PaymentAsQuoted == UnderQuote /\ args = call.args => Pays(signed.what)

(* The lines some reader takes for lines, whatever break is before them.    *)
TextSigned(m) == IF call.method = "signIn" THEN Written(m) ELSE m

(* signin.ts: every line of a signed login that any reader could take for   *)
(* its header or its URI names the site the agent is talking to, in every   *)
(* message the wallet signs.                                                *)
LoginForThisSite ==
    (signed # None /\ call.method \in {"message", "allowed", "signIn"}) =>
        \A n \in DOMAIN signed.what :
            LET text == TextSigned(signed.what[n]) IN
            LinesOf(text, "header") # {} =>
                /\ Site # NoSite
                /\ \A k \in LinesOf(text, "header") \cup LinesOf(text, "uri") : Names(text[k].site, Site)
=============================================================================
