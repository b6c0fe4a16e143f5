------------------------------ MODULE Presets -------------------------------
(* x402-guard/src/tx.ts, presets: intents for calls agents make often.  A   *)
(* preset given arguments it cannot write an intent from throws, and an     *)
(* intentFor that throws names no intent: Unread.                           *)
EXTENDS TxCheck

CONSTANTS
    Exchange, Credit, Usdg, Bridge,     \* ORBIO: the exchange, its tokens, a bridge adapter
    OrbioChain,
    Coin                                \* the native coin, as a pool names it: the zero address

Eq(v) == [eq |-> v]
AnyValue == [any |-> TRUE]
Raw(name) == B([raw |-> name])
NoBytes == Raw("0x")

(* A bound the caller writes is an amount, [eq], or [lte, gte]; two ends    *)
(* that meet are no amount.                                                 *)
IsExact(bound) == Has(bound, "eq")

(* upper: a bound's upper end, None without one. *)
Upper(bound) == IF IsExact(bound) THEN bound.eq ELSE bound.lte

(* boundRule: as a constraint on an argument. *)
BoundRule(bound) == IF IsExact(bound) THEN Eq(W(bound.eq)) ELSE [bound |-> bound]
AtLeast(n) == BoundRule([lte |-> None, gte |-> n])

(* And as an intent's own value or time, which readBound reads. *)
Ends(bound) == IF IsExact(bound) THEN Exactly(bound.eq) ELSE bound

CallIntent(chain, target, fn, rules) ==
    [kind |-> "call", extra |-> FALSE, chain |-> chain, target |-> target, fn |-> fn,
     args |-> rules, value |-> None, unlimited |-> FALSE]

ApproveIntent(chain, token, spender, amount) ==
    [kind |-> "erc20.approve", extra |-> FALSE, chain |-> chain, token |-> token,
     spender |-> spender, amount |-> amount]

(* presets.morpho.borrow: the exact market, a bounded amount, the accounts. *)
MorphoBorrow(chain, morpho, market, assets, receiver) ==
    CallIntent(chain, morpho, "borrow",
        <<[tuple |-> <<Eq(W(market[1])), Eq(W(market[2]))>>], BoundRule(assets), Eq(W(receiver))>>)

(* presets.permit2. *)
Permit2Approve(chain, token, spender, amount, expiration) ==
    CallIntent(chain, Permit2, "permit2Approve",
        <<Eq(W(token)), Eq(W(spender)), Eq(W(amount)), BoundRule(expiration)>>)

Permit2Permit(chain, token, spender, amount, expiration, deadline, permit2) ==
    [kind |-> "permit2.permit", extra |-> FALSE, chain |-> chain, token |-> token,
     spender |-> spender, amount |-> amount, permit2 |-> permit2,
     expiration |-> Ends(expiration), deadline |-> Ends(deadline)]

-----------------------------------------------------------------------------
(* presets.uniswapV4.swapExactInSingle.  p is the caller's                  *)
(* [chain, router, fields, in, out, amountIn, minOut, deadline, permit],    *)
(* permit None or [amount, expiration, deadline], its amount None when left *)
(* to the default.                                                          *)

Pool == Tuple(<<Address, Address>>)     \* the input currency, the output currency
SwapInput(fields) ==
    <<Tuple(<<Pool, Amount, Amount>> \o IF fields = 6 THEN <<Amount, Bytes>> ELSE <<Bytes>>)>>
Settle == <<Address, Amount>>
Actions == B([commands |-> <<"swap", "settle", "take">>])

SwapRules(p) ==
    LET pool == [tuple |-> <<Eq(W(p.in)), Eq(W(p.out))>>]
        swap == <<pool, BoundRule(p.amountIn), AtLeast(p.minOut)>>
                \o (IF p.fields = 6 THEN <<AnyValue>> ELSE <<>>) \o <<Eq(NoBytes)>>
    IN [abi |-> SubPlan,
        args |-> <<Eq(Actions),
            [items |-> <<
                [abi |-> SwapInput(p.fields), args |-> <<[tuple |-> swap]>>],
                [abi |-> Settle, args |-> <<Eq(W(p.in)), BoundRule(AtMost(Upper(p.amountIn)))>>],
                [abi |-> Settle, args |-> <<Eq(W(p.out)), AtLeast(p.minOut)>>]
            >>]>>]

PermitAmount(p) ==
    CASE p.permit.amount = Unlimited -> MaxAmount
      [] p.permit.amount = None      -> IF IsExact(p.amountIn) THEN Upper(p.amountIn) ELSE None
      [] OTHER                       -> p.permit.amount

PermitRules(p) ==
    [abi |-> PermitInput(Address, Amount, Amount),
     args |-> <<[tuple |-> <<[tuple |-> <<Eq(W(p.in)), Eq(W(PermitAmount(p))),
                                          BoundRule(p.permit.expiration), AnyValue>>],
                             Eq(W(p.router)), BoundRule(p.permit.deadline)>>],
                [signature |-> TRUE]>>]

SwapIntent(p) ==
    [CallIntent(p.chain, p.router, "execute",
        <<Eq(B([commands |-> IF p.permit = None THEN <<"swap">> ELSE <<"permit", "swap">>])),
          [items |-> (IF p.permit = None THEN <<>> ELSE <<PermitRules(p)>>) \o <<SwapRules(p)>>],
          BoundRule(p.deadline)>>)
     EXCEPT !.value = IF p.in = Coin THEN Exactly(Upper(p.amountIn)) ELSE Exactly(0),
            !.unlimited = p.permit # None /\ p.permit.amount = Unlimited]

(* Mutant: a range is taken for the native coin too. *)
SwapInRange(p) ==
    IF Upper(p.amountIn) = None \/ (p.permit # None /\ (p.in = Coin \/ PermitAmount(p) = None))
    THEN Unread ELSE SwapIntent(p)

(* The native coin needs an exact amount and no permit; a permit beside a   *)
(* range needs an amount of its own.                                        *)
SwapExactInSingle(p) ==
    IF \/ Upper(p.amountIn) = None
       \/ p.in = Coin /\ ~ IsExact(p.amountIn)
       \/ p.permit # None /\ (p.in = Coin \/ PermitAmount(p) = None)
    THEN Unread ELSE SwapIntent(p)

-----------------------------------------------------------------------------
(* presets.layerZero.oftSend: to, amount, floor and options; the fee and    *)
(* the refund.                                                              *)
OftSend(chain, oft, to, amount, floor, fee, refund) ==
    IF Upper(fee) = None THEN Unread
    ELSE [CallIntent(chain, oft, "send",
             <<[tuple |-> <<Eq(W(to)), BoundRule(amount), AtLeast(floor), Eq(NoBytes)>>],
               [tuple |-> <<BoundRule(fee), Eq(W(0))>>], Eq(W(refund))>>)
          EXCEPT !.value = Ends(fee)]

-----------------------------------------------------------------------------
(* presets.orbio. *)

(* orbioSpend. *)
OrbioSpend(usdgIn, floor) == Upper(usdgIn) # None /\ floor \notin {Unread, 0}

ApproveUsdg(amount) == ApproveIntent(OrbioChain, Usdg, Exchange, amount)
ApproveBridge(amount) == ApproveIntent(OrbioChain, Credit, Bridge, amount)

(* buy, and buyAndActivate with a beneficiary in the recipient's place. *)
Buy(usdgIn, floor, recipient) ==
    IF ~ OrbioSpend(usdgIn, floor) THEN Unread
    ELSE CallIntent(OrbioChain, Exchange, "buy",
             <<BoundRule(usdgIn), AtLeast(floor), Eq(W(recipient)), AnyValue>>)

(* activate: for the sender, or for the beneficiary. *)
Activate(amount, beneficiary) ==
    IF Upper(amount) = None THEN Unread
    ELSE IF beneficiary = None THEN CallIntent(OrbioChain, Credit, "activate", <<BoundRule(amount)>>)
    ELSE CallIntent(OrbioChain, Credit, "activateFor", <<BoundRule(amount), Eq(W(beneficiary))>>)

BridgeCredit(to, amount, floor, fee, refund) ==
    OftSend(OrbioChain, Bridge, to, amount, floor, fee, refund)
=============================================================================
