---------------------------- MODULE MCWalletGuard ----------------------------
(* Two chains and six addresses; transactions and intents of every sort the *)
(* check tells apart, requests to sign a payment or an allowance, signed    *)
(* payments, messages and logins, conforming and not.                       *)
EXTENDS WalletGuard, TxNested, TLC

CONSTANTS me, shop, other, usdc, vault, permit2, native, unlimited, empty,
          here, there, noSite, badSite, coin, orbio

MCTrusted == {<<1, usdc>>}

-----------------------------------------------------------------------------
(* Transactions. *)

Do(fn, values) == [fn |-> fn, args |-> values, clean |-> TRUE]
Tx(to, data) ==
    [plain |-> TRUE, delegates |-> FALSE, typed |-> TRUE, blobs |-> FALSE, suffix |-> FALSE,
     to |-> to, data |-> data, input |-> None, value |-> 0, chainId |-> None, chain |-> None]

Transfer(to, n) == Do("transfer", <<W(to), W(n)>>)
Approve(to, n) == Do("approve", <<W(to), W(n)>>)
PermitBytes(n) ==
    Encoded(<<L(<<L(<<W(usdc), W(n), W(2), W(0)>>), W(vault), W(2)>>), B([sig |-> 65])>>)
Loose == B([enc |-> PermitBytes(3).b.enc, clean |-> FALSE])
Commands(cs) == B([commands |-> cs])
Route(cs, inputs) == Do("execute", <<Commands(cs), L(inputs), W(1)>>)
Plan(n) == Encoded(<<Commands(<<"permit">>), L(<<PermitBytes(n)>>)>>)
Swap == Raw("swap")
SwapOf(in, n, fields) ==
    Encoded(<<Actions, L(<<
        Encoded(<<L(<<L(<<W(in), W(shop)>>), W(n), W(1)>>
                    \o (IF fields = 6 THEN <<W(0)>> ELSE <<>>) \o <<NoBytes>>)>>),
        Encoded(<<W(in), W(n)>>), Encoded(<<W(shop), W(1)>>)>>)>>)
SwapTx(in, n, value, fields) ==
    [Tx(vault, Route(<<"swap">>, <<SwapOf(in, n, fields)>>)) EXCEPT !.value = value]
PermittedSwap(n) == Tx(vault, Route(<<"permit", "swap">>, <<PermitBytes(n), SwapOf(usdc, 2, 6)>>))
Borrow(n, to) == Do("borrow", <<L(<<W(usdc), W(vault)>>), W(n), W(to)>>)
Grant(n) == Do("permit2Permit", <<W(me), L(<<L(<<W(usdc), W(n), W(2), W(0)>>), W(vault), W(2)>>), B([sig |-> 65])>>)
Safe(inner, op) == Do("safeExecute", <<W(usdc), W(0), inner, W(op)>>)

TransferTx == Tx(usdc, Transfer(shop, 2))

Transactions == {
    TransferTx, Tx(usdc, Transfer(shop, 3)), Tx(usdc, Transfer(other, 2)),
    [TransferTx EXCEPT !.chainId = 1], [TransferTx EXCEPT !.chainId = 2],
    [TransferTx EXCEPT !.chainId = 1, !.chain = 2], [TransferTx EXCEPT !.chain = 1],
    [TransferTx EXCEPT !.plain = FALSE], [TransferTx EXCEPT !.delegates = TRUE],
    [TransferTx EXCEPT !.typed = FALSE], [TransferTx EXCEPT !.suffix = TRUE],
    [TransferTx EXCEPT !.input = Transfer(other, 2)], [TransferTx EXCEPT !.value = 1],
    [TransferTx EXCEPT !.to = None], [TransferTx EXCEPT !.to = Unread],
    [TransferTx EXCEPT !.data.clean = FALSE],
    [Tx(shop, None) EXCEPT !.value = 1], [Tx(shop, Approve(shop, 1)) EXCEPT !.value = 1],
    Tx(usdc, Approve(vault, 2)), Tx(usdc, Approve(vault, 3)), Tx(usdc, Approve(other, 2)),
    Tx(usdc, Do("setGuard", <<W(vault)>>)), Tx(usdc, Do("enableModule", <<W(vault)>>)),
    Tx(usdc, Do("permit", <<W(me), W(vault), W(2), W(1), W(0)>>)),
    Tx(permit2, Grant(2)), Tx(permit2, Grant(3)),
    Tx(permit2, Do("permit2Transfer", <<W(me), W(shop), W(2), W(usdc)>>)),
    Tx(permit2, Do("permit2Approve", <<W(usdc), W(vault), W(2), W(2)>>)),
    Tx(vault, Borrow(2, me)), Tx(vault, Borrow(2, other)),
    SwapTx(coin, 1, 1, 6), SwapTx(coin, 1, 2, 6), SwapTx(coin, 2, 2, 6), SwapTx(usdc, 1, 0, 5),
    SwapTx(usdc, 2, 0, 6), SwapTx(usdc, 2, 1, 6), PermittedSwap(2), PermittedSwap(3),
    Tx(vault, Route(<<"permit", "swap">>, <<Loose, Swap>>)),
    Tx(vault, Do("send", <<L(<<W(me), W(2), W(1), NoBytes>>), L(<<W(1), W(0)>>), W(me)>>)),
    [Tx(other, Do("send", <<L(<<W(me), W(2), W(1), NoBytes>>), L(<<W(1), W(0)>>), W(me)>>)) EXCEPT !.value = 1],
    Tx(orbio, Do("buy", <<W(2), W(1), W(me), W(0)>>)), Tx(orbio, Do("buy", <<W(2), W(1), W(other), W(0)>>)),
    Tx(shop, Do("activate", <<W(2)>>)), Tx(shop, Do("activateFor", <<W(2), W(other)>>)),
    Tx(vault, Route(<<"subplan">>, <<Plan(3)>>)), Tx(vault, Route(<<"subplan">>, <<Plan(2)>>)),
    Tx(vault, Route(<<"swap">>, <<Swap, Swap>>)),
    Tx(vault, Safe(B(Transfer(shop, 1)), 0)), Tx(vault, Safe(B(Transfer(shop, 1)), 1)),
    Tx(vault, Do("execute7579", <<W(0), Swap>>)),
    Tx(vault, Do("execute7579", <<W(1), Swap>>)),
    Tx(vault, Do("multiSend", <<B([records |-> <<0, 0>>])>>)),
    Tx(vault, Do("multiSend", <<B([records |-> <<0, 1>>])>>)),
    Tx(vault, Do("multicall", <<L(<<B(Transfer(shop, 1))>>)>>)),
    Tx(vault, Do("multicall", <<L(<<B(Approve(vault, 3))>>)>>))}

-----------------------------------------------------------------------------
(* Intents. *)

Most(n) == BoundRule(AtMost(n))
Between(a, b) == [lte |-> b, gte |-> a]

TransferIntent == [kind |-> "erc20.transfer", extra |-> FALSE, chain |-> 1, token |-> usdc,
                   to |-> {shop}, amount |-> AtMost(2)]
Approval == ApproveIntent(1, usdc, vault, 2)
PermitIntent == Permit2Permit(1, usdc, vault, 2, AtMost(2), AtMost(2), None)
Plain(target, fn, rules) == CallIntent(1, target, fn, rules)
ByName(i) == [i EXCEPT !.unlimited = TRUE]
Borrowing(assets, receiver) == MorphoBorrow(1, vault, <<usdc, vault>>, assets, receiver)

GrantRules(amount, expiration) ==
    <<Eq(W(me)), [tuple |-> <<[tuple |-> <<Eq(W(usdc)), Eq(W(amount)), expiration, Eq(W(0))>>],
                              Eq(W(vault)), Eq(W(2))>>], [signature |-> TRUE]>>

SwapPlan == [chain |-> 1, router |-> vault, fields |-> 6, in |-> usdc, out |-> shop,
             amountIn |-> Eq(2), minOut |-> 1, deadline |-> AtMost(2), permit |-> None]
WithPermit(amount) == [SwapPlan EXCEPT !.permit = [amount |-> amount, expiration |-> AtMost(2),
                                                   deadline |-> AtMost(2)]]
PlanIntent(n) ==
    Plain(vault, "execute", <<Eq(Commands(<<"subplan">>)), [items |-> <<Eq(Plan(n))>>], Most(2)>>)

MCSwapOptions == {
    SwapPlan, [SwapPlan EXCEPT !.amountIn = AtMost(2)],
    [SwapPlan EXCEPT !.amountIn = AtMost(2), !.fields = 5],
    [SwapPlan EXCEPT !.in = coin], [SwapPlan EXCEPT !.in = coin, !.amountIn = Between(1, 2)],
    [SwapPlan EXCEPT !.in = coin, !.amountIn = Between(2, 2)],
    WithPermit(None), WithPermit(Unlimited), WithPermit(3),
    [WithPermit(None) EXCEPT !.permit.expiration = AtMost(1)],
    [WithPermit(None) EXCEPT !.amountIn = Between(2, 2)], [WithPermit(2) EXCEPT !.amountIn = AtMost(2)]}
PresetIntents == {SwapExactInSingle(p) : p \in MCSwapOptions} \cup {
    Borrowing(AtMost(2), me), Borrowing(Between(2, 1), me),
    Permit2Approve(1, usdc, vault, 2, AtMost(2)),
    OftSend(1, vault, me, AtMost(2), 1, AtMost(1), me), BridgeCredit(me, AtMost(2), 1, Between(1, None), me),
    BridgeCredit(me, AtMost(2), 1, AtMost(1), me), ApproveUsdg(2), ApproveBridge(2),
    Buy(AtMost(2), 1, me), Buy(AtMost(2), 0, me), Activate(AtMost(2), None), Activate(AtMost(2), me)}

CallIntents == {
    [Borrowing(AtMost(2), me) EXCEPT !.args = Tail(@)],
    Plain(usdc, "approve", <<Eq(W(vault)), Eq(W(2))>>),
    Plain(usdc, "approve", <<Eq(W(vault)), Most(3)>>),
    Plain(usdc, "approve", <<[oneOf |-> <<W(vault), W(other)>>], Eq(W(2))>>),
    ByName(Plain(usdc, "approve", <<Eq(W(vault)), Eq(W(3))>>)),
    Plain(usdc, "setGuard", <<Eq(W(vault))>>),
    Plain(usdc, "enableModule", <<Eq(W(vault))>>),
    ByName(Plain(usdc, "enableModule", <<Eq(W(vault))>>)),
    Plain(usdc, "permit", <<Eq(W(me)), Eq(W(vault)), Eq(W(2)), Most(2), AnyValue>>),
    Plain(usdc, "permit", <<Eq(W(me)), Eq(W(vault)), Eq(W(2)), AnyValue, AnyValue>>),
    Plain(permit2, "permit2Permit", GrantRules(2, Eq(W(2)))),
    Plain(permit2, "permit2Permit", GrantRules(2, Most(2))),
    Plain(permit2, "permit2Permit", GrantRules(3, Eq(W(2)))),
    ByName(Plain(permit2, "permit2Permit", GrantRules(3, Eq(W(2))))),
    Plain(permit2, "permit2Transfer", <<Eq(W(me)), Eq(W(shop)), Most(2), Eq(W(usdc))>>),
    PlanIntent(2), PlanIntent(3),
    Plain(vault, "execute", <<Eq(Commands(<<"permit", "swap">>)), AnyValue, Most(2)>>),
    Plain(vault, "execute", <<Eq(Commands(<<"permit", "swap">>)), Eq(L(<<Loose, Swap>>)), Most(2)>>),
    Plain(vault, "safeExecute", <<Eq(W(usdc)), Eq(W(0)), Eq(B(Transfer(shop, 1))), Eq(W(0))>>),
    Plain(vault, "safeExecute", <<Eq(W(usdc)), Eq(W(0)), Eq(B(Transfer(shop, 1))), Eq(W(1))>>),
    Plain(vault, "safeExecute", <<Eq(W(usdc)), Eq(W(0)), Eq(B(Transfer(shop, 1))), Most(1)>>),
    Plain(vault, "safeExecute", <<Eq(W(usdc)), Eq(W(0)), AnyValue, Eq(W(0))>>),
    Plain(vault, "execute7579", <<Eq(W(0)), Eq(Swap)>>),
    Plain(vault, "execute7579", <<Eq(W(1)), Eq(Swap)>>),
    Plain(vault, "multiSend", <<[oneOf |-> <<B([records |-> <<0, 0>>]), B([records |-> <<0, 1>>])>>]>>),
    Plain(vault, "multicall", <<[items |-> <<Eq(B(Transfer(shop, 1)))>>]>>),
    Plain(vault, "multicall", <<[items |-> <<Eq(B(Approve(vault, 3)))>>]>>),
    Plain(vault, "multicall", <<[items |-> <<AnyValue>>]>>)}

MCIntents == CallIntents \cup PresetIntents \cup {
    Unread, TransferIntent, [TransferIntent EXCEPT !.to = {shop, other}],
    [TransferIntent EXCEPT !.extra = TRUE], [TransferIntent EXCEPT !.chain = 2],
    [TransferIntent EXCEPT !.amount = Exactly(Unread)],
    [kind |-> "native.transfer", extra |-> FALSE, chain |-> 1, to |-> shop, amount |-> AtMost(1)],
    Approval, [Approval EXCEPT !.amount = Unlimited], [Approval EXCEPT !.amount = 3],
    PermitIntent, [PermitIntent EXCEPT !.amount = Unlimited]}

-----------------------------------------------------------------------------
(* Payments and allowances as typed data, and signed payments. *)

Terms0 == [from |-> me, to |-> shop, value |-> 2, after |-> 0, before |-> 2, nonce |-> 1]
Request0 == Terms0 @@ [primary |-> "transfer", struct |-> TRUE, domain |-> <<1, usdc>>, named |-> TRUE]
Typed0 == {
    Request0, [Request0 EXCEPT !.to = other], [Request0 EXCEPT !.to = me, !.from = shop],
    [Request0 EXCEPT !.value = 3], [Request0 EXCEPT !.before = 4], [Request0 EXCEPT !.before = 0],
    [Request0 EXCEPT !.after = 3], [Request0 EXCEPT !.domain = <<2, usdc>>],
    [Request0 EXCEPT !.named = FALSE], [Request0 EXCEPT !.struct = FALSE],
    [Request0 EXCEPT !.primary = "permit"], [Request0 EXCEPT !.nonce = Unread],
    [Request0 EXCEPT !.from = other], [Request0 EXCEPT !.from = Unread]}
Payment0 == Terms0 @@ [method |-> None, primary |-> None, permit |-> None, asset |-> None,
                       canonical |-> TRUE, signer |-> me]
Signed0 == {
    Payment0, [Payment0 EXCEPT !.to = other], [Payment0 EXCEPT !.to = me, !.from = shop, !.signer = shop],
    [Payment0 EXCEPT !.value = 1], [Payment0 EXCEPT !.before = 0], [Payment0 EXCEPT !.after = 3],
    [Payment0 EXCEPT !.signer = other], [Payment0 EXCEPT !.signer = Unread],
    [Payment0 EXCEPT !.canonical = FALSE], [Payment0 EXCEPT !.method = "eip3009"],
    [Payment0 EXCEPT !.method = "erc7710"], [Payment0 EXCEPT !.method = Unread],
    [Payment0 EXCEPT !.primary = "PermitSingle"], [Payment0 EXCEPT !.permit = 3],
    [Payment0 EXCEPT !.permit = Unread, !.primary = "witness"], [Payment0 EXCEPT !.asset = vault],
    [Payment0 EXCEPT !.from = other, !.signer = other]}
Permit0 == [primary |-> "PermitSingle", plain |-> TRUE, struct |-> TRUE, domain |-> <<1, permit2>>,
            token |-> usdc, spender |-> vault, amount |-> 2, expiration |-> 2, deadline |-> 2]
Permits0 == {
    Permit0, [Permit0 EXCEPT !.amount = 3], [Permit0 EXCEPT !.spender = other],
    [Permit0 EXCEPT !.domain = <<2, permit2>>], [Permit0 EXCEPT !.struct = FALSE],
    [Permit0 EXCEPT !.expiration = 3], [Permit0 EXCEPT !.token = Unread],
    [Permit0 EXCEPT !.plain = FALSE], [Permit0 EXCEPT !.token = vault]}

Typed1(r) == [form |-> "viem", typed |-> r, signed |-> None, more |-> FALSE]
Signed1(p) == [form |-> "other", typed |-> None, signed |-> p, more |-> FALSE]

TypedArgs ==
    {Typed1(r) : r \in Typed0 \cup Permits0} \cup {Signed1(p) : p \in Signed0} \cup
    {[Typed1(Request0) EXCEPT !.signed = Payment0], [Typed1(Permit0) EXCEPT !.signed = Payment0],
     [Typed1(Request0) EXCEPT !.form = "ambiguous"], [Signed1(Payment0) EXCEPT !.more = TRUE],
     [Signed1(Payment0) EXCEPT !.signed = None]}

(* What the host puts in their place: another conforming one, and others. *)
MCRequests ==
    {[tx |-> t] : t \in {TransferTx, Tx(usdc, Transfer(other, 2)), Tx(usdc, Approve(vault, 3)),
                        [TransferTx EXCEPT !.plain = FALSE]}}
    \cup {Typed1(r) : r \in {Request0, [Request0 EXCEPT !.to = other], [Permit0 EXCEPT !.amount = 3]}}
    \cup {Signed1(p) : p \in {Payment0, [Payment0 EXCEPT !.to = other]}}

-----------------------------------------------------------------------------
(* Messages and logins. *)

At_(scheme, host) == [scheme |-> scheme, host |-> host]
Https == At_("https", here)
Ln(sort, site, brk, exact) == [sort |-> sort, site |-> site, brk |-> brk, exact |-> exact]
Header(site) == Ln("header", site, "nl", TRUE)
Uri(site) == Ln("uri", site, "nl", TRUE)
Login(site) == <<Header(At_("unsaid", site.host)), Uri(site)>>
Hello == <<Ln("text", noSite, "nl", TRUE)>>
Key == <<Ln("key", noSite, "nl", TRUE)>>

Texts == {
    Hello, Key, Login(Https), Login(At_("http", here)), Login(At_("https", there)),
    <<Header(Https), Uri(At_("https", there))>>, Login(Https) \o <<Uri(At_("https", there))>>,
    Login(Https) \o <<Ln("uri", At_("https", there), "other", TRUE)>>,
    Login(Https) \o <<Ln("uri", At_("https", there), "nl", FALSE)>>,
    <<Ln("header", Https, "nl", FALSE), Uri(Https)>>, Hello \o Login(Https),
    Login(Https) \o Login(At_("https", there)),
    <<Uri(Https), Ln("nonce", noSite, "nl", TRUE)>>}
Inputs == [textual : BOOLEAN, domain : {At_("unsaid", here), At_("unsaid", there), noSite},
           uri : {noSite, Https, At_("https", there)},
           statement : {<<>>, Hello, <<Uri(At_("https", there))>>, Hello \o <<Uri(At_("https", there))>>}]

MessageArgs ==
    {[opaque |-> FALSE, messages |-> <<m, n>>] : m \in Texts, n \in {Hello, Login(At_("https", there))}}
    \cup {[opaque |-> o, messages |-> <<m>>] : o \in BOOLEAN, m \in Texts}

-----------------------------------------------------------------------------
SomePolicy == [assets |-> {usdc, native}, payees |-> {shop, vault}, caps |-> None]
MCPolicies == {None, Unread, SomePolicy, [assets |-> None, payees |-> None, caps |-> [a \in {usdc} |-> 1]]}

Quote0 == [chain |-> 1, asset |-> usdc, payTo |-> shop, amount |-> 2, timeout |-> 0, method |-> None]
Quotes == {None, Quote0, [Quote0 EXCEPT !.timeout = None], [Quote0 EXCEPT !.timeout = Unread],
           [Quote0 EXCEPT !.amount = Unread], [Quote0 EXCEPT !.asset = vault],
           [Quote0 EXCEPT !.method = "eip3009"]}

Call0 == [method |-> "typedData", args |-> Typed1(Request0), quote |-> None, payer |-> None,
          skew |-> 0, origin |-> noSite, resource |-> noSite, intentFor |-> "given", policy |-> None]

MCCalls ==
    {[Call0 EXCEPT !.method = "transaction", !.args = [tx |-> t], !.policy = p] :
        t \in Transactions, p \in {None, SomePolicy}}
    \cup {[Call0 EXCEPT !.args = a, !.policy = p] : a \in TypedArgs, p \in MCPolicies}
    \cup {[Call0 EXCEPT !.args = a, !.quote = q, !.intentFor = "absent", !.policy = p] :
        a \in TypedArgs, q \in Quotes, p \in MCPolicies}
    \cup {[Call0 EXCEPT !.args = a, !.quote = Quote0, !.payer = w, !.skew = k] :
        a \in TypedArgs, w \in {me, Unread}, k \in 0..1}
    \cup {[Call0 EXCEPT !.intentFor = "unreadable"], [Call0 EXCEPT !.method = "unmodelled"],
          [Call0 EXCEPT !.method = "transaction", !.args = [tx |-> TransferTx], !.intentFor = "absent"]}
    \cup {[Call0 EXCEPT !.method = "message", !.args = m, !.origin = o, !.resource = r] :
        m \in MessageArgs, o \in {noSite, badSite, Https}, r \in {noSite, At_("https", there)}}
    \cup {[Call0 EXCEPT !.method = "allowed", !.args = m, !.origin = o] :
        m \in MessageArgs, o \in {noSite, Https}}
    \cup {[Call0 EXCEPT !.method = "signIn", !.args = [opaque |-> FALSE, inputs |-> <<i>>],
                        !.origin = o] : i \in Inputs, o \in {noSite, Https}}
=============================================================================
