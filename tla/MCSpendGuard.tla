---------------------------- MODULE MCSpendGuard ----------------------------
(* Small instances of SpendGuard: two assets, a payee the policies allow   *)
(* and one they do not, totals that two of the payments fill.              *)
EXTENDS SpendGuard, TLC

CONSTANTS c1, c2, usdc, weth, shop, other, n1

Pay(a, n) == [asset |-> a, payTo |-> shop, amount |-> n]

(* A batch that fills a total of 2 by itself, a transaction that moves two *)
(* assets, an authorization, a payment and one that goes to another payee. *)
MCRequests == {
    [kind |-> "batch", conforms |-> TRUE, nonce |-> NoNonce, moves |-> <<Pay(usdc, 1), Pay(usdc, 1)>>],
    [kind |-> "tx", conforms |-> TRUE, nonce |-> NoNonce, moves |-> <<Pay(weth, 1), Pay(usdc, 2)>>],
    [kind |-> "permit", conforms |-> FALSE, nonce |-> NoNonce, moves |-> <<Pay(weth, 2)>>],
    [kind |-> "auth", conforms |-> TRUE, nonce |-> n1, moves |-> <<Pay(usdc, 1)>>],
    [kind |-> "payment", conforms |-> TRUE, nonce |-> NoNonce,
     moves |-> <<[asset |-> weth, payTo |-> other, amount |-> 1]>>]}

NoLimits == [assets |-> Unset, payees |-> Unset, maxPerPayment |-> Unset, maxTotal |-> Unset]

(* Totals that are tight, totals that are loose and name one asset only,   *)
(* a policy with no totals, and one that cannot be read.                   *)
Tight == [NoLimits EXCEPT !.maxTotal = (usdc :> 2) @@ (weth :> 1)]
Loose == [NoLimits EXCEPT !.maxTotal = (usdc :> 3), !.assets = {usdc}]
NoTotals == [NoLimits EXCEPT !.maxPerPayment = (usdc :> 2) @@ (weth :> 2), !.payees = {shop}]

MCPolicies == {Tight, Loose, NoTotals, Unreadable}
=============================================================================
