--------------------------- MODULE MCSolanaPayment ---------------------------
(* A shop, an agent's wallet and somebody else's, and one instruction of   *)
(* every sort the walk tells apart, with some conforming and some not.     *)
EXTENDS SolanaPayment, TLC

CONSTANTS agent, shop, other, usdc, agentAta, shopAta, shopAta22, otherAta

MCTokenAccounts ==
    [a \in Accounts |-> CASE a = agent -> {agentAta}
                          [] a = shop  -> {shopAta, shopAta22}
                          [] a = other -> {otherAta}
                          [] OTHER     -> {}]

Pay(to, n) == [prog |-> "token", form |-> "checked", source |-> agentAta, to |-> to,
               authority |-> agent, amount |-> n]
Open(owner, account, who) ==
    [prog |-> "ata", form |-> "create", short |-> FALSE, funder |-> who,
     created |-> account, owner |-> owner, mint |-> usdc]
Budget(what, n) == [prog |-> "budget", form |-> what, value |-> n]

Payments == {
    Pay(shopAta, 2), Pay(shopAta22, 2), Pay(shopAta, 3), Pay(otherAta, 1), Pay(Unread, 1),
    Pay(shopAta, Unread),
    [Pay(shopAta, 2) EXCEPT !.source = otherAta, !.form = "plain"],
    [Pay(shopAta, 2) EXCEPT !.authority = Unread],
    [Pay(otherAta, 2) EXCEPT !.form = "control"],
    [Pay(otherAta, 2) EXCEPT !.form = "other"]}

Others == {
    [prog |-> "system", form |-> "nonce"], [prog |-> "system", form |-> "lamports"],
    [prog |-> "system", form |-> "other"],
    Open(shop, shopAta, agent), Open(other, otherAta, agent), Open(shop, shopAta, other),
    [Open(shop, shopAta, agent) EXCEPT !.form = "recover"],
    [Open(shop, shopAta, agent) EXCEPT !.form = "other"],
    [Open(shop, shopAta, agent) EXCEPT !.short = TRUE],
    Budget("limit", 2), Budget("limit", 0), Budget("price", 1), Budget("price", 4),
    Budget("price", Unread), Budget("other", 1),
    [prog |-> "memo", directive |-> TRUE], [prog |-> "memo", directive |-> FALSE],
    [prog |-> "lighthouse", asserts |-> TRUE, writes |-> FALSE],
    [prog |-> "lighthouse", asserts |-> TRUE, writes |-> TRUE],
    [prog |-> "lighthouse", asserts |-> FALSE, writes |-> FALSE],
    [prog |-> "foreign"]}

MCInstructions == Payments \cup Others

Plain == [envelope |-> "bare", decodes |-> TRUE, lookups |-> FALSE, feePayer |-> agent,
          payable |-> TRUE, amount |-> 2, scheme |-> None, claim |-> None,
          payer |-> agent, maxFee |-> 2, policy |-> None]

MCQuestions == {
    Plain,
    [Plain EXCEPT !.payer = None, !.claim = other, !.scheme = "exact", !.feePayer = other],
    [Plain EXCEPT !.claim = other, !.envelope = "exact", !.policy = [lists |-> TRUE, cap |-> 2]],
    [Plain EXCEPT !.amount = 3, !.scheme = "other", !.policy = [lists |-> TRUE, cap |-> 2]],
    [Plain EXCEPT !.policy = [lists |-> FALSE, cap |-> None]],
    [Plain EXCEPT !.amount = Unread],
    [Plain EXCEPT !.envelope = "other"], [Plain EXCEPT !.decodes = FALSE],
    [Plain EXCEPT !.lookups = TRUE], [Plain EXCEPT !.payable = FALSE],
    [Plain EXCEPT !.payer = Unread], [Plain EXCEPT !.policy = Unread]}
=============================================================================
