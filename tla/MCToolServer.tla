----------------------------- MODULE MCToolServer -----------------------------
(* Three of twelve lines: verifications, two of one payment and one of a    *)
(* payment under the same nonce that the verifier refuses, token checks,    *)
(* two of them of one address in either case, checks of documents with and  *)
(* without text, a delivery, a ping and a line that reads `null`, under     *)
(* each of the operator's settings, with two billed scans to spend.         *)
EXTENDS ToolServer

CONSTANTS good, evil,
          payGood, payAgain, payEvil, tokenUpper, tokenLower, tokenOther, tokenThird, page, empty, delivery, ping, null

MCLines == {payGood, payAgain, payEvil, tokenUpper, tokenLower, tokenOther, tokenThird,
            page, empty, delivery, ping, null}
MCRequests == {good, evil}
MCDecides == [r \in MCRequests |-> IF r = good THEN "allow" ELSE "refuse"]
MCNonce == [r \in MCRequests |-> "0x01"]
MCAddresses == {"0xAB", "0xab", "0xcd", "0xef"}
MCLower == [a \in MCAddresses |-> IF a = "0xAB" THEN "0xab" ELSE a]

Call(tool, arg) == [form |-> "call", id |-> TRUE, tool |-> tool, arg |-> arg]
Doc(kind, chars) == [kind |-> kind, chars |-> chars, walk |-> "whole", cut |-> FALSE, critical |-> FALSE]

MCLine == [l \in MCLines |->
    CASE l \in {payGood, payAgain} -> Call("verify_payment", good)
      [] l = payEvil -> Call("verify_payment", evil)
      [] l = tokenUpper -> Call("check_token", "0xAB")
      [] l = tokenLower -> Call("check_token", "0xab")
      [] l = tokenOther -> Call("check_token", "0xcd")
      [] l = tokenThird -> Call("check_token", "0xef")
      [] l = page -> Call("check_before_use", Doc("url", 0))
      [] l = empty -> Call("check_before_use", Doc("text", 0))
      [] l = delivery -> Call("verify_delivery",
            [status |-> "success", otherType |-> FALSE, json |-> TRUE, parses |-> FALSE, textual |-> TRUE,
             bytes |-> Doc("text", 1)])
      [] l = ping -> [form |-> "ping", id |-> FALSE]
      [] l = null -> [form |-> "notObject", id |-> FALSE]]

Claim(word, plain, receipt, signature, policy) ==
    [claims |-> word, plain |-> plain, receipt |-> receipt, signature |-> signature, policy |-> policy]
Of(r, d) == [request |-> r, decision |-> d]
MCBodies == {
    Claim("allow", TRUE, Of(good, "allow"), "good", TRUE), Claim("allow", FALSE, Of(good, "allow"), "good", FALSE),
    Claim("allow", TRUE, Of(evil, "refuse"), "good", FALSE),
    Claim("allow", FALSE, None, "none", TRUE), Claim("allow", TRUE, Of(evil, "allow"), "bad", FALSE),
    Claim("refuse", TRUE, Of(evil, "refuse"), "good", FALSE), Claim("needs_approval", TRUE, None, "none", TRUE),
    Claim("odd", TRUE, None, "none", FALSE), Claim("no string", TRUE, None, "none", FALSE)}

Set(key, safe, pubkey, optOut) == [key |-> key, safe |-> safe, pubkey |-> pubkey, optOut |-> optOut]
MCConfigs == {Set(TRUE, TRUE, TRUE, TRUE), Set(TRUE, TRUE, FALSE, FALSE), Set(TRUE, TRUE, FALSE, TRUE),
              Set(TRUE, FALSE, TRUE, FALSE), Set(FALSE, FALSE, FALSE, FALSE)}
=============================================================================
