----------------------------- MODULE EvmPayment -----------------------------
(* x402-guard/src/evm.ts: the two checks of an EVM payment against the      *)
(* merchant's quote, before it is signed (inspectTypedDataRequest) and      *)
(* after (inspectAuthorization).                                            *)
(*                                                                          *)
(* A payment moves `value` of the domain's contract from one account to     *)
(* another, at a time later than `after` and earlier than `before`.  A      *)
(* finding is its code; "105" is a window that is not open, "105wide" one   *)
(* that stays open too long.                                                *)
EXTENDS TxCheck

CONSTANTS
    Trusted,        \* TRUSTED_DOMAINS: <<chain, asset>> of the verified entries
    Day,            \* MAX_VALIDITY_SECONDS
    Slack           \* TIMEOUT_SLACK_SECONDS

ASSUME PaymentAssumption ==
    /\ Trusted \subseteq Chains \X Accounts
    /\ Day \in Nat /\ Slack \in Nat

QuoteReads(q) == Unread \notin {q.chain, q.asset, q.payTo, q.amount}
QuotedAsset(q) == <<q.chain, q.asset>>

(* The struct a wallet is asked to sign is EIP-3009's "transfer", Permit2's *)
(* "witness" transfer, a standing grant, or another.                        *)
StandingTypes == {"permit", "PermitSingle"}

-----------------------------------------------------------------------------
(* What both lanes compare. *)

NotOpen(o, m) == o.now + o.skew < m.after \/ o.now > m.before + o.skew

(* Mutant: the seller's wallet is looked for anywhere in the message. *)
TermsNamed(q, o, m) ==
    Raise(q.payTo \notin {m.to, m.from}, "101")
    \cup Raise(m.value # q.amount, "102")
    \cup Raise(~ Absent(o.payer) /\ m.from # o.payer, "108")

(* The payee, the amount, and whose money. *)
TermFindings(q, o, m) ==
    Raise(m.to # q.payTo, "101")
    \cup Raise(m.value # q.amount, "102")
    \cup Raise(~ Absent(o.payer) /\ m.from # o.payer, "108")

PolicyFindings(q, m, policy) ==
    Raise(PolicyRefuses(policy, Move(q.asset, m.to, m.value)), "50x")

-----------------------------------------------------------------------------
(* Before the signature: the window is held to the quote's own timeout.     *)

Window(q) ==
    IF Absent(q.timeout) \/ q.timeout + Slack > Day THEN Day ELSE q.timeout + Slack

TypedReads(q, r, o) ==
    /\ r.primary = "transfer" /\ r.struct
    /\ QuotedAsset(q) \in Trusted
    /\ r.domain = QuotedAsset(q) /\ r.named         \* the trusted name and version
    /\ r.nonce # Unread /\ q.timeout # Unread
    /\ Unread \notin {r.after, r.before, r.to, r.value, o.payer}
    /\ ~ Absent(o.payer) => r.from # Unread

(* inspectTypedDataRequest: only a critical finding refuses, and a window   *)
(* that is not open is not one.                                             *)
CheckTyped(q, r, o, policy) ==
    IF ~ QuoteReads(q) \/ policy = Unread THEN "abstain"
    ELSE IF r.primary \in StandingTypes THEN "refuse"
    ELSE IF ~ TypedReads(q, r, o) THEN "abstain"
    ELSE IF TermFindings(q, o, r) \cup PolicyFindings(q, r, policy)
              \cup Raise(r.before > o.now + Window(q), "105wide") # {} THEN "refuse"
    ELSE "allow"

-----------------------------------------------------------------------------
(* After the signature. *)

Method(q, p) == IF Absent(q.method) THEN p.method ELSE q.method
Contradicts(q, p) == None \notin {q.method, p.method} /\ q.method # p.method

(* detectStandingAuthority: the name of the struct, or a permit in the      *)
(* payload whose amount is the maximum or cannot be read.                   *)
StandingAuthority(p) ==
    \/ p.primary \in StandingTypes \cup {Unread}
    \/ p.primary # "witness" /\ p.permit \in {MaxAmount, Unread}

AuthorizationReads(q, p, o) ==
    /\ Method(q, p) \in {None, "eip3009"}
    /\ p.primary \in {None, "transfer"}
    /\ QuotedAsset(q) \in Trusted
    /\ Unread \notin {p.from, p.to, p.value, p.after, p.before, p.nonce, o.payer}
    /\ p.canonical                      \* normalizeSignature

(* inspectAuthorization up to its await: a verdict, or "recover". *)
Presented(q, p, o, policy) ==
    IF ~ QuoteReads(q) \/ Unread \in {q.method, p.method} THEN "abstain"
    ELSE IF Contradicts(q, p) THEN "refuse"
    ELSE IF Method(q, p) = "erc7710" THEN "abstain"
    ELSE IF StandingAuthority(p) THEN "refuse"
    ELSE IF ~ AuthorizationReads(q, p, o) \/ policy = Unread THEN "abstain"
    ELSE "recover"

NonceKey(q, p) == <<q.chain, q.asset, p.from, p.nonce>>

(* The rest of it, once the signer is known: any finding but a window too   *)
(* wide refuses.                                                            *)
Judged(q, p, o, policy, recovered, seen) ==
    IF recovered = Unread THEN "abstain"
    ELSE IF recovered # p.from THEN "refuse"
    ELSE IF TermFindings(q, o, p) \cup PolicyFindings(q, p, policy)
              \cup Raise(p.asset \notin {None, Unread, q.asset}, "103")
              \cup Raise(NotOpen(o, p), "105")
              \cup Raise(NonceKey(q, p) \in seen, "107") # {} THEN "refuse"
    ELSE "allow"
=============================================================================
