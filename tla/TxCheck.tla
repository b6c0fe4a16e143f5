------------------------------- MODULE TxCheck -------------------------------
(* x402-guard/src/tx.ts: reading a transaction, a Permit2 signature request *)
(* and the intent behind them, and holding the one to the other.            *)
(*                                                                          *)
(* A finding is its code.  X402-709 says something could not be read;       *)
(* every other code of these checks is critical.                            *)
EXTENDS TxRules

CONSTANTS
    Accounts,   \* addresses: wallets, tokens, contracts
    Chains,     \* chain ids
    MaxAmount,  \* the largest amount a type holds: 2^160 - 1, 2^256 - 1
    Permit2,    \* Permit2's canonical address
    Native,     \* NATIVE_ASSET
    Unlimited,  \* "unlimited"
    Empty       \* no calldata

ASSUME AmountAssumption == MaxAmount \in Nat

Address == Word(Accounts)
Amount == Int_(0..MaxAmount)
Flag == Word({0, 1})
Choice == Int_({0, 1})
PermitDetails == Tuple(<<Address, Amount, Amount, Amount>>)   \* token, amount, expiration, nonce

(* One function of each sort the check tells apart, and its parameters. *)
Signature ==
    [transfer      |-> <<Address, Amount>>,
     approve       |-> <<Address, Amount>>,
     approvalForAll |-> <<Address, Flag>>,
     setGuard      |-> <<Address>>,
     enableModule  |-> <<Address>>,
     permit        |-> <<Address, Address, Amount, Amount, Word({0})>>,
     permit2Approve |-> <<Address, Address, Amount, Amount>>,
     permit2Permit |-> <<Address, Tuple(<<PermitDetails, Address, Amount>>), Bytes>>,
     permit2Transfer |-> <<Address, Address, Amount, Address>>,
     execute       |-> <<Bytes, ListOf(Bytes, None), Amount>>,
     safeExecute   |-> <<Address, Amount, Bytes, Choice>>,
     execute7579   |-> <<Flag, Bytes>>,
     multiSend     |-> <<Bytes>>,
     multicall     |-> <<ListOf(Bytes, None)>>,
     borrow        |-> <<Tuple(<<Address, Address>>), Amount, Address>>,
     send          |-> <<Tuple(<<Address, Amount, Amount, Bytes>>), Tuple(<<Amount, Amount>>), Address>>,
     buy           |-> <<Amount, Amount, Address, Amount>>,
     activate      |-> <<Amount>>,
     activateFor   |-> <<Amount, Address>>]
Functions == DOMAIN Signature

Raise(condition, code) == IF condition THEN {code} ELSE {}
Absent(x) == x = None

-----------------------------------------------------------------------------
(* The intent, from the agent's own code. *)

TokenKinds == {"erc20.transfer", "erc20.approve", "permit2.permit"}

(* readIntent: every part of it can be read. *)
IntentReads(i) ==
    /\ i.kind \in TokenKinds \cup {"native.transfer", "call"}
    /\ ~ i.extra                        \* keys no rule reads
    /\ i.chain # Unread
    /\ CASE i.kind = "native.transfer" -> i.to # Unread /\ BoundReads(i.amount)
         [] i.kind = "erc20.transfer"  -> /\ i.token # Unread /\ i.to # {} /\ Unread \notin i.to
                                          /\ BoundReads(i.amount)
         [] i.kind = "erc20.approve"   -> /\ Unread \notin {i.token, i.spender, i.amount}
         [] i.kind = "permit2.permit"  -> /\ Unread \notin {i.token, i.spender, i.amount, i.permit2}
                                          /\ BoundReads(i.expiration) /\ BoundReads(i.deadline)
         [] i.kind = "call"            -> /\ i.target # Unread /\ i.fn \in Functions
                                          /\ ReadsAll(Reads, Signature[i.fn], i.args, 0)
                                          /\ Absent(i.value) \/ BoundReads(i.value)
                                          /\ i.unlimited \in BOOLEAN

Target(i) ==
    CASE i.kind = "native.transfer" -> i.to
      [] i.kind = "call"            -> i.target
      [] i.kind = "permit2.permit"  -> IF Absent(i.permit2) THEN Permit2 ELSE i.permit2
      [] OTHER                      -> i.token

ValueBound(i) ==
    CASE i.kind = "native.transfer" -> i.amount
      [] i.kind = "call" /\ ~ Absent(i.value) -> i.value
      [] OTHER -> Exactly(0)

FunctionOf(i) ==
    CASE i.kind = "erc20.transfer" -> "transfer"
      [] i.kind = "erc20.approve"  -> "approve"
      [] OTHER                     -> i.fn

-----------------------------------------------------------------------------
(* The transaction, read once. *)

Data(tx) == IF Absent(tx.data) THEN Empty ELSE tx.data

(* The chain the transaction names, by id or by viem's chain object. *)
ChainNamed(tx) == IF Absent(tx.chain) THEN tx.chainId ELSE tx.chain

(* readTransaction: what a signer would read that the check cannot answer for. *)
ReadFindings(tx) ==
    IF ~ tx.plain THEN {"709"}          \* no plain object, a symbol, a field it does not model
    ELSE Raise(tx.delegates, "705")
         \cup Raise(~ tx.typed \/ tx.blobs \/ tx.suffix, "709")
         \cup Raise(Absent(tx.to), "701") \cup Raise(tx.to = Unread, "709")
         \cup Raise(Data(tx) = Unread, "709")
         \cup Raise(~ Absent(tx.input) /\ tx.input # Data(tx), "709")
         \cup Raise(Unread \in {tx.value, tx.chainId, tx.chain}, "709")
         \cup Raise(/\ {tx.chainId, tx.chain} \cap {None, Unread} = {}
                    /\ tx.chainId # tx.chain, "701")

(* What the signer is handed: the checked fields as checked; the signer's   *)
(* own (nonce, gas, fees) go along unread.                                  *)
Reading(tx) ==
    [to |-> tx.to, data |-> Data(tx), value |-> tx.value, chainId |-> ChainNamed(tx),
     chain |-> tx.chain]

(* decodeFunctionData, and the same bytes again on encoding. *)
Decodes(data) ==
    /\ data.clean /\ DOMAIN data.args = DOMAIN Signature[data.fn]
    /\ \A n \in DOMAIN data.args : HasType(Signature[data.fn][n], data.args[n], 0)

-----------------------------------------------------------------------------
(* Standing authority: calls whose effect outlives the transaction. *)

(* exact: the arguments that are the grant; free: the signature's parts;    *)
(* most: the argument that makes it a grant without limit at its maximum,   *)
(* 0 if none does, None if the grant has no limit to begin with.            *)
Standing ==
    [approve        |-> [exact |-> {1, 2}, free |-> {}, most |-> 2],
     approvalForAll |-> [exact |-> {1, 2}, free |-> {}, most |-> 2],
     setGuard       |-> [exact |-> {1}, free |-> {}, most |-> 0],
     enableModule   |-> [exact |-> {1}, free |-> {}, most |-> None],
     permit         |-> [exact |-> {1, 2, 3}, free |-> {5}, most |-> 3],
     permit2Approve |-> [exact |-> {1, 2, 3}, free |-> {}, most |-> 3],
     permit2Permit  |-> [exact |-> {1, 2}, free |-> {3}, most |-> 2]]

TopOf(T) == CHOOSE n \in T.of : \A k \in T.of : k <= n

GrantsUnlimited(fn, args) ==
    LET most == Standing[fn].most IN
    CASE most = None -> TRUE
      [] most = 0    -> FALSE
      [] fn = "permit2Permit" -> args[2].l[1].l[2].w = MaxAmount
      [] OTHER       -> args[most].w = TopOf(Signature[fn][most])

(* Mutant: the terms of a grant may be bounded as any other argument. *)
BoundedStanding(i, args) ==
    Raise(/\ i.fn \in DOMAIN Standing
          /\ \/ \E n \in DOMAIN args : Has(i.args[n], "any")
             \/ GrantsUnlimited(i.fn, args) /\ ~ i.unlimited, "705")

(* A grant's terms exact, the rest bounded, no limit only by name. *)
StandingFindings(i, args) ==
    Raise(/\ i.fn \in DOMAIN Standing
          /\ \/ \E n \in Standing[i.fn].exact : ~ Exact(i.args[n])
             \/ \E n \in DOMAIN args \ (Standing[i.fn].exact \cup Standing[i.fn].free) :
                    Has(i.args[n], "any")
             \/ GrantsUnlimited(i.fn, args) /\ ~ i.unlimited, "705")

RouterFindings(i, args) ==
    LET found == RouterPermits([types |-> <<Address, Amount, Amount>>, values |-> args], 0)
    IN IF i.fn # "execute" THEN {}
       ELSE Raise(found = "unread", "709") \cup Raise(found = "unlimited" /\ ~ i.unlimited, "705")

(* Calls that carry calls: readable only when the intent fixes the bytes    *)
(* they travel in, and never a delegatecall.                                *)
Wrappers == {"execute", "safeExecute", "execute7579", "multiSend", "multicall"}

WrapperFindings(i, args) ==
    LET open == \E n \in DOMAIN args : LeavesBytesOpen(Signature[i.fn][n], i.args[n])
        delegates ==
            CASE i.fn = "safeExecute" -> ~ Exact(i.args[4]) \/ args[4].w # 0
              [] i.fn = "execute7579" -> ~ Exact(i.args[1]) \/ args[1].w # 0
              [] i.fn = "multiSend"   -> MultiSendDelegates(args[1]) # "calls"
              [] OTHER                -> FALSE
    IN Raise(i.fn \in Wrappers /\ (open \/ delegates), "709")

-----------------------------------------------------------------------------
(* The spending policy over what can be seen to move. *)

PolicyRefuses(p, m) ==
    /\ ~ Absent(p)
    /\ \/ ~ Absent(p.assets) /\ m.asset \notin p.assets
       \/ ~ Absent(p.payees) /\ m.payTo \notin p.payees
       \/ ~ Absent(p.caps) /\ (m.asset \notin DOMAIN p.caps \/ m.amount > p.caps[m.asset])

Move(asset, payTo, amount) == [asset |-> asset, payTo |-> payTo, amount |-> amount]

(* TOKEN_MOVES: which arguments are the asset, the payee and the amount. *)
TokenMoves(to, fn, args) ==
    CASE fn \in {"transfer", "approve"} -> {Move(to, args[1].w, args[2].w)}
      [] fn = "permit2Approve"  -> {Move(args[1].w, args[2].w, args[3].w)}
      [] fn = "permit2Transfer" -> {Move(args[4].w, args[2].w, args[3].w)}
      [] OTHER -> {}

-----------------------------------------------------------------------------
(* checkTransaction. *)

ArgumentFindings(i, args) ==
    CASE i.kind = "erc20.transfer" ->
             Raise(args[1].w \notin i.to \/ ~ InRange(args[2].w, i.amount), "703")
      [] i.kind = "erc20.approve" ->
             Raise(\/ args[1].w # i.spender
                   \/ i.amount # Unlimited /\ (args[2].w # i.amount \/ args[2].w = MaxAmount), "705")
      [] i.kind = "call" ->
             LET found == MatchAll(Match, Signature[i.fn], i.args, args, 0)
             IN Raise("broken" \in found, "703") \cup Raise("unreadable" \in found, "709")
                \cup StandingFindings(i, args) \cup RouterFindings(i, args)
                \cup WrapperFindings(i, args)

Call(i, t) ==
    IF i.kind = "native.transfer" THEN Raise(t.data # Empty, "702")
    ELSE IF t.data = Empty \/ t.data.fn # FunctionOf(i) THEN {"702"}
    ELSE IF ~ Decodes(t.data) THEN {"709"}
    ELSE ArgumentFindings(i, t.data.args)

Movements(i, t) ==
    Raise(t.value > 0, Move(Native, t.to, t.value))
    \cup IF i.kind # "native.transfer" /\ t.data # Empty /\ t.data.fn = FunctionOf(i) /\ Decodes(t.data)
         THEN TokenMoves(t.to, t.data.fn, t.data.args) ELSE {}

Decide(findings) ==
    IF findings \ {"709"} # {} THEN "refuse" ELSE IF findings # {} THEN "abstain" ELSE "allow"

(* The verdict on a transaction as read, under the policy as pinned. *)
CheckTransaction(i, t, policy) ==
    IF ~ IntentReads(i) \/ i.kind = "permit2.permit" \/ policy = Unread THEN "abstain"
    ELSE Decide(
        Raise(t.chainId \notin {None, i.chain} \/ t.to # Target(i), "701")
        \cup Raise(~ InRange(t.value, ValueBound(i)), "704")
        \cup Call(i, t)
        \cup Raise(\E m \in Movements(i, t) : PolicyRefuses(policy, m), "706"))

(* checkPermit: a Permit2 PermitSingle, as read.  domain is the domain's    *)
(* chain and contract, None when it is not Permit2's; struct says the types *)
(* are Permit2's own.                                                       *)
PermitGrant(r) == Move(r.token, r.spender, r.amount)

CheckPermit(i, r, policy) ==
    IF ~ IntentReads(i) \/ i.kind # "permit2.permit" \/ policy = Unread THEN "abstain"
    ELSE Decide(
        Raise(r.domain # <<i.chain, Target(i)>>, "701")
        \cup Raise(r.primary # "PermitSingle" \/ ~ r.struct, "702")
        \cup IF Unread \in {r.token, r.spender, r.amount, r.expiration, r.deadline} THEN {"709"}
             ELSE Raise(\/ r.token # i.token \/ r.spender # i.spender
                        \/ i.amount # Unlimited /\ (r.amount # i.amount \/ r.amount = MaxAmount), "705")
                  \cup Raise(\/ ~ InRange(r.expiration, i.expiration)
                             \/ ~ InRange(r.deadline, i.deadline), "703")
                  \cup Raise(PolicyRefuses(policy, PermitGrant(r)), "706"))
=============================================================================
