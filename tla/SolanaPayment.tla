---------------------------- MODULE SolanaPayment ----------------------------
(* x402-guard/src/index.ts: inspectPayment, the check of a Solana payment  *)
(* against the merchant's quote before a wallet signs it.                  *)
(*                                                                         *)
(* The guard walks the instructions once and keeps a handful of            *)
(* accumulators; the verdict is read off them at the end.  Each step of    *)
(* this specification is one turn of that walk over an instruction nobody  *)
(* chose for its convenience, so what a verdict of allow says about the    *)
(* whole transaction can be asked of every transaction.                    *)
(*                                                                         *)
(* Addresses are compared, never decoded: Accounts stands for them, and    *)
(* TokenAccounts for the two token accounts derived from a wallet and the  *)
(* quoted mint, one for each token program.  A field that cannot be read   *)
(* off the bytes is Unread.                                                *)
EXTENDS Integers, Sequences

CONSTANTS
    Accounts,
    TokenAccounts,      \* the quoted mint's token accounts of a wallet
    Payee,              \* quote.payTo
    Mint,               \* quote.asset
    Instructions,       \* what a transaction may be made of
    Questions,          \* what the guard may be asked
    MaxUnits,           \* compute units when no limit is set (1 400 000)
    MicroPerLamport,    \* the unit of a price (1 000 000)
    MaxInstructions,    \* bound: the instructions of one transaction
    Unread,             \* present, and cannot be read
    None                \* not there

Read(S) == S \cup {Unread}

TokenIx == [prog : {"token"}, form : {"checked", "plain", "control", "other"},
            source : Accounts, to : Read(Accounts), authority : Read(Accounts),
            amount : Read(Nat)]
SystemIx == [prog : {"system"}, form : {"nonce", "lamports", "other"}]
AtaIx == [prog : {"ata"}, form : {"create", "recover", "other"}, short : BOOLEAN,
          funder : Accounts, created : Accounts, owner : Accounts, mint : Accounts]
BudgetIx == [prog : {"budget"}, form : {"limit", "price", "other"}, value : Read(Nat)]
MemoIx == [prog : {"memo"}, directive : BOOLEAN]
LighthouseIx == [prog : {"lighthouse"}, asserts : BOOLEAN, writes : BOOLEAN]
ForeignIx == [prog : {"foreign"}]

Instruction ==
    TokenIx \cup SystemIx \cup AtaIx \cup BudgetIx \cup MemoIx \cup LighthouseIx
    \cup ForeignIx

(* A spending policy as the check reads it: whether it lists this mint and *)
(* payee, and its cap on one payment in this mint, None when it caps none. *)
Policy == [lists : BOOLEAN, cap : Nat \cup {None}]

Question ==
    [envelope : {"bare", "exact", "other"},     \* inspectPaymentPayload
     decodes : BOOLEAN, lookups : BOOLEAN, feePayer : Accounts,
     payable : BOOLEAN,                         \* payTo and asset are addresses
     amount : Read(Nat), scheme : {"exact", "other", None}, claim : Accounts \cup {None},
     payer : Read(Accounts) \cup {None}, maxFee : Nat,
     policy : Read(Policy) \cup {None}]

ASSUME PaymentAssumption ==
    /\ TokenAccounts \in [Accounts -> SUBSET Accounts]
    /\ Payee \in Accounts /\ Mint \in Accounts
    /\ Instructions \subseteq Instruction
    /\ Questions \subseteq Question
    /\ MaxUnits \in Nat /\ MicroPerLamport \in Nat \ {0} /\ MaxInstructions \in Nat
    /\ Unread \notin Accounts \cup Nat \cup Policy /\ None \notin Accounts \cup Nat \cup Policy
    /\ Unread # None

VARIABLES
    asked,      \* the transaction's header, the quote and the options
    verdict,    \* "none" while the walk goes on
    tx,         \* the instructions walked so far
    findings,   \* the codes found so far
    paid,       \* transferredAmount; None until a transfer to the payee is seen
    creates,    \* ataCreates
    limit, price, twice,    \* cuLimit, cuPrice, duplicateComputeBudget
    directive   \* a memo reads like an instruction

vars == <<asked, verdict, tx, findings, paid, creates, limit, price, twice, directive>>
budget == <<limit, price, twice>>

Init ==
    /\ asked \in Questions
    /\ verdict = "none"
    /\ tx = <<>>
    /\ findings = {}
    /\ paid = None
    /\ creates = 0
    /\ limit = None /\ price = None /\ twice = FALSE
    /\ directive = FALSE

-----------------------------------------------------------------------------
(* What cannot be checked at all. *)

QuotedAccounts == TokenAccounts[Payee]
PayerNamed == asked.payer # None

Checkable ==
    /\ asked.envelope # "other"
    /\ asked.decodes /\ ~ asked.lookups
    /\ asked.payable
    /\ asked.payer # Unread /\ asked.policy # Unread

(* A payload in no envelope the check knows, bytes that are no transaction,*)
(* accounts behind a lookup table, an unreadable quote, payer or policy.   *)
Unchecked ==
    /\ verdict = "none"
    /\ ~ Checkable
    /\ verdict' = "abstain"
    /\ UNCHANGED <<asked, tx, findings, paid, creates, budget, directive>>

-----------------------------------------------------------------------------
(* The walk. *)

Raise(condition, code) == IF condition THEN {code} ELSE {}

Walk(ix) ==
    /\ verdict = "none"
    /\ Checkable
    /\ Len(tx) < MaxInstructions
    /\ tx' = Append(tx, ix)
    /\ UNCHANGED <<asked, verdict>>

Transfers(ix) == ix.prog = "token" /\ ix.form \in {"checked", "plain"}
PaysQuoted(ix) == Transfers(ix) /\ ix.to \in QuotedAccounts

(* The authority must be the payer, and the source one of its accounts. *)
PayerMoves(ix) ==
    PayerNamed => ix.authority = asked.payer /\ ix.source \in TokenAccounts[asked.payer]

(* A program the scheme does not name. *)
WalkForeign(ix) ==
    /\ ix.prog = "foreign"
    /\ Walk(ix)
    /\ findings' = findings \cup {"X402-003"}
    /\ UNCHANGED <<paid, creates, budget, directive>>

(* Mutant: a memo that reads like an instruction is found at once. *)
FindMemo(ix) ==
    /\ ix.prog = "memo"
    /\ Walk(ix)
    /\ findings' = findings \cup Raise(ix.directive, "X402-008")
    /\ UNCHANGED <<paid, creates, budget, directive>>

(* A memo is kept for the end. *)
WalkMemo(ix) ==
    /\ ix.prog = "memo"
    /\ Walk(ix)
    /\ directive' = (directive \/ ix.directive)
    /\ UNCHANGED <<findings, paid, creates, budget>>

TokenFindings(ix) ==
    Raise(~ Transfers(ix), "X402-006")
    \cup Raise(Transfers(ix) /\ ix.to \notin QuotedAccounts, "X402-001")
    \cup Raise(PaysQuoted(ix) /\ paid # None, "X402-002")
    \cup Raise(PaysQuoted(ix) /\ ~ PayerMoves(ix), "X402-011")

(* The first transfer to the quoted payee is the payment. *)
WalkToken(ix) ==
    /\ ix.prog = "token"
    /\ Walk(ix)
    /\ findings' = findings \cup TokenFindings(ix)
    /\ paid' = IF PaysQuoted(ix) /\ paid = None THEN ix.amount ELSE paid
    /\ UNCHANGED <<creates, budget, directive>>

(* Only AdvanceNonceAccount has a place in a payment. *)
WalkSystem(ix) ==
    /\ ix.prog = "system"
    /\ Walk(ix)
    /\ findings' = findings \cup Raise(ix.form = "lamports", "X402-007")
                            \cup Raise(ix.form = "other", "X402-009")
    /\ UNCHANGED <<paid, creates, budget, directive>>

CreatesQuoted(ix) == ix.created \in QuotedAccounts /\ ix.owner = Payee /\ ix.mint = Mint

(* Mutant: a create is waved through, whoever's account it creates. *)
AnyCreateFindings(ix) ==
    Raise(ix.form = "recover", "X402-006")
    \cup Raise(ix.form = "other" \/ (ix.form = "create" /\ ix.short), "X402-009")

AtaFindings(ix) ==
    Raise(ix.form = "recover", "X402-006")
    \cup Raise(ix.form = "other" \/ (ix.form = "create" /\ ix.short), "X402-009")
    \cup Raise(/\ ix.form = "create" /\ ~ ix.short
               /\ ~ CreatesQuoted(ix) \/ (PayerNamed /\ ix.funder # asked.payer), "X402-007")

WalkAta(ix) ==
    /\ ix.prog = "ata"
    /\ Walk(ix)
    /\ findings' = findings \cup AtaFindings(ix)
    /\ creates' = IF ix.form = "create" /\ ~ ix.short THEN creates + 1 ELSE creates
    /\ UNCHANGED <<paid, budget, directive>>

Larger(a, b) == IF a = None \/ b > a THEN b ELSE a

(* Mutant: the last price counts, and nothing says there were two. *)
KeepLastPrice(ix) ==
    /\ price' = IF ix.form = "price" /\ ix.value # Unread THEN ix.value ELSE price
    /\ limit' = IF ix.form = "limit" /\ ix.value # Unread THEN Larger(limit, ix.value) ELSE limit
    /\ twice' = twice

(* Mutant: a value that cannot be read is kept. *)
KeepUnread(ix) ==
    /\ price' = IF ix.form = "price" THEN Larger(price, ix.value) ELSE price
    /\ limit' = IF ix.form = "limit" THEN Larger(limit, ix.value) ELSE limit
    /\ twice' = (twice \/ (ix.form = "price" /\ price # None))

(* The largest limit and price, and whether one was set twice. *)
KeepLargest(ix) ==
    /\ price' = IF ix.form = "price" /\ ix.value # Unread THEN Larger(price, ix.value) ELSE price
    /\ limit' = IF ix.form = "limit" /\ ix.value # Unread THEN Larger(limit, ix.value) ELSE limit
    /\ twice' = (twice \/ /\ ix.value # Unread
                          /\ \/ ix.form = "limit" /\ limit # None
                             \/ ix.form = "price" /\ price # None)

WalkBudget(ix) ==
    /\ ix.prog = "budget"
    /\ Walk(ix)
    /\ KeepLargest(ix)
    /\ UNCHANGED <<findings, paid, creates, directive>>

(* An assertion this walk knows, that names no writable account. *)
WalkLighthouse(ix) ==
    /\ ix.prog = "lighthouse"
    /\ Walk(ix)
    /\ findings' = findings \cup Raise(~ ix.asserts \/ ix.writes, "X402-009")
    /\ UNCHANGED <<paid, creates, budget, directive>>

Step(ix) ==
    \/ WalkForeign(ix) \/ WalkMemo(ix) \/ WalkToken(ix) \/ WalkSystem(ix)
    \/ WalkAta(ix) \/ WalkBudget(ix) \/ WalkLighthouse(ix)

-----------------------------------------------------------------------------
(* After the walk. *)

Fee(units, unitPrice) == (units * unitPrice) \div MicroPerLamport

FeeOver ==
    /\ price # None
    /\ price > 0
    /\ Fee(IF limit = None THEN MaxUnits ELSE limit, price) > asked.maxFee

(* The payer pays the fee, and the quote promised somebody else would. *)
NotGasless ==
    /\ PayerNamed /\ asked.feePayer = asked.payer
    /\ asked.claim # None /\ asked.claim # asked.payer

Aggregates ==
    findings \cup Raise(FeeOver, "X402-010") \cup Raise(NotGasless, "X402-011")
             \cup Raise(creates > 1, "X402-007") \cup Raise(twice, "X402-009")

(* Without any finding, a payment that is not there is one. *)
Present == Aggregates \cup Raise(paid = None /\ Aggregates = {}, "X402-001")

(* checkSpendPolicy: its codes, 501 to 503, are one here. *)
PolicyRefuses ==
    /\ asked.policy # None
    /\ ~ asked.policy.lists \/ (asked.policy.cap # None /\ paid > asked.policy.cap)

Medium == {"X402-008", "X402-012"}

AllFindings ==
    Present \cup Raise(asked.scheme = "other", "X402-012")
            \cup Raise(paid # None /\ paid # asked.amount, "X402-002")
            \cup Raise(paid # None /\ PolicyRefuses, "X402-501")
            \cup Raise(directive, "X402-008")

(* The amounts cannot be compared. *)
CannotCompare ==
    /\ verdict = "none"
    /\ Checkable
    /\ paid # None
    /\ asked.amount = Unread \/ paid = Unread
    /\ findings' = Present \cup Raise(asked.scheme = "other", "X402-012")
    /\ verdict' = "abstain"
    /\ UNCHANGED <<asked, tx, paid, creates, budget, directive>>

Conclude ==
    /\ verdict = "none"
    /\ Checkable
    /\ paid # None => asked.amount # Unread /\ paid # Unread
    /\ findings' = AllFindings
    /\ verdict' = IF AllFindings \subseteq Medium THEN "allow" ELSE "refuse"
    /\ UNCHANGED <<asked, tx, paid, creates, budget, directive>>

Next == Unchecked \/ (\E ix \in Instructions : Step(ix)) \/ CannotCompare \/ Conclude

Spec == Init /\ [][Next]_vars

-----------------------------------------------------------------------------
(* Properties. *)

TypeOK ==
    /\ asked \in Questions
    /\ verdict \in {"none", "allow", "refuse", "abstain"}
    /\ tx \in Seq(Instructions)
    /\ findings \subseteq {"X402-001", "X402-002", "X402-003", "X402-006", "X402-007", "X402-008",
                           "X402-009", "X402-010", "X402-011", "X402-012", "X402-501"}
    /\ paid \in Read(Nat) \cup {None}
    /\ creates \in Nat
    /\ limit \in Nat \cup {None} /\ price \in Nat \cup {None}
    /\ twice \in BOOLEAN /\ directive \in BOOLEAN

(* A transaction that is allowed pays the quoted payee exactly once and    *)
(* exactly what the quote asks, out of the named payer's own account and   *)
(* within the policy (index.ts 310-1075).                                  *)
PaysTheQuote ==
    verdict = "allow" =>
        \E i \in DOMAIN tx :
            /\ PaysQuoted(tx[i]) /\ tx[i].amount = asked.amount /\ asked.amount # Unread
            /\ PayerNamed => /\ tx[i].authority = asked.payer
                             /\ tx[i].source \in TokenAccounts[asked.payer]
            /\ asked.policy # None =>
                   /\ asked.policy.lists
                   /\ asked.policy.cap # None => tx[i].amount <= asked.policy.cap
            /\ \A j \in DOMAIN tx : Transfers(tx[j]) => j = i

(* What an instruction other than the payment may be. *)
MovesNothing(ix) ==
    \/ ix.prog \in {"memo", "budget"}
    \/ ix.prog = "system" /\ ix.form = "nonce"
    \/ ix.prog = "lighthouse" /\ ix.asserts /\ ~ ix.writes

OpensQuoted(ix) ==
    /\ ix.prog = "ata" /\ ix.form = "create" /\ ~ ix.short /\ CreatesQuoted(ix)
    /\ PayerNamed => ix.funder = asked.payer

(* Beside the payment, an allowed transaction moves nothing and hands over *)
(* nothing; it opens one token account at most, the payee's own.           *)
NothingElse ==
    verdict = "allow" =>
        /\ \A i \in DOMAIN tx : Transfers(tx[i]) \/ MovesNothing(tx[i]) \/ OpensQuoted(tx[i])
        /\ \A i, j \in DOMAIN tx : tx[i].prog = "ata" /\ tx[j].prog = "ata" => i = j

Sets(ix, what) == ix.prog = "budget" /\ ix.form = what /\ ix.value # Unread

(* Whichever price and limit of an allowed transaction the runtime goes by,*)
(* the fee is within the cap, wherever they stand; and the payer does not  *)
(* pay a fee that the quote says somebody else pays.                       *)
FeeAsPromised ==
    verdict = "allow" =>
        /\ \A i \in DOMAIN tx : Sets(tx[i], "price") /\ tx[i].value > 0 =>
              /\ \A j \in DOMAIN tx : Sets(tx[j], "limit") =>
                    Fee(tx[j].value, tx[i].value) <= asked.maxFee
              /\ (\A j \in DOMAIN tx : ~ Sets(tx[j], "limit")) =>
                    Fee(MaxUnits, tx[i].value) <= asked.maxFee
        /\ PayerNamed /\ asked.feePayer = asked.payer /\ asked.claim # None =>
              asked.claim = asked.payer
=============================================================================
