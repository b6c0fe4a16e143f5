------------------------------- MODULE Verifier -------------------------------
(* x402-guard/src/verify.ts: what verify() answers to a request, and what  *)
(* the digest in its receipt covers of that request.                       *)
(*                                                                         *)
(* A request is told apart by what moves the verdict: the verdict of the   *)
(* text scan on the quote, the rail its network names, whether its options *)
(* can be read, the priority-fee cap and the clock keys among them, and    *)
(* what the rail's own check finds in the payment.  Those checks are pure  *)
(* functions of the payment but for the hour; one of them is modelled in   *)
(* full in SolanaPayment.  A payment that is "mistyped" is one that        *)
(* conforms but for a primaryType that is there and is not a string.       *)
EXTENDS Naturals

CONSTANTS
    DefaultCap,     \* the priority-fee cap of a request that names none
    CapCeiling,     \* MAX_CALLER_PRIORITY_FEE_LAMPORTS
    None,
    Unread

ASSUME VerifierAssumption ==
    /\ DefaultCap \in Nat /\ CapCeiling \in Nat
    /\ DefaultCap <= CapCeiling
    /\ None \notin Nat /\ Unread \notin Nat

Payments == {"conforms", "differs", "mistyped", "unread", "throws"}

Request ==
    [text : {"clean", "warned", "poisoned", "unread"},
     network : {"svm", "evm", "unknown"},
     optionsRead : BOOLEAN,
     cap : Nat \cup {None, Unread},         \* options.maxPriorityFeeLamports
     clock : BOOLEAN,                       \* options.nowSeconds is there
     payment : Payments,
     fee : Nat,                             \* svm: the fee the payment sets
     asset : {"quoted", "other"},           \* evm: authorization.asset
     validBefore : Nat]                     \* evm

Decisive == {"allow", "refuse"}

Codes == {"X402-001", "X402-010", "X402-011", "X402-103", "X402-105", "X402-106", "X402-201", "X402-211"}

Raise(condition, code) == IF condition THEN {code} ELSE {}

-----------------------------------------------------------------------------
(* The options. *)

TooLoose(r) == r.cap \in Nat /\ r.cap > CapCeiling

(* Mutant: any number is taken for the cap. *)
AnyCap(r) == IF r.cap \in Nat THEN r.cap ELSE DefaultCap

(* A request may tighten the cap, or loosen it up to the ceiling. *)
EffectiveCap(r) == IF r.cap \in Nat /\ ~ TooLoose(r) THEN r.cap ELSE DefaultCap

(* What is ignored is said. *)
OptionFindings(r) == Raise(r.clock \/ r.cap = Unread \/ TooLoose(r), "X402-011")

-----------------------------------------------------------------------------
(* The verdict, at an hour. *)

(* Whether this is a transfer or an allowance cannot be read, which        *)
(* refuses before the authorization is looked at.                          *)
Mistyped(r) == r.network = "evm" /\ r.payment = "mistyped"

LaneFindings(r, now) ==
    IF Mistyped(r) THEN {"X402-106"}
    ELSE Raise(r.payment = "differs", "X402-001")
         \cup (IF r.network = "svm"
               THEN Raise(r.fee > EffectiveCap(r), "X402-010")
               ELSE Raise(r.asset = "other", "X402-103")
                    \cup Raise(now > r.validBefore, "X402-105"))

(* A poisoned quote is decisive before anything else is looked at. *)
Poisoned(r) == r.text = "poisoned"

Unsure(r) ==
    /\ ~ Poisoned(r)
    /\ \/ r.text = "unread"
       \/ r.network = "unknown"
       \/ ~ r.optionsRead
       \/ r.payment \in {"unread", "throws"}
       \/ r.network = "svm" /\ r.payment = "mistyped"

Findings(r, now) ==
    IF Poisoned(r) THEN {"X402-201"}
    ELSE Raise(r.text = "warned", "X402-211") \cup OptionFindings(r) \cup LaneFindings(r, now)

Decision(r, now) ==
    IF Unsure(r) THEN "abstain"
    ELSE IF Poisoned(r) \/ LaneFindings(r, now) # {} THEN "refuse" ELSE "allow"

-----------------------------------------------------------------------------
(* The digest: everything but the keys the verifier drops, the asset an    *)
(* authorization names beside its payload, and a value that is neither     *)
(* text, number nor Boolean, which hashes as one that is not there.        *)
HashedPayment(r) == IF r.payment = "mistyped" THEN "conforms" ELSE r.payment

Digest(r) ==
    [text |-> r.text, network |-> r.network, payment |-> HashedPayment(r), fee |-> r.fee,
     validBefore |-> r.validBefore, optionsRead |-> r.optionsRead,
     cap |-> IF r.optionsRead THEN r.cap ELSE None]

Digests ==
    [text : {"clean", "warned", "poisoned", "unread"},
     network : {"svm", "evm", "unknown"},
     payment : Payments,
     fee : Nat, validBefore : Nat, optionsRead : BOOLEAN, cap : Nat \cup {None, Unread}]
=============================================================================
