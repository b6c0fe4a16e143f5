------------------------------ MODULE ToolServer ------------------------------
(* x402-guard/src/mcp.ts: one session of the MCP tool server.  Every line  *)
(* is handled as it comes, and its handler runs on between two awaits, so  *)
(* the handlers of several lines are under way at once over one budget of  *)
(* billed scans.                                                           *)
(*                                                                         *)
(* The hosted verifier signs receipts of what it decided; what answers in  *)
(* its place may bring anything but such a signature.                      *)
EXTENDS Integers, FiniteSets

CONSTANTS
    Lines, Line,    \* the lines of a session, and what each of them reads as
    Requests,       \* what a payment can be verified of
    Decides,        \* what the verifier, here or hosted, decides of a request
    Nonce,          \* the payer and the nonce it is signed with, or None
    Addresses,      \* token addresses as they are written
    Lower,          \* each in lower case
    Bodies,         \* what is answered in the verifier's name
    Configs,        \* what the operator has set
    ScanBudget,
    MaxLines,       \* bound: the lines that arrive
    None

(* A body that was answered with 200: the decision it claims, spelled as it *)
(* is or another way, a receipt with a signature over it, a policy block.   *)
Receipts == [request : Requests, decision : {"allow", "refuse"}]
Body ==
    [claims : {"allow", "refuse", "needs_approval", "odd", "no string"}, plain : BOOLEAN,
     receipt : Receipts \cup {None}, signature : {"none", "bad", "good"}, policy : BOOLEAN]

ASSUME ToolAssumption ==
    /\ IsFiniteSet(Lines) /\ ScanBudget \in Nat /\ MaxLines \in Nat
    /\ Bodies \subseteq Body
    /\ \A r \in Requests : Decides[r] \in {"allow", "refuse", "abstain"}
    /\ \A l \in Lines : Line[l].form = "call" /\ Line[l].tool = "verify_payment" => Line[l].arg \in Requests

VARIABLES
    config,         \* WORMHOLE_API_KEY, a hop it may go over, a public key, the opt-out
    pc,             \* of each line's handler
    sessionNonces,  \* those of the payments allowed here
    billedScans,    \* [spent, seen]
    posted,         \* the lines whose handler has posted a billed scan
    out             \* the answer written to each line, or None

vars == <<config, pc, sessionNonces, billedScans, posted, out>>

Says(word) == [says |-> word, policy |-> FALSE, scanned |-> "unsaid"]

Init ==
    /\ config \in Configs
    /\ pc = [l \in Lines |-> "unread"]
    /\ sessionNonces = {}
    /\ billedScans = [spent |-> 0, seen |-> {}]
    /\ posted = {}
    /\ out = [l \in Lines |-> None]

Hosted == config.key
Insecure == config.key /\ ~config.safe

Answer(l, a) ==
    /\ pc' = [pc EXCEPT ![l] = "done"]
    /\ out' = [out EXCEPT ![l] = a]

Await(l, step) ==
    /\ pc' = [pc EXCEPT ![l] = step]
    /\ UNCHANGED out

-----------------------------------------------------------------------------
(* Tools that answer at once. *)

(* quotetext.ts: a blocking finding refuses; a field cut short, or no text  *)
(* at all, is nothing to call clean.                                        *)
ScanFields(doc) ==
    IF doc.critical THEN "refuse" ELSE IF doc.cut \/ doc.chars = 0 THEN "abstain" ELSE "allow"

(* What is no text or document, or throws as it is walked, is not scanned;  *)
(* what was not walked to its end is refused or unknown.                    *)
InspectQuoteText(doc) ==
    LET decision ==
            IF doc.kind \notin {"text", "document"} \/ doc.walk = "throws" THEN "abstain"
            ELSE IF doc.walk = "stopped" /\ ScanFields(doc) # "refuse" THEN "abstain"
            ELSE ScanFields(doc)
    IN [Says(decision) EXCEPT !.scanned = IF doc.chars = 0 THEN "nothing" ELSE "something"]

(* delivery.ts: a second 402, a denial, bytes that are not what was quoted  *)
(* or text that blocks, as far as it is scanned; too large a body is not    *)
(* half judged.  A body is scanned if it is declared or looks like text.    *)
InspectDelivery(d) ==
    LET delivered == d.status = "success"
        body == delivered /\ d.bytes.chars > 0
        wrong ==
            \/ d.status \in {"402", "error"}
            \/ delivered /\ d.otherType
            \/ delivered /\ d.bytes.kind # "absent" /\ d.bytes.chars = 0
            \/ body /\ d.json /\ ~d.parses
            \/ body /\ d.textual /\ InspectQuoteText(d.bytes).says = "refuse"
    IN Says(IF d.status = "unreadable" \/ d.bytes.kind = "huge" THEN "abstain"
            ELSE IF wrong THEN "refuse" ELSE "allow")

(* check_before_use: nothing to check is never reported as checked, and no  *)
(* page is fetched from here.                                               *)
CheckHere(doc) ==
    IF doc.kind \in {"absent", "unscannable", "url"} \/ Insecure THEN Says("unchecked")
    ELSE InspectQuoteText(doc)

(* What a call's handler waits for, if it has to. *)
Waits(m) ==
    CASE m.tool = "verify_payment" /\ ~Hosted -> "local"
      [] m.tool = "verify_payment" /\ Hosted /\ ~Insecure -> "hosted"
      [] m.tool = "check_before_use" /\ Hosted /\ ~Insecure
            /\ m.arg.kind \notin {"absent", "unscannable"} -> "check"
      [] m.tool = "check_token" /\ m.arg \in Addresses -> "registry"
      [] OTHER -> "nothing"

CallNow(m) ==
    CASE m.tool = "verify_payment" -> Says("abstain")
      [] m.tool = "verify_delivery" -> InspectDelivery(m.arg)
      [] m.tool = "check_before_use" -> CheckHere(m.arg)
      [] m.tool = "check_token" -> Says("unchecked")
      [] m.tool = "scan_text" -> InspectQuoteText(m.arg)
      [] OTHER -> Says("error")

(* Mutant: a line that reads `null` ends without an answer. *)
SilentOnNull(m) ==
    CASE m.form \in {"blank", "notObject"} -> None
      [] m.form = "call" -> CallNow(m)
      [] m.form \in {"unparseable", "batch"} -> Says("error")
      [] m.form \in {"initialize", "tools/list"} -> Says("result")
      [] OTHER -> IF m.id THEN Says("other") ELSE None

(* handleMessage up to the first await.  A call, initialize and tools/list  *)
(* are answered with or without an id.                                      *)
Now(m) ==
    CASE m.form = "blank" -> None
      [] m.form = "call" -> CallNow(m)
      [] m.form \in {"unparseable", "notObject", "batch"} -> Says("error")
      [] m.form \in {"initialize", "tools/list"} -> Says("result")
      [] OTHER -> IF m.id THEN Says("other") ELSE None

Arrive(l) ==
    LET m == Line[l] IN
    /\ pc[l] = "unread"
    /\ Cardinality({k \in Lines : pc[k] # "unread"}) < MaxLines
    /\ IF m.form = "call" /\ Waits(m) # "nothing"
       THEN Await(l, Waits(m))
       ELSE Answer(l, Now(m))
    /\ UNCHANGED <<config, sessionNonces, billedScans, posted>>

-----------------------------------------------------------------------------
(* verify_payment. *)

(* evm.ts: a nonce this session has allowed a payment with refuses another. *)
Verdict(r) ==
    IF Decides[r] = "allow" /\ Nonce[r] \in sessionNonces \ {None} THEN "refuse" ELSE Decides[r]

(* Mutant: a payment about to be refused takes its nonce as well.           *)
CommitBeforeVerdict(r) == sessionNonces' = sessionNonces \cup ({Nonce[r]} \ {None})

(* Only a payment that is allowed takes its nonce.                          *)
Commit(r) ==
    sessionNonces' = IF Verdict(r) = "allow" THEN sessionNonces \cup ({Nonce[r]} \ {None}) ELSE sessionNonces

(* The SDKs are loaded, and verify() is awaited; either may fail.  Looking  *)
(* the nonce up and taking it come after the last of its awaits.            *)
VerifyLocal(l) ==
    LET request == Line[l].arg IN
    /\ pc[l] = "local"
    /\ \/ Answer(l, Says(Verdict(request))) /\ Commit(request)
       \/ Answer(l, Says("abstain")) /\ UNCHANGED sessionNonces
    /\ UNCHANGED <<config, billedScans, posted>>

(* Only the verifier makes a signature that verifies. *)
Genuine(b) == b.signature = "good" => b.receipt # None /\ b.receipt.decision = Decides[b.receipt.request]

Relayed == {"refuse", "needs_approval"}

(* The receipt is there, its signature verifies, it is of this request and  *)
(* attests an allow.                                                        *)
Proven(b, request) ==
    /\ b.receipt # None
    /\ b.signature = "good"
    /\ b.receipt.request = request
    /\ b.receipt.decision = "allow"

(* Mutant: the decision is compared as it is spelled. *)
GateAsSpelled(b, request) ==
    IF b.claims # "allow" \/ ~b.plain
    THEN [Says(b.claims) EXCEPT !.policy = b.policy]
    ELSE IF ~config.pubkey /\ config.optOut THEN [Says("allow") EXCEPT !.policy = b.policy]
    ELSE IF config.pubkey /\ Proven(b, request) THEN Says("allow")
    ELSE [Says("abstain") EXCEPT !.policy = b.policy]

(* gateHostedVerdict: an allow, however it is spelled, is proven or becomes *)
(* an abstain; the policy block is the wire's and goes with what is not a   *)
(* proven allow.                                                            *)
GateHostedVerdict(b, request) ==
    IF b.claims = "no string" THEN Says("abstain")
    ELSE IF b.claims \in Relayed THEN [Says(b.claims) EXCEPT !.policy = b.policy]
    ELSE IF b.claims = "allow" /\ ~config.pubkey /\ config.optOut
    THEN [Says("allow") EXCEPT !.policy = b.policy]
    ELSE IF b.claims = "allow" /\ config.pubkey /\ Proven(b, request) THEN Says("allow")
    ELSE [Says("abstain") EXCEPT !.policy = b.policy]

(* callHosted: unreachable, another status, an unreadable body.             *)
HostedFails(l) ==
    /\ pc[l] = "hosted"
    /\ Answer(l, Says("abstain"))
    /\ UNCHANGED <<config, sessionNonces, billedScans, posted>>

HostedAnswers(l) ==
    /\ pc[l] = "hosted"
    /\ \E b \in {x \in Bodies : Genuine(x)} : Answer(l, GateHostedVerdict(b, Line[l].arg))
    /\ UNCHANGED <<config, sessionNonces, billedScans, posted>>

-----------------------------------------------------------------------------
(* check_before_use, hosted. *)

(* A clean answer of a scan that read nothing is no answer.                 *)
HostedScannedNothing(b) == b.says \in {"allow", "clean"} /\ b.scanned = "nothing"

CheckFails(l) ==
    /\ pc[l] = "check"
    /\ Answer(l, Says("unchecked"))
    /\ UNCHANGED <<config, sessionNonces, billedScans, posted>>

CheckAnswers(l) ==
    /\ pc[l] = "check"
    /\ \E b \in [says : {"allow", "clean", "refuse"}, policy : {FALSE},
                 scanned : {"nothing", "something", "unsaid"}] :
          Answer(l, IF HostedScannedNothing(b) THEN Says("unchecked") ELSE b)
    /\ UNCHANGED <<config, sessionNonces, billedScans, posted>>

-----------------------------------------------------------------------------
(* check_token: the free registry first, and a billed scan of what it has   *)
(* not seen, once an address and within the budget.                         *)

Observed(l) ==
    /\ pc[l] = "registry"
    /\ Answer(l, Says("observed"))
    /\ UNCHANGED <<config, sessionNonces, billedScans, posted>>

(* Unreachable, or the key may not go over this hop. *)
RegistryFails(l) ==
    /\ pc[l] = "registry"
    /\ Answer(l, Says("unchecked"))
    /\ UNCHANGED <<config, sessionNonces, billedScans, posted>>

Unobserved(l) ==
    /\ pc[l] = "registry"
    /\ ~Insecure
    /\ Answer(l, Says("unobserved"))
    /\ UNCHANGED <<config, sessionNonces, billedScans, posted>>

(* reserveBilledScan. *)
Denied(a) == Lower[a] \in billedScans.seen \/ billedScans.spent >= ScanBudget

(* Mutant: the address is noted as it was written. *)
ReserveAsWritten(a) ==
    billedScans' = [spent |-> billedScans.spent + 1, seen |-> billedScans.seen \cup {a}]

Reserve(a) ==
    billedScans' = [spent |-> billedScans.spent + 1, seen |-> billedScans.seen \cup {Lower[a]}]

ScanDenied(l) ==
    /\ pc[l] = "registry"
    /\ Hosted /\ ~Insecure
    /\ Denied(Line[l].arg)
    /\ Answer(l, Says("unchecked"))
    /\ UNCHANGED <<config, sessionNonces, billedScans, posted>>

(* Reserved before the request is sent, and kept whatever comes of it.      *)
PostScan(l) ==
    /\ pc[l] = "registry"
    /\ Hosted /\ ~Insecure
    /\ ~Denied(Line[l].arg)
    /\ Reserve(Line[l].arg)
    /\ posted' = posted \cup {l}
    /\ Await(l, "scan")
    /\ UNCHANGED <<config, sessionNonces>>

ScanAnswers(l) ==
    /\ pc[l] = "scan"
    /\ \/ Answer(l, Says("observed"))
       \/ Answer(l, Says("unchecked"))
    /\ UNCHANGED <<config, sessionNonces, billedScans, posted>>

-----------------------------------------------------------------------------
Awaited(l) ==
    \/ VerifyLocal(l) \/ HostedFails(l) \/ HostedAnswers(l)
    \/ CheckFails(l) \/ CheckAnswers(l)
    \/ Observed(l) \/ RegistryFails(l) \/ Unobserved(l)
    \/ ScanDenied(l) \/ PostScan(l) \/ ScanAnswers(l)

Next == \E l \in Lines : Arrive(l) \/ Awaited(l)

Spec == Init /\ [][Next]_vars

(* Every fetch, import and verification comes to an end.                    *)
FairSpec == Spec /\ \A l \in Lines : WF_vars(Awaited(l))

-----------------------------------------------------------------------------
(* Properties. *)

(* mcp.ts, AW-42: however the calls of a session overlap, an address is     *)
(* scanned at the operator's cost once, in whatever case it is written, and *)
(* never more often in all than the budget says; what is counted as spent   *)
(* is what was posted.                                                      *)
BilledOnce ==
    /\ \A l, k \in posted : Lower[Line[l].arg] = Lower[Line[k].arg] => l = k
    /\ Cardinality(posted) = billedScans.spent
    /\ billedScans.spent <= ScanBudget

Cleared(l) == out[l] # None /\ out[l].says \in {"allow", "clean"}

(* mcp.ts, gateHostedVerdict and callVerifyPayment: whatever answers as the *)
(* verifier and however it spells it, a payment is called allowed only if   *)
(* the verifier allows this very request, or the operator accepted unsigned *)
(* answers, and a proven allow carries no policy the wire wrote; and what   *)
(* is called clean is nothing of which no text was read.                    *)
AllowIsProven ==
    \A l \in Lines : Line[l].form = "call" /\ Cleared(l) =>
        /\ Line[l].tool = "verify_payment" =>
              \/ Decides[Line[l].arg] = "allow" /\ ~out[l].policy
              \/ Hosted /\ config.optOut /\ ~config.pubkey
        /\ Line[l].tool \in {"check_before_use", "scan_text"} => out[l].scanned # "nothing"

AllowedHere(l) ==
    Line[l].form = "call" /\ Line[l].tool = "verify_payment" /\ pc[l] = "done" /\ out[l].says = "allow"

(* evm.ts, AW-66(d): however verifications overlap, with no key set one     *)
(* authorization is allowed once in a session; and a payment the verifier   *)
(* allows is refused only if one of its payer's and nonce was allowed: a    *)
(* payment that was refused does not take the nonce from an honest one.     *)
NonceTakenByAllow ==
    ~Hosted => \A l \in Lines : Line[l].form = "call" /\ Line[l].tool = "verify_payment" =>
        LET others == {k \in Lines \ {l} : AllowedHere(k) /\ Nonce[Line[k].arg] = Nonce[Line[l].arg]}
            once == Nonce[Line[l].arg] # None
        IN /\ AllowedHere(l) /\ once => others = {}
           /\ pc[l] = "done" /\ out[l].says = "refuse" /\ Decides[Line[l].arg] = "allow" => once /\ others # {}

(* mcp.ts, handleMessage: "a request with an id gets a response, always",   *)
(* and a line that is no request an error, however many handlers wait.      *)
Answered ==
    \A l \in Lines :
        (/\ pc[l] # "unread" /\ Line[l].form # "blank"
         /\ Line[l].id \/ Line[l].form \in {"unparseable", "notObject", "batch"})
            ~> out[l] # None
=============================================================================
