------------------------------ MODULE GuardedPay ------------------------------
(* x402-guard/src/client.ts and server.ts: an agent asks a verifier before *)
(* it signs, over a wire that may lose an answer, bring an older one or    *)
(* another's, or bring something nobody signed.                            *)
(*                                                                         *)
(* The agent holds the quote and the payment as objects and may change     *)
(* them while the question is out.  A hosted verifier works on the bytes   *)
(* that were sent; one in the agent's own process works on the objects     *)
(* themselves.  A receipt is what canonicalReceipt() signs of it; what the *)
(* wire cannot make is a signature over a receipt that was never signed.   *)
EXTENDS Verifier

CONSTANTS
    Calls,          \* calls of guardedPay
    Requests,       \* what an agent may ask about
    Said,           \* sets of codes a response may carry
    Setups,         \* how a call reaches its verifier and what it insists on
    Edits,          \* what an agent's objects may be changed into
    MaxTime         \* bound: the hours that pass

ASSUME GuardedAssumption ==
    /\ Requests \subseteq Request /\ Edits \subseteq Requests
    /\ Setups \subseteq [transport : {"http", "local"},
                        integrity : {"required", "keyless", "trusted", "none"}]
    /\ Said \subseteq SUBSET Codes
    /\ MaxTime \in Nat

Receipt == [decision : Decisive, codes : SUBSET Codes, digest : Digests]

(* A response: a decision, the codes of its findings, and a receipt with a *)
(* signature that fits it, one that does not, or none.                     *)
Responses(receipts, signatures) ==
    [decision : Decisive \cup {"abstain", "odd"}, codes : Said,
     receipt : receipts \cup {None}, signature : signatures]

VARIABLES
    time,
    setup,      \* of each call
    live,       \* the request as the agent holds it now
    sent,       \* the request as it was serialised, or read in the process
    pc,         \* "idle", "asking", "done"
    answer,     \* what guardedPay returned
    job,        \* the verifier's side: where it is with the request
    evidence,   \* the resolver vouched for the quote of this request
    issued,     \* every receipt it made, with the call it was for
    billed      \* what the meter was told

vars == <<time, setup, live, sent, pc, answer, job, evidence, issued, billed>>
clientVars == <<setup, live, sent, pc, answer>>
serverVars == <<job, evidence, issued, billed>>

Answer(decision, codes, verified) ==
    [decision |-> decision, codes |-> codes, verified |-> verified]
Abstained == Answer("abstain", {}, FALSE)

Init ==
    /\ time = 0
    /\ setup \in [Calls -> Setups]
    /\ live \in [Calls -> Requests]
    /\ sent = live
    /\ pc = [c \in Calls |-> "idle"]
    /\ answer = [c \in Calls |-> Abstained]
    /\ job = [c \in Calls |-> "none"]
    /\ evidence = [c \in Calls |-> FALSE]
    /\ issued = {}
    /\ billed = {}

Hosted(c) == setup[c].transport = "http"

(* verify() builds a receipt; it is the hosted handler that signs it. *)
Signed == {i.receipt : i \in {j \in issued : Hosted(j.call)}}

-----------------------------------------------------------------------------
(* The agent. *)

Return(c, a) ==
    /\ answer' = [answer EXCEPT ![c] = a]
    /\ pc' = [pc EXCEPT ![c] = "done"]

(* guardedFetch: no payment is asked for, or none can be built from the 402; *)
(* guardedPay: nothing says how an answer is to be believed.                 *)
Unasked(c) ==
    /\ pc[c] = "idle"
    /\ \/ Return(c, Answer("unpaid", {}, FALSE))
       \/ Return(c, Abstained)
    /\ UNCHANGED <<time, setup, live, sent, serverVars>>

Ask(c) ==
    /\ pc[c] = "idle"
    /\ setup[c].integrity # "none"
    /\ sent' = [sent EXCEPT ![c] = live[c]]
    /\ pc' = [pc EXCEPT ![c] = "asking"]
    /\ job' = [job EXCEPT ![c] = IF Hosted(c) THEN "received" ELSE "resolved"]
    /\ UNCHANGED <<time, setup, live, answer, evidence, issued, billed>>

(* The host changes the quote, the payment or the options in place during  *)
(* the await; the network's name is a string of the request itself.        *)
Edit(c, r) ==
    /\ pc[c] = "asking"
    /\ r.network = live[c].network
    /\ live' = [live EXCEPT ![c] = r]
    /\ UNCHANGED <<time, setup, sent, pc, answer, serverVars>>

(* The transport throws, the endpoint answers with an error, or what it    *)
(* answers is no verdict.                                                  *)
NoVerdict(c) ==
    /\ pc[c] = "asking"
    /\ Return(c, Abstained)
    /\ UNCHANGED <<time, setup, live, sent, serverVars>>

(* Mutant: any receipt that is signed will do. *)
SignedAtAll(c, resp) ==
    /\ setup[c].integrity = "required"
    /\ resp.receipt # None
    /\ resp.signature = "good"
    /\ resp.receipt.decision = resp.decision

(* The receipt is there, its signature fits the pinned key, it is for this *)
(* very request as the agent holds it now, and says what the response says.*)
Believed(c, resp) ==
    /\ setup[c].integrity = "required"
    /\ resp.receipt # None
    /\ resp.signature = "good"
    /\ resp.receipt.digest = Digest(live[c])
    /\ resp.receipt.decision = resp.decision

(* The findings the receipt attests: those told, and those left out. *)
Reconciled(resp) ==
    {code \in resp.codes : code \in resp.receipt.codes}
    \cup {code \in resp.receipt.codes : code \notin resp.codes}

(* What guardedPay makes of a response; the codes that come along with an  *)
(* answer it does not call verified are left out.                          *)
Verdict(c, resp) ==
    IF resp.decision \notin Decisive THEN Abstained
    ELSE IF setup[c].integrity = "trusted" THEN Answer(resp.decision, {}, FALSE)
    ELSE IF Believed(c, resp) THEN Answer(resp.decision, Reconciled(resp), TRUE)
    ELSE Abstained

Answered(c, resp) ==
    /\ pc[c] = "asking"
    /\ Return(c, Verdict(c, resp))
    /\ UNCHANGED <<time, setup, live, sent, serverVars>>

(* Whatever the wire brings.  A signature that fits is one of ours. *)
Delivered(c) ==
    /\ Hosted(c)
    /\ \E resp \in Responses(Signed, {"good", "none"}) : Answered(c, resp)

(* A receipt nobody signed, made for this very request. *)
Forged(c) ==
    /\ Hosted(c)
    /\ Answered(c, [decision |-> "allow", codes |-> {}, signature |-> "bad",
                    receipt |-> [decision |-> "allow", codes |-> {}, digest |-> Digest(live[c])]])

(* In the agent's process the response is the verifier's own: its receipt, *)
(* which nobody signed, and an abstain without one.                        *)
Returned(c) ==
    /\ ~ Hosted(c)
    /\ job[c] = "answered"
    /\ LET own == {i \in issued : i.call = c} IN
       IF own = {}
       THEN Answered(c, [decision |-> "abstain", codes |-> {}, receipt |-> None,
                         signature |-> "none"])
       ELSE \E i \in own :
               Answered(c, [decision |-> i.receipt.decision, codes |-> i.receipt.codes,
                            receipt |-> i.receipt, signature |-> "none"])

-----------------------------------------------------------------------------
(* The verifier. *)

Reply(c) == job' = [job EXCEPT ![c] = "answered"]

(* Nothing has to be awaited, or the resolver said what the quote's        *)
(* provenance is.                                                          *)
Resolve(c) ==
    /\ job[c] = "received"
    /\ \E vouched \in BOOLEAN : evidence' = [evidence EXCEPT ![c] = vouched]
    /\ job' = [job EXCEPT ![c] = "resolved"]
    /\ UNCHANGED <<time, clientVars, issued, billed>>

(* Mutant: what the resolver throws is not caught. *)
ResolverEscapes(c) ==
    /\ job[c] = "received"
    /\ job' = [job EXCEPT ![c] = "escaped"]
    /\ UNCHANGED <<time, clientVars, evidence, issued, billed>>

ResolverThrows(c) ==
    /\ job[c] = "received"
    /\ Reply(c)
    /\ UNCHANGED <<time, clientVars, evidence, issued, billed>>

(* verify() itself throws, or the key cannot sign. *)
VerifierThrows(c) ==
    /\ job[c] \in {"resolved", "recovering"}
    /\ Reply(c)
    /\ UNCHANGED <<time, clientVars, evidence, issued, billed>>

(* On the EVM rail the lane has read the authorization and awaits the      *)
(* recovery of its signer, unless it has already come to a verdict.        *)
Awaits(r) == r.network = "evm" /\ ~ Poisoned(r) /\ ~ Unsure(r) /\ ~ Mistyped(r)

Recover(c) ==
    /\ job[c] = "resolved"
    /\ Awaits(sent[c])
    /\ job' = [job EXCEPT ![c] = "recovering"]
    /\ UNCHANGED <<time, clientVars, evidence, issued, billed>>

(* The objects as they are now: the verifier's own, or the agent's. *)
Current(c) == IF Hosted(c) THEN sent[c] ELSE live[c]

(* What the lane read before the await, and the asset it reads after it. *)
Judged(c) == IF job[c] = "recovering" THEN [sent[c] EXCEPT !.asset = Current(c).asset] ELSE sent[c]

Verify(c) ==
    \/ job[c] = "recovering"
    \/ job[c] = "resolved" /\ ~ Awaits(sent[c])

(* The digest is taken at the end: of the options as they were read, and   *)
(* of the quote and the payment as they then are.                          *)
DigestAtEnd(c) ==
    IF job[c] = "recovering"
    THEN [Digest(Current(c)) EXCEPT !.optionsRead = Digest(sent[c]).optionsRead,
                                    !.cap = Digest(sent[c]).cap]
    ELSE Digest(sent[c])

ReceiptFor(c) ==
    [decision |-> Decision(Judged(c), time), codes |-> Findings(Judged(c), time),
     digest |-> DigestAtEnd(c)]

Abstain(c) ==
    /\ Verify(c)
    /\ Unsure(sent[c])
    /\ Reply(c)
    /\ UNCHANGED <<time, clientVars, evidence, issued, billed>>

Bill(c) == [call |-> c, digest |-> ReceiptFor(c).digest, decision |-> ReceiptFor(c).decision]

(* Mutant: whoever asks over the wire is billed. *)
BillAsked(c) ==
    IF Hosted(c) THEN billed' \in {billed, billed \cup {Bill(c)}} ELSE UNCHANGED billed

(* The meter is told of what can be billed; it may throw, and nothing else *)
(* changes if it does.                                                     *)
Meter(c) ==
    IF evidence[c] THEN billed' \in {billed, billed \cup {Bill(c)}} ELSE UNCHANGED billed

Attest(c) ==
    /\ Verify(c)
    /\ ~ Unsure(sent[c])
    /\ Reply(c)
    /\ issued' = issued \cup {[call |-> c, receipt |-> ReceiptFor(c)]}
    /\ Meter(c)
    /\ UNCHANGED <<time, clientVars, evidence>>

Tick ==
    /\ time < MaxTime
    /\ time' = time + 1
    /\ UNCHANGED <<clientVars, serverVars>>

Handle(c) ==
    Resolve(c) \/ ResolverThrows(c) \/ VerifierThrows(c) \/ Recover(c) \/ Abstain(c) \/ Attest(c)

Next ==
    \/ \E c \in Calls :
          \/ Unasked(c) \/ Ask(c) \/ NoVerdict(c) \/ Delivered(c) \/ Forged(c) \/ Returned(c)
          \/ Handle(c)
          \/ \E r \in Edits : Edit(c, r)
    \/ Tick

Spec == Init /\ [][Next]_vars

(* The verifier's process runs, and its resolver, its recovery and its     *)
(* signing come to an end.                                                 *)
Fairness == \A c \in Calls : WF_vars(Handle(c))

FairSpec == Spec /\ Fairness

-----------------------------------------------------------------------------
(* Properties. *)

TypeOK ==
    /\ time \in 0..MaxTime
    /\ setup \in [Calls -> Setups]
    /\ live \in [Calls -> Requests] /\ sent \in [Calls -> Requests]
    /\ pc \in [Calls -> {"idle", "asking", "done"}]
    /\ answer \in [Calls -> [decision : Decisive \cup {"abstain", "unpaid"},
                              codes : SUBSET Codes, verified : BOOLEAN]]
    /\ job \in [Calls -> {"none", "received", "resolved", "recovering", "answered"}]
    /\ evidence \in [Calls -> BOOLEAN]
    /\ issued \subseteq [call : Calls, receipt : Receipt]
    /\ billed \subseteq [call : Calls, decision : Decisive, digest : Digests]

(* The receipt of a hosted call says what the verifier finds, at some hour *)
(* that has come, in the request that was sent to it.                      *)
SaysOf(rc, r) ==
    /\ rc.digest = Digest(r)
    /\ \E t \in 0..time : rc.decision = Decision(r, t) /\ rc.codes = Findings(r, t)

(* Whatever the wire brings and however the agent's objects change: an     *)
(* answer that is called verified is the verifier's own decision, with its *)
(* own findings, on a request with the digest of the one the agent holds   *)
(* (client.ts 218-413, server.ts 80-148).  What that digest leaves out may  *)
(* have moved the verdict all the same.                                    *)
ClearedWasJudged ==
    \A c \in Calls : answer[c].verified =>
        \E i \in issued :
            /\ Hosted(i.call) /\ SaysOf(i.receipt, sent[i.call])
            /\ i.receipt.digest = Digest(live[c])
            /\ i.receipt.decision = answer[c].decision /\ i.receipt.codes = answer[c].codes

(* No request loosens the fee cap it is checked against beyond what the    *)
(* verifier's operator accepts, one that tightens it is held to that, and  *)
(* one whose cap is absent or cannot be read to the default (verify.ts     *)
(* 291-340).                                                               *)
CapHolds ==
    \A i \in issued :
        LET r == sent[i.call] IN
        i.receipt.decision = "allow" /\ r.network = "svm" =>
            /\ r.fee <= CapCeiling
            /\ r.fee <= IF r.cap \in Nat THEN r.cap ELSE DefaultCap

(* What is billed is an attestation: the resolver vouched for the quote,   *)
(* and the verifier decided on the very request (server.ts 117-134).       *)
BilledOnEvidence ==
    \A b \in billed :
        /\ evidence[b.call]
        /\ \E i \in issued : /\ i.call = b.call
                             /\ i.receipt.digest = b.digest /\ i.receipt.decision = b.decision
                             /\ SaysOf(i.receipt, sent[b.call])

(* A request the server has read is answered, whatever throws on the way.  *)
HandlerSettles == \A c \in Calls : job[c] = "received" ~> job[c] = "answered"
=============================================================================
